---------------------------- MODULE ReprocHandle ----------------------------
(***************************************************************************)
(* One reproc_t handle (reproc.c), the threads of the parent that call the *)
(* library on it, and the POSIX child process it owns (process.posix.c,    *)
(* pipe.posix.c).                                                          *)
(*                                                                         *)
(* A call is a little program: call[t].pc names the statement thread t is  *)
(* about to execute, so that calls of several threads, the child and the   *)
(* kernel interleave between the status check, poll(2), waitpid(2), the    *)
(* close of the exit pipe and the assignment of the status.                *)
(*                                                                         *)
(* Time is symbolic: a "finite" timeout may fire whenever the exit pipe is *)
(* not hung up, "zero" fires at once, "infinite" never, and "remaining"    *)
(* (what expiry() makes of the deadline) once the deadline has expired.    *)
(***************************************************************************)
EXTENDS Integers, FiniteSets

CONSTANTS
    Threads,     \* threads of the parent process
    Codes,       \* exit codes the child may choose
    Plans,       \* stop actions callers give to reproc_start and reproc_stop
    Overlaps,    \* {op1, op2}: two operations callers may run at the same time
    ForkMode,    \* options.fork
    Traits,      \* liberties the child takes, a subset of AllTraits
    Interrupts   \* may a signal handler interrupt poll(2) and waitpid(2)?

STATUS_NOT_STARTED == -1
STATUS_IN_PROGRESS == -2
STATUS_IN_CHILD    == -3

SIGOFFSET == 128
SIGKILL   == 9
SIGTERM   == 15

ENOENT    == -2
ESRCH     == -3
EINTR     == -4
ECHILD    == -10
EINVAL    == -22
EPIPE     == -32
ETIMEDOUT == -110

Errors == {ENOENT, ESRCH, EINTR, ECHILD, EINVAL, EPIPE, ETIMEDOUT}

Waiters    == {"wait", "stop", "destroy"}
Signallers == {"terminate", "kill", "stop", "destroy"}
Ops        == {"start", "wait", "terminate", "kill", "stop", "poll", "destroy"}
AllTraits  == {"ignoresTerm", "closesExit", "leavesDescendant"}

StopAction == [action  : {"noop", "wait", "terminate", "kill"},
               timeout : {"zero", "finite", "infinite", "deadline"}]
Noop == [action |-> "noop", timeout |-> "zero"]
NoPlan == [k \in 1..3 |-> Noop]

ASSUME HandleAssumption ==
    /\ Codes \subseteq 0..255
    /\ Plans \subseteq [1..3 -> StopAction]
    /\ Overlaps \subseteq SUBSET Ops
    /\ ForkMode \in BOOLEAN
    /\ Traits \subseteq AllTraits
    /\ Interrupts \in BOOLEAN

VARIABLES
    status,    \* process->status
    exitPipe,  \* is process->pipe.exit valid?
    deadline,  \* process->deadline: "none", "pending" or "expired"
    stop,      \* process->stop
    freed,     \* reproc_destroy has freed the handle
    call,      \* per thread: the call in progress, or the last one and its result
    child,     \* the child process: "none", "running", "zombie" or "reaped"
    code,      \* what parse_status makes of the child's wait status
    pid,       \* who has the pid process->handle: "free", "child" or "other"
    writers,   \* processes that hold the write end of the exit pipe
    signals,   \* signals of ours that have been sent to the child and will end it
    stray      \* a signal of ours has reached another process

handleVars == <<status, exitPipe, deadline, stop, freed>>
childVars  == <<child, code, pid, writers, signals>>
vars == <<handleVars, call, childVars, stray>>

(***************************************************************************)
(* Helpers.                                                                *)
(***************************************************************************)

Timeouts == {"zero", "finite", "infinite"}

\* What expiry(timeout, deadline) may return; "deadline" is REPROC_DEADLINE.
\* Which of a finite timeout and the time remaining is MIN is left open.
Expiry(timeout, dl) ==
    IF dl = "none" THEN {timeout}
    ELSE IF dl = "expired" THEN {"deadline"}
    ELSE CASE timeout = "infinite" -> {"remaining"}
           [] timeout = "zero"     -> {"zero"}
           [] OTHER                -> {timeout, "remaining"}

\* Mutant: any REPROC_DEADLINE only checks whether the child is running.
WaitTimeoutsEager(timeout) == {IF timeout = "deadline" THEN "zero" ELSE timeout}

\* The timeout reproc_wait hands to pipe_poll.
WaitTimeouts(timeout) ==
    IF timeout = "deadline"
    THEN {IF e = "deadline" THEN "zero" ELSE e : e \in Expiry("infinite", deadline)}
    ELSE {timeout}

ParseStopActions(plan) ==
    IF \A k \in 1..3 : plan[k].action = "noop"
    THEN [plan EXCEPT ![1] = [action |-> "wait", timeout |-> "deadline"],
                      ![2] = [action |-> "terminate", timeout |-> "infinite"]]
    ELSE plan

\* Mutant: the last resort is only a wait.
DestroyPlanMild == [k \in 1..3 |->
    [action |-> IF k = 2 THEN "terminate" ELSE "wait", timeout |-> "finite"]]

\* The stop actions reproc_destroy runs.
DestroyPlan == [k \in 1..3 |->
    [action |-> CASE k = 1 -> "wait" [] k = 2 -> "terminate" [] k = 3 -> "kill",
     timeout |-> "finite"]]

\* Mutant: a hang-up does not count as an event.
HangUpUnseen == FALSE

\* poll(2) reports POLLHUP on the exit pipe once nobody can write to it.
HungUp == writers = {}

Fires(timeout) ==
    \/ timeout \in {"zero", "finite"}
    \/ /\ timeout = "remaining"
       /\ deadline = "expired"

\* The signal a call at "kill" is about to send.
SignalOf(c) ==
    IF "kill" = (IF c.op \in {"terminate", "kill"} THEN c.op ELSE c.plan[c.i].action)
    THEN SIGKILL ELSE SIGTERM

\* Mutant: only a running child keeps the handle from being started again.
StartableAgain == status \notin {STATUS_IN_PROGRESS, STATUS_IN_CHILD}

\* reproc_start may be called on this handle.
Startable == status = STATUS_NOT_STARTED

\* There is no child to wait for or to signal: the calls return REPROC_EINVAL.
NotStarted == status \in {STATUS_NOT_STARTED, STATUS_IN_CHILD}

\* Mutant: exit status zero is not recognised.
ExitedOffByOne == status > 0

\* The exit status is known already.
Exited == status >= 0

\* Mutant: FD_CLOEXEC stays on the child's exit handle.
ExitNotInherited == {}

\* Who holds the write end of the exit pipe when reproc_start returns: the
\* child inherits it over exec, the parent has closed its own copy.
ExitWriters == {"child"}

NoCall == [op |-> "none", pc |-> "idle", plan |-> NoPlan, i |-> 1,
           timeout |-> "zero", ret |-> 0, event |-> "none"]

Busy(t) == call[t].pc # "idle"

\* The C rules for callers: nothing is called on a freed handle, and two
\* operations run at the same time only if Overlaps says so.
MayCall(t, op) ==
    /\ ~freed
    /\ ~Busy(t)
    /\ \A u \in Threads \ {t} : Busy(u) => {op, call[u].op} \in Overlaps

SetCall(t, c) == call' = [call EXCEPT ![t] = c]

\* The call goes on, and nothing else changes.
Goto(t, c) == SetCall(t, c) /\ UNCHANGED <<handleVars, childVars, stray>>

Returned(c, r) == [c EXCEPT !.pc = "idle", !.i = 1, !.timeout = "zero", !.ret = r]

\* reproc_stop returns r: to its caller, or to reproc_destroy, which ignores r.
StopEnds(c, r) ==
    IF c.op = "destroy" THEN [c EXCEPT !.pc = "release", !.ret = r]
    ELSE Returned(c, r)

\* Mutants: the loop repeats the action that timed out; the loop ends with the
\* first timeout.
AfterWaitRepeats(c, r) ==
    IF c.op = "wait" THEN Returned(c, r)
    ELSE IF r = ETIMEDOUT THEN [c EXCEPT !.pc = "next", !.ret = r]
    ELSE StopEnds(c, r)
AfterWaitGivesUp(c, r) ==
    IF c.op = "wait" THEN Returned(c, r) ELSE StopEnds(c, r)

\* What the caller of reproc_wait does with its result: in reproc_stop only a
\* timeout moves the loop to the next stop action.
AfterWait(c, r) ==
    IF c.op = "wait" THEN Returned(c, r)
    ELSE IF r = ETIMEDOUT THEN [c EXCEPT !.pc = "next", !.i = c.i + 1, !.ret = r]
    ELSE StopEnds(c, r)

\* Mutant: a signal that was sent ends the loop.
AfterSignalNoWait(c, r) ==
    IF c.op \in {"terminate", "kill"} THEN Returned(c, r) ELSE StopEnds(c, r)

\* Likewise for reproc_terminate and reproc_kill: in reproc_stop an error ends
\* the loop, and success goes on to reproc_wait.
AfterSignal(c, r) ==
    IF c.op \in {"terminate", "kill"} THEN Returned(c, r)
    ELSE IF r < 0 THEN StopEnds(c, r)
    ELSE [c EXCEPT !.pc = "wait", !.timeout = c.plan[c.i].timeout]
-----------------------------------------------------------------------------
(***************************************************************************)
(* reproc_new and reproc_start.  What reproc_start does to the descriptors *)
(* and the processes on the way is the subject of the spawn modules; here  *)
(* it is one step with its four outcomes.                                  *)
(***************************************************************************)

Init ==
    /\ status = STATUS_NOT_STARTED
    /\ exitPipe = FALSE
    /\ deadline = "none"
    /\ stop = NoPlan
    /\ freed = FALSE
    /\ call = [t \in Threads |-> NoCall]
    /\ child = "none"
    /\ code = 0
    /\ pid = "free"
    /\ writers = {}
    /\ signals = {}
    /\ stray = FALSE

StartReturns(t, r) == SetCall(t, [NoCall EXCEPT !.op = "start", !.ret = r])

\* The handle has been started already, or starting it failed: the handle is
\* as reproc_new left it and may be started again.
StartError(t) ==
    /\ MayCall(t, "start")
    /\ StartReturns(t, IF Startable THEN ENOENT ELSE EINVAL)
    /\ UNCHANGED <<handleVars, childVars, stray>>

StartParent(t) ==
    /\ MayCall(t, "start")
    /\ Startable
    /\ status' = STATUS_IN_PROGRESS
    /\ exitPipe' = TRUE
    /\ deadline' \in {"none", "pending"}
    /\ \E plan \in Plans : stop' = ParseStopActions(plan)
    /\ child' = "running"
    /\ pid' = "child"
    /\ writers' = ExitWriters
    /\ StartReturns(t, 1)
    /\ UNCHANGED <<freed, code, signals, stray>>

\* reproc_start returns 0: from here on this is the handle's copy in the child.
StartInChild(t) ==
    /\ ForkMode
    /\ MayCall(t, "start")
    /\ Startable
    /\ status' = STATUS_IN_CHILD
    /\ StartReturns(t, 0)
    /\ UNCHANGED <<exitPipe, deadline, stop, freed, childVars, stray>>
-----------------------------------------------------------------------------
(***************************************************************************)
(* reproc_wait, called by the application or by reproc_stop.               *)
(***************************************************************************)

CallWait(t, timeout) ==
    /\ MayCall(t, "wait")
    /\ Goto(t, [NoCall EXCEPT !.op = "wait", !.pc = "wait", !.timeout = timeout])

WaitEnter(t) ==
    /\ call[t].pc = "wait"
    /\ \/ /\ NotStarted
          /\ Goto(t, AfterWait(call[t], EINVAL))
       \/ /\ Exited
          /\ Goto(t, AfterWait(call[t], status))
       \/ /\ ~NotStarted
          /\ ~Exited
          /\ \E timeout \in WaitTimeouts(call[t].timeout) :
                Goto(t, [call[t] EXCEPT !.pc = "poll", !.timeout = timeout])

WaitHangUp(t) ==
    /\ call[t].pc = "poll"
    /\ HungUp
    /\ Goto(t, [call[t] EXCEPT !.pc = "waitpid", !.timeout = "zero"])

WaitTimesOut(t) ==
    /\ call[t].pc = "poll"
    /\ ~HungUp
    /\ Fires(call[t].timeout)
    /\ Goto(t, AfterWait(call[t], ETIMEDOUT))

\* process_wait: waitpid(2) takes no timeout and blocks until the child ends.
WaitReaps(t) ==
    /\ call[t].pc = "waitpid"
    /\ child = "zombie"
    /\ child' = "reaped"
    /\ pid' = "free"
    /\ SetCall(t, [call[t] EXCEPT !.pc = "close", !.ret = code])
    /\ UNCHANGED <<handleVars, code, writers, signals, stray>>

\* Mutant: the result of waitpid is not checked, the wait status is still zero.
WaitNoChildUnchecked(t) ==
    /\ call[t].pc = "waitpid"
    /\ child = "reaped"
    /\ Goto(t, [call[t] EXCEPT !.pc = "close", !.ret = 0])

WaitNoChild(t) ==
    /\ call[t].pc = "waitpid"
    /\ child = "reaped"
    /\ Goto(t, AfterWait(call[t], ECHILD))

WaitInterrupted(t) ==
    /\ Interrupts
    /\ call[t].pc \in {"poll", "waitpid"}
    /\ Goto(t, AfterWait(call[t], EINTR))

WaitClosesExit(t) ==
    /\ call[t].pc = "close"
    /\ exitPipe' = FALSE
    /\ SetCall(t, [call[t] EXCEPT !.pc = "assign"])
    /\ UNCHANGED <<status, deadline, stop, freed, childVars, stray>>

WaitAssigns(t) ==
    /\ call[t].pc = "assign"
    /\ status' = call[t].ret
    /\ SetCall(t, AfterWait(call[t], call[t].ret))
    /\ UNCHANGED <<exitPipe, deadline, stop, freed, childVars, stray>>
-----------------------------------------------------------------------------
(***************************************************************************)
(* reproc_terminate and reproc_kill.                                       *)
(***************************************************************************)

CallSignal(t, op) ==
    /\ MayCall(t, op)
    /\ Goto(t, [NoCall EXCEPT !.op = op, !.pc = "signal"])

SignalEnter(t) ==
    /\ call[t].pc = "signal"
    /\ Goto(t,
        IF NotStarted THEN AfterSignal(call[t], EINVAL)
        ELSE IF Exited THEN AfterSignal(call[t], 0)
        ELSE [call[t] EXCEPT !.pc = "kill"])

\* kill(process->handle, sig), to whichever process has that pid by now.  The
\* signal is sent, and the child dies of it later (ChildSignalled); a zombie, or a
\* child that ignores SIGTERM, does not care.
SendSignal(t) ==
    /\ call[t].pc = "kill"
    /\ SetCall(t, AfterSignal(call[t], IF pid = "free" THEN ESRCH ELSE 0))
    /\ stray' = (stray \/ pid = "other")
    /\ LET sig == SignalOf(call[t]) IN
       signals' = IF /\ pid = "child"
                     /\ child = "running"
                     /\ sig = SIGKILL \/ "ignoresTerm" \notin Traits
                  THEN signals \cup {sig} ELSE signals
    /\ UNCHANGED <<handleVars, child, code, pid, writers>>
-----------------------------------------------------------------------------
(***************************************************************************)
(* reproc_stop and reproc_destroy.                                         *)
(***************************************************************************)

CallStop(t, plan) ==
    /\ MayCall(t, "stop")
    /\ LET c == [NoCall EXCEPT !.op = "stop", !.plan = ParseStopActions(plan)]
       IN Goto(t, IF NotStarted
                     THEN Returned(c, EINVAL)
                     ELSE [c EXCEPT !.pc = "next"])

StopLoop(t) ==
    /\ call[t].pc = "next"
    /\ LET c == call[t]
       IN Goto(t,
            IF c.i > 3 THEN StopEnds(c, c.ret)
            ELSE CASE c.plan[c.i].action = "noop" -> [c EXCEPT !.i = c.i + 1, !.ret = 0]
                   [] c.plan[c.i].action = "wait" ->
                        [c EXCEPT !.pc = "wait", !.timeout = c.plan[c.i].timeout]
                   [] OTHER -> [c EXCEPT !.pc = "signal"])

CallDestroy(t) ==
    /\ MayCall(t, "destroy")
    /\ Goto(t, IF status = STATUS_IN_PROGRESS
                  THEN [NoCall EXCEPT !.op = "destroy", !.pc = "next",
                                      !.plan = ParseStopActions(DestroyPlan)]
                  ELSE [NoCall EXCEPT !.op = "destroy", !.pc = "release"])

DestroyReleases(t) ==
    /\ call[t].pc = "release"
    /\ exitPipe' = FALSE
    /\ freed' = TRUE
    /\ SetCall(t, Returned(call[t], call[t].ret))
    /\ UNCHANGED <<status, deadline, stop, childVars, stray>>
-----------------------------------------------------------------------------
(***************************************************************************)
(* reproc_poll on this handle alone, with interest in REPROC_EVENT_EXIT.   *)
(* The descriptor is read from the handle first and polled later.          *)
(***************************************************************************)

\* Mutant: pipes are polled without looking whether any is left.
NoPipeCheck == FALSE

NoValidPipe == ~exitPipe

CallPoll(t, timeout) ==
    /\ MayCall(t, "poll")
    /\ LET c == [NoCall EXCEPT !.op = "poll"]
       IN \E first \in Expiry(timeout, deadline) :
            Goto(t,
                IF first = "deadline" THEN [c EXCEPT !.ret = 1, !.event = "deadline"]
                ELSE IF NoValidPipe THEN [c EXCEPT !.ret = EPIPE]
                ELSE [c EXCEPT !.pc = "polling", !.timeout = first])

PollReturns(t, r, event) ==
    /\ Goto(t, [Returned(call[t], r) EXCEPT !.event = event])

\* A descriptor that was closed meanwhile is POLLNVAL, or another open file.
PollExit(t) ==
    /\ call[t].pc = "polling"
    /\ HungUp \/ ~exitPipe
    /\ PollReturns(t, 1, "exit")

PollTimesOut(t) ==
    /\ call[t].pc = "polling"
    /\ ~HungUp \/ ~exitPipe
    /\ Fires(call[t].timeout)
    /\ IF call[t].timeout = "remaining"
       THEN PollReturns(t, 1, "deadline")
       ELSE PollReturns(t, 0, "none")

PollInterrupted(t) ==
    /\ Interrupts
    /\ call[t].pc = "polling"
    /\ PollReturns(t, EINTR, "none")
-----------------------------------------------------------------------------
(***************************************************************************)
(* The child, its descendants, the kernel and the clock.                   *)
(***************************************************************************)

ChildEnds(c) ==
    /\ child = "running"
    /\ child' = "zombie"
    /\ code' = c
    /\ writers' = writers \ {"child"}
    /\ UNCHANGED <<handleVars, call, pid, signals, stray>>

\* On its own, also with a signal on its way.
ChildExits == \E c \in Codes : ChildEnds(c)

\* Of a signal that has been sent to it, some time after kill(2) has returned.
ChildSignalled == \E sig \in signals : ChildEnds(SIGOFFSET + sig)

\* The end of reproc_start in a forked child closes the exit pipe's write end.
ForkedChildReturns ==
    /\ ForkMode
    /\ child = "running"
    /\ "child" \in writers
    /\ writers' = writers \ {"child"}
    /\ UNCHANGED <<handleVars, call, child, code, pid, signals, stray>>

\* The child closes the descriptor it inherited.
ChildClosesExit ==
    /\ "closesExit" \in Traits
    /\ child = "running"
    /\ "child" \in writers
    /\ writers' = writers \ {"child"}
    /\ UNCHANGED <<handleVars, call, child, code, pid, signals, stray>>

ChildForks ==
    /\ "leavesDescendant" \in Traits
    /\ child = "running"
    /\ writers = {"child"}
    /\ writers' = {"child", "descendant"}
    /\ UNCHANGED <<handleVars, call, child, code, pid, signals, stray>>

DescendantExits ==
    /\ "descendant" \in writers
    /\ writers' = writers \ {"descendant"}
    /\ UNCHANGED <<handleVars, call, child, code, pid, signals, stray>>

PidReused ==
    /\ child = "reaped"
    /\ pid = "free"
    /\ pid' = "other"
    /\ UNCHANGED <<handleVars, call, child, code, writers, signals, stray>>

DeadlineExpires ==
    /\ deadline = "pending"
    /\ deadline' = "expired"
    /\ UNCHANGED <<status, exitPipe, stop, freed, call, childVars, stray>>

Environment ==
    \/ ChildExits \/ ChildSignalled \/ ForkedChildReturns \/ ChildClosesExit
    \/ ChildForks \/ DescendantExits \/ PidReused \/ DeadlineExpires

Begin(t) ==
    \/ StartError(t) \/ StartParent(t) \/ StartInChild(t)
    \/ \E timeout \in Timeouts \cup {"deadline"} : CallWait(t, timeout)
    \/ \E op \in {"terminate", "kill"} : CallSignal(t, op)
    \/ \E plan \in Plans : CallStop(t, plan)
    \/ \E timeout \in Timeouts : CallPoll(t, timeout)
    \/ CallDestroy(t)

\* The steps a call takes once it has begun.
Step(t) ==
    \/ WaitEnter(t) \/ WaitHangUp(t) \/ WaitTimesOut(t) \/ WaitReaps(t)
    \/ WaitNoChild(t) \/ WaitClosesExit(t) \/ WaitAssigns(t)
    \/ SignalEnter(t) \/ SendSignal(t)
    \/ StopLoop(t) \/ DestroyReleases(t)
    \/ PollExit(t) \/ PollTimesOut(t)

BrokenOff(t) == WaitInterrupted(t) \/ PollInterrupted(t)

Next ==
    \/ \E t \in Threads : Begin(t) \/ Step(t) \/ BrokenOff(t)
    \/ Environment

Spec == Init /\ [][Next]_vars

\* Threads inside the library are scheduled, a signal that was sent and is not
\* ignored ends the child some day, and time passes.  Nothing makes callers call,
\* the child or its descendants exit on their own, or signals interrupt a call.
Fairness ==
    /\ \A t \in Threads : WF_vars(Step(t))
    /\ WF_vars(ChildSignalled)
    /\ WF_vars(DeadlineExpires)

FairSpec == Spec /\ Fairness
-----------------------------------------------------------------------------
(***************************************************************************)
(* Properties.                                                             *)
(***************************************************************************)

Pcs == {"idle", "wait", "poll", "waitpid", "close", "assign", "signal", "kill",
        "next", "release", "polling"}

Results == Errors \cup 0..255

CallRecord ==
    [op      : Ops \cup {"none"},
     pc      : Pcs,
     plan    : [1..3 -> StopAction],
     i       : 1..4,
     timeout : Timeouts \cup {"deadline", "remaining"},
     ret     : Results,
     event   : {"none", "exit", "deadline"}]

\* Every variable keeps its type, through every call on the handle.
TypeOK ==
    /\ status \in {STATUS_NOT_STARTED, STATUS_IN_PROGRESS, STATUS_IN_CHILD} \cup 0..255
    /\ exitPipe \in BOOLEAN
    /\ deadline \in {"none", "pending", "expired"}
    /\ stop \in [1..3 -> StopAction]
    /\ freed \in BOOLEAN
    /\ call \in [Threads -> CallRecord]
    /\ child \in {"none", "running", "zombie", "reaped"}
    /\ code \in 0..255
    /\ pid \in {"free", "child", "other"}
    /\ writers \subseteq {"child", "descendant"}
    /\ signals \subseteq {SIGTERM, SIGKILL}
    /\ stray \in BOOLEAN

Last(t, op) == call[t].op = op /\ call[t].pc = "idle"

\* The status in the handle, and every status reproc_wait returns, is the one
\* the child really ended with, and only after it has been reaped.
ExitStatusTrue ==
    /\ status >= 0 => child = "reaped" /\ status = code
    /\ \A t \in Threads : Last(t, "wait") /\ call[t].ret >= 0
            => child = "reaped" /\ call[t].ret = code

\* reproc_terminate, reproc_kill and reproc_stop never signal a process other
\* than the child: the pid in the handle is not used once it has been given back.
NoStraySignal == ~stray

\* The assertion in reproc_wait that process->pipe.exit is valid never fails, and
\* reproc_poll polls the exit pipe of this handle, not a descriptor closed (and
\* perhaps opened again for something else) since it was read from the handle.
ExitPipeValid ==
    \A t \in Threads :
        \/ call[t].pc \in {"poll", "polling"}
        \/ call[t].pc = "wait" /\ status = STATUS_IN_PROGRESS
        => exitPipe

\* The child is reaped once: no call is left waiting for a child that is gone,
\* and none is told ECHILD.
ReapedOnce ==
    \A t \in Threads : call[t].pc = "waitpid" => child \in {"running", "zombie"}

\* REPROC_EVENT_EXIT means that the child has finished running.
ExitEventMeansExit ==
    \A t \in Threads : Last(t, "poll") /\ call[t].event = "exit"
        => child \in {"zombie", "reaped"}

\* The child is over, or SIGKILL is on its way to it.
Doomed == child \in {"zombie", "reaped"} \/ SIGKILL \in signals

\* When reproc_kill has returned 0, the child is over or has been sent SIGKILL:
\* neither a stale status nor another call makes kill succeed without either.
KillReachesChild ==
    \A t \in Threads : Last(t, "kill") /\ call[t].ret = 0 => Doomed

\* reproc_destroy leaves no child that nobody has killed, unless a signal handler
\* broke off its wait, trying harder from one stop action to the next.  A child that
\* has been killed may still be dying when the last wait (100 ms) times out.
DestroyEndsChild ==
    \A t \in Threads : Last(t, "destroy") /\ call[t].ret # EINTR
        => child = "none" \/ Doomed

\* A stop action that follows a wait for REPROC_DEADLINE (as in the default
\* plan) is carried out only if there is a deadline and it has expired.
DeadlineWaitIsPatient ==
    \A t \in Threads :
        LET c == call[t] IN
        /\ c.pc \in {"signal", "kill"}
        /\ c.op = "stop"
        /\ c.i > 1
        /\ c.plan[c.i - 1] = [action |-> "wait", timeout |-> "deadline"]
        => deadline = "expired"

\* A result of reproc_stop that is not negative is the exit status; where the last
\* stop action is a NOOP it may also be 0 (StopTimesOut is about that).  A timeout
\* means that the plan has been gone through: a kill in it has doomed the child.
StopResult ==
    \A t \in Threads : Last(t, "stop") =>
        LET c == call[t] IN
        /\ c.ret >= 0 => \/ status = c.ret
                         \/ c.ret = 0 /\ c.plan[3].action = "noop"
        /\ c.ret = ETIMEDOUT /\ (\E k \in 1..3 : c.plan[k].action = "kill") => Doomed

\* reproc_stop returns the exit status or an error, REPROC_ETIMEDOUT when the
\* timeouts have expired (reproc.h:506-510), also with the trailing NOOP of the
\* example in reproc.h:482-486.  In the code a NOOP resets the result to 0.
StopTimesOut ==
    \A t \in Threads : Last(t, "stop") /\ call[t].ret >= 0 => status = call[t].ret

\* No timeout of the call can keep it waiting forever.
BoundedTimeout(timeout) ==
    timeout # "infinite" /\ (timeout = "deadline" => deadline # "none")

Bounded(c) ==
    /\ BoundedTimeout(c.timeout)
    /\ \A k \in 1..3 : BoundedTimeout(c.plan[k].timeout)

\* waitpid(2) has no timeout: a child that runs on after its exit pipe has hung up
\* (it closed the descriptor, or is a fork of the parent) makes a wait block.
WaitsPastTimeout == child = "running" /\ HungUp

\* A call given only timeouts that end returns, also if the child never exits,
\* except for as long as WaitsPastTimeout.
BoundedCallsReturn ==
    \A t \in Threads : Busy(t) /\ Bounded(call[t]) ~> ~Busy(t) \/ WaitsPastTimeout

\* Once the child is over and nobody else holds the exit pipe, every call
\* returns, also one with infinite timeouts.
CallsReturnAfterExit ==
    \A t \in Threads : Busy(t) /\ child # "running" /\ writers = {} ~> ~Busy(t)

\* The inductive invariant behind the safety properties of callers that run the
\* operations that wait apart from every other operation: which operation is at
\* which statement, and what the statement may count on.
CallOK(c) ==
    /\ c.pc # "idle" => c.op \in Ops \ {"start"}
    /\ c.pc \in {"wait", "poll", "waitpid", "close", "assign"} => c.op \in Waiters
    /\ c.pc \in {"signal", "kill"} => c.op \in Signallers
    /\ c.pc = "next" => c.op \in {"stop", "destroy"}
    /\ c.pc = "release" => c.op = "destroy"
    /\ c.pc = "polling" => c.op = "poll" /\ exitPipe
    /\ c.pc \in {"poll", "waitpid", "close", "assign", "kill"} => status = STATUS_IN_PROGRESS
    /\ c.pc \in {"poll", "waitpid", "close"} => exitPipe
    /\ c.pc = "waitpid" => child # "reaped"
    /\ c.pc \in {"close", "assign"} => child = "reaped" /\ c.ret = code
    /\ c.pc = "idle" /\ c.op = "wait" /\ c.ret >= 0 => child = "reaped" /\ c.ret = code
    /\ c.pc = "idle" /\ c.op = "kill" /\ c.ret = 0 => Doomed

Reaping(t) == call[t].pc \in {"close", "assign"}

ChildOK ==
    /\ child = "none" <=> status \in {STATUS_NOT_STARTED, STATUS_IN_CHILD}
    /\ child = "none" => signals = {}
    /\ status >= 0 => child = "reaped" /\ status = code
    /\ child \in {"running", "zombie"} => pid = "child"
    /\ child = "reaped" /\ status = STATUS_IN_PROGRESS => \E t \in Threads : Reaping(t)
    /\ status = STATUS_IN_PROGRESS /\ ~exitPipe
        => freed \/ \E t \in Threads : call[t].pc = "assign"
    /\ freed => \A t \in Threads : ~Busy(t)
    /\ ~stray

SerialInv ==
    /\ \A t \in Threads : CallOK(call[t])
    /\ \A t, u \in Threads : t # u /\ Busy(t) /\ Busy(u) => {call[t].op, call[u].op} \in Overlaps
    /\ ChildOK
=============================================================================
