------------------------------- MODULE ReprocRun -------------------------------
(***************************************************************************)
(* reproc_run_ex (run.c) on top of the calls of ReprocHandle: start, drain,*)
(* stop and destroy by one thread, on a handle nobody else knows, each     *)
(* call only if those before it have succeeded.  A behaviour either is one *)
(* such run or has callers of the single operations, as in ReprocHandle.   *)
(*                                                                         *)
(* The drain is one step; its inner life is that of ReprocStreams, where   *)
(* DrainReturns and DrainComplete justify when it may and must end.        *)
(***************************************************************************)
EXTENDS ReprocHandle

CONSTANT SinkResults  \* what the caller's sinks may return, besides 0

ASSUME RunAssumption == SinkResults \subseteq Int

VARIABLE run  \* the run: its thread, statement, options.stop and .fork, result r

runVars == <<vars, run>>

Statements == {"start", "drain", "stop", "stopping", "destroy", "destroying", "returned"}

NoRun == [at |-> "none", by |-> "nobody", plan |-> NoPlan, fork |-> FALSE, r |-> 0]

RunInit ==
    /\ Init
    /\ run \in {NoRun} \cup
               [at : {"start"}, by : Threads, plan : Plans, fork : BOOLEAN, r : {0}]

At(statement, r) == run' = [run EXCEPT !.at = statement, !.r = r]

\* Mutant: a failure of the drain or of stop returns at once.
AfterFailureReturns == "returned"

\* The label at which reproc_run_ex ends.
AfterFailure == "destroy"

\* A statement of reproc_run_ex has result r.
Continue(next, r) == At(IF r < 0 THEN AfterFailure ELSE next, r)

\* Forking is refused before there is a handle.
RunRefused ==
    /\ run.at = "start"
    /\ run.fork
    /\ At("returned", EINVAL)
    /\ UNCHANGED vars

\* reproc_start with the stop actions of the options.
RunStart ==
    /\ run.at = "start"
    /\ ~run.fork
    /\ \/ StartError(run.by)
       \/ StartParent(run.by) /\ stop' = ParseStopActions(run.plan)
    /\ Continue("drain", call'[run.by].ret)

\* Mutant: the drain does not look for the deadline event.
DrainResultsNoDeadline == IF HungUp THEN {0} ELSE {}

\* The drain ends with both streams, which end no later than the exit pipe hangs
\* up, or with the deadline.
DrainResults ==
    (IF HungUp THEN {0} ELSE {}) \cup (IF deadline = "expired" THEN {ETIMEDOUT} ELSE {})

DrainEnds ==
    /\ run.at = "drain"
    /\ \E r \in DrainResults : Continue("stop", r)
    /\ UNCHANGED vars

\* It may end earlier: the child has closed its streams, a sink returns anything
\* but 0, a signal handler interrupts the poll.
DrainBreaksOff ==
    /\ run.at = "drain"
    /\ \E r \in {0} \cup SinkResults \cup (IF Interrupts THEN {EINTR} ELSE {}) :
          Continue("stop", r)
    /\ UNCHANGED vars

RunStop ==
    /\ run.at = "stop"
    /\ CallStop(run.by, run.plan)
    /\ At("stopping", run.r)

RunStopped ==
    /\ run.at = "stopping"
    /\ ~Busy(run.by)
    /\ Continue("destroy", call[run.by].ret)
    /\ UNCHANGED vars

RunDestroy ==
    /\ run.at = "destroy"
    /\ CallDestroy(run.by)
    /\ At("destroying", run.r)

RunReturn ==
    /\ run.at = "destroying"
    /\ ~Busy(run.by)
    /\ At("returned", run.r)
    /\ UNCHANGED vars

RunStep ==
    RunRefused \/ RunStart \/ DrainEnds \/ RunStop \/ RunStopped \/ RunDestroy \/ RunReturn

\* Everything but the calls of the run: their inner steps, and all that happens
\* around them; without a run, the callers.
Around ==
    /\ \/ Environment
       \/ \E t \in Threads : Step(t) \/ BrokenOff(t) \/ (run = NoRun /\ Begin(t))
    /\ UNCHANGED run

RunNext == RunStep \/ DrainBreaksOff \/ Around

RunSpec == RunInit /\ [][RunNext]_runVars

\* The fairness of ReprocHandle, and that the run's thread goes on.
RunFairness ==
    /\ \A t \in Threads : WF_runVars(Step(t) /\ UNCHANGED run)
    /\ WF_runVars(ChildSignalled /\ UNCHANGED run)
    /\ WF_runVars(DeadlineExpires /\ UNCHANGED run)
    /\ WF_runVars(RunStep)

FairRunSpec == RunSpec /\ RunFairness
-----------------------------------------------------------------------------
\* When reproc_run_ex has returned, its handle has been freed, a result that is
\* not negative is the exit status of the child (or 0 where the stop actions end
\* with a NOOP), and the child has been reaped, whichever call failed.  It is not
\* reaped where the last wait of reproc_destroy was interrupted, or timed out on a
\* child that is dying of SIGKILL or a descendant that holds the exit pipe.
RunTrue ==
    run.at = "returned" /\ ~run.fork =>
        /\ freed
        /\ run.r >= 0 => (run.r = status \/ (run.r = 0 /\ run.plan[3].action = "noop"))
        /\ \/ child \in {"none", "reaped"}
           \/ call[run.by].ret = ETIMEDOUT /\ Doomed
           \/ call[run.by].ret = EINTR

\* reproc_run_ex returns once the child is over, and also before if there is a
\* deadline and all timeouts of the stop actions end, except for as long as
\* WaitsPastTimeout.
RunReturns ==
    run.at \in Statements \ {"start", "returned"}
        /\ \/ child # "running" /\ writers = {}
           \/ deadline # "none" /\ run.plan # NoPlan
                /\ \A k \in 1..3 : run.plan[k].timeout # "infinite"
        ~> run.at = "returned" \/ WaitsPastTimeout
=============================================================================
