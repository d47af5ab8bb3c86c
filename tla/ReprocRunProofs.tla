--------------------------- MODULE ReprocRunProofs ---------------------------
(***************************************************************************)
(* reproc_run_ex is a caller of ReprocHandle like any other, so that what  *)
(* holds of the calls holds of the calls of a run; and it leaves neither a *)
(* handle nor a child, and loses no result, whichever call fails.          *)
(***************************************************************************)
EXTENDS ReprocStopProofs, ReprocRun

RunType ==
    run \in {NoRun} \cup
            [at : Statements, by : Threads, plan : Plans, fork : BOOLEAN, r : Int]

\* The status as the result of a run.
ResultOK ==
    run.r >= 0 => run.r = status \/ (run.r = 0 /\ run.plan[3].action = "noop")

\* The run is the only caller; the call it is waiting for, and its result.
RunOK ==
    LET c == call[run.by] IN
    /\ \A u \in Threads \ {run.by} : call[u].op = "none" /\ ~Busy(u)
    /\ run.at \in {"stopping", "destroying"} \/ ~Busy(run.by)
    /\ run.fork => run.at \in {"start", "returned"}
    /\ run.at \in {"start", "drain", "stop", "stopping", "destroy"} => c.op # "destroy"
    /\ run.at = "stopping" => c.op = "stop" /\ c.plan = ParseStopActions(run.plan)
    /\ run.at = "destroying" \/ (run.at = "returned" /\ ~run.fork) => c.op = "destroy"
    /\ run.at \in {"destroy", "destroying", "returned"} => ResultOK

RunInv == RunType /\ (run # NoRun => RunOK)
-----------------------------------------------------------------------------
(* A behaviour with a run is one of the handle and its callers. *)

LEMMA NoRunIs == NoRun.at = "none" /\ "none" \notin Statements
BY DEF NoRun, Statements

LEMMA RunIs ==
    ASSUME RunType, run.at # "none"
    PROVE  /\ run # NoRun
           /\ run \in [at : Statements, by : Threads, plan : Plans, fork : BOOLEAN, r : Int]
BY NoRunIs DEF RunType

\* What a statement of the run does to the handle.
LEMMA RunStepNext ==
    ASSUME RunType, RunNext
    PROVE  \/ UNCHANGED vars
           \/ /\ run.at \in {"start", "stop", "destroy"}
              /\ Begin(run.by)
           \/ UNCHANGED run /\ (Environment \/ \E t \in Threads : Step(t) \/ BrokenOff(t))
           \/ run = NoRun /\ UNCHANGED run /\ \E t \in Threads : Begin(t)
<1>1. CASE RunStart
  BY <1>1 DEF RunStart, Begin
<1>2. CASE RunStop
  <2>1. run.plan \in Plans
    BY <1>2, RunIs DEF RunStop
  <2>2. QED
    BY <1>2, <2>1 DEF RunStop, Begin
<1>3. CASE RunDestroy
  BY <1>3 DEF RunDestroy, Begin
<1>4. CASE RunRefused \/ DrainEnds \/ DrainBreaksOff \/ RunStopped \/ RunReturn
  BY <1>4 DEF RunRefused, DrainEnds, DrainBreaksOff, RunStopped, RunReturn
<1>5. CASE Around
  BY <1>5 DEF Around
<1>6. QED
  BY <1>1, <1>2, <1>3, <1>4, <1>5 DEF RunNext, RunStep

LEMMA RunVars ==
    ASSUME RunType, [RunNext]_runVars
    PROVE  [Next]_vars
<1>1. ASSUME run.at \in {"start", "stop", "destroy"}, Begin(run.by)
      PROVE  Next
  <2>1. run.by \in Threads
    BY <1>1, RunIs
  <2>2. QED
    BY <1>1, <2>1 DEF Next
<1>2. CASE UNCHANGED runVars
  BY <1>2 DEF runVars
<1>3. CASE RunNext
  BY <1>1, <1>3, RunStepNext DEF Next
<1>4. QED
  BY <1>2, <1>3

LEMMA TypeRun ==
    ASSUME RunType, TypeInv, TypeInv', [RunNext]_runVars
    PROVE  RunType'
<1> DEFINE Runs == [at : Statements, by : Threads, plan : Plans, fork : BOOLEAN, r : Int]
<1>1. CASE UNCHANGED run
  BY <1>1 DEF RunType
\* The run goes from one statement to another.
<1>2. ASSUME run.at # "none", NEW s \in Statements, NEW r \in Int, At(s, r)
      PROVE  RunType'
  <2>1. run \in Runs
    BY <1>2, RunIs
  <2>2. run' \in Runs
    BY <1>2, <2>1 DEF At
  <2>3. QED
    BY <2>2 DEF RunType
<1>3. ASSUME run.at # "none", NEW s \in Statements, NEW r \in Int, Continue(s, r)
      PROVE  RunType'
  <2>1. "destroy" \in Statements
    BY DEF Statements
  <2>2. QED
    BY <1>2, <1>3, <2>1 DEF Continue, AfterFailure
<1>4. run.at # "none" => run.r \in Int /\ run.by \in Threads
  BY RunIs
<1>5. /\ "drain" \in Statements /\ "stop" \in Statements /\ "stopping" \in Statements
      /\ "destroy" \in Statements /\ "destroying" \in Statements /\ "returned" \in Statements
  BY DEF Statements
<1>6. \A t \in Threads : call[t].ret \in Int /\ call'[t].ret \in Int
  BY ResultsAre DEF TypeInv, TypeOK, CallRecord
<1>7. CASE RunRefused \/ RunReturn \/ RunStop \/ RunDestroy
  <2>1. EINVAL \in Int
    BY DEF EINVAL
  <2>2. QED
    BY <1>2, <1>4, <1>5, <1>7, <2>1 DEF RunRefused, RunReturn, RunStop, RunDestroy
<1>8. CASE RunStart \/ RunStopped
  BY <1>3, <1>4, <1>5, <1>6, <1>8 DEF RunStart, RunStopped
<1>9. CASE DrainEnds \/ DrainBreaksOff
  <2>1. PICK r \in DrainResults \cup {0} \cup SinkResults \cup {EINTR} : Continue("stop", r)
    BY <1>9 DEF DrainEnds, DrainBreaksOff
  <2>2. r \in Int
    BY <2>1, RunAssumption DEF DrainResults, EINTR, ETIMEDOUT
  <2>3. QED
    BY <1>3, <1>5, <1>9, <2>1, <2>2 DEF DrainEnds, DrainBreaksOff
<1>10. CASE Around \/ UNCHANGED runVars
  BY <1>1, <1>10 DEF Around, runVars
<1>11. QED
  BY <1>7, <1>8, <1>9, <1>10 DEF RunNext, RunStep

\* A behaviour with a run is one of the handle.
LEMMA RunCalls == RunSpec => Spec /\ []RunType
<1>1. RunInit => RunType /\ Init
  BY DEF RunInit, RunType, Statements
<1>2. Init => TypeInv
  BY InitType
<1>3. TypeInv /\ RunType /\ [RunNext]_runVars => [Next]_vars /\ TypeInv' /\ RunType'
  BY RunVars, TypeNext, TypeRun
<1>4. QED
  BY <1>1, <1>2, <1>3, PTL DEF RunSpec, Spec
-----------------------------------------------------------------------------
(* The run is the only caller, and it keeps the status as its result. *)

\* parse_stop_actions leaves the last stop action alone.
LEMMA LastAction ==
    ASSUME NEW plan \in Plans
    PROVE  ParseStopActions(plan)[3] = plan[3]
BY HandleAssumption DEF ParseStopActions

LEMMA RunsAre ==
    ASSUME RunType, run # NoRun
    PROVE  /\ run.at \in Statements /\ run.at # "none" /\ run.by \in Threads
           /\ run.plan \in Plans /\ run.r \in Int
           /\ run \in [at : Statements, by : Threads, plan : Plans, fork : BOOLEAN, r : Int]
BY NoRunIs DEF RunType

LEMMA ResultKept ==
    ASSUME TypeInv, TruthInv, RunType, run # NoRun, [Next]_vars, ResultOK,
           run'.r = run.r, run'.plan = run.plan
    PROVE  ResultOK'
<1>1. Steady
  BY NextSteady
<1>2. QED
  BY <1>1, RunsAre DEF ResultOK, Steady

\* The statement of the run, and its result.
LEMMA AtIs ==
    ASSUME RunType, run # NoRun, NEW s, NEW r, At(s, r)
    PROVE  /\ run'.at = s /\ run'.r = r
           /\ run'.by = run.by /\ run'.plan = run.plan /\ run'.fork = run.fork
BY RunsAre DEF At

LEMMA ContinueIs ==
    ASSUME RunType, run # NoRun, NEW s, NEW r, Continue(s, r)
    PROVE  /\ run'.at = (IF r < 0 THEN "destroy" ELSE s) /\ run'.r = r
           /\ run'.by = run.by /\ run'.plan = run.plan /\ run'.fork = run.fork
BY AtIs DEF Continue, AfterFailure

\* The run goes on without the handle.
LEMMA StatementRun ==
    ASSUME TypeInv, TruthInv, StopInv, RunType, RunType', run # NoRun, RunOK,
           RunRefused \/ DrainEnds \/ DrainBreaksOff \/ RunStopped \/ RunReturn
    PROVE  RunOK'
<1> DEFINE c == call[run.by]
<1>1. /\ UNCHANGED vars /\ UNCHANGED <<call, status>>
  BY DEF RunRefused, DrainEnds, DrainBreaksOff, RunStopped, RunReturn, vars, handleVars
<1>2. \A t \in Threads : call[t].ret \in Int
  BY ResultsAre DEF TypeInv, TypeOK, CallRecord
<1>3. CASE RunRefused
  <2>1. run.at = "start" /\ run.fork /\ At("returned", EINVAL)
    BY <1>3 DEF RunRefused
  <2>2. ~(EINVAL >= 0)
    BY DEF EINVAL
  <2>3. /\ run'.at = "returned" /\ run'.r = EINVAL /\ run'.by = run.by /\ run'.plan = run.plan
        /\ run'.fork = run.fork
    BY <2>1, AtIs
  <2>4. run'.fork
    BY <2>1, <2>3
  <2>5. QED
    BY <1>1, <2>1, <2>2, <2>3, <2>4 DEF RunOK, ResultOK, Busy
<1>4. CASE DrainEnds \/ DrainBreaksOff
  <2>1. PICK r \in DrainResults \cup {0} \cup SinkResults \cup {EINTR} : Continue("stop", r)
    BY <1>4 DEF DrainEnds, DrainBreaksOff
  <2>2. r \in Int /\ run.at = "drain"
    BY <1>4, <2>1, RunAssumption DEF DrainResults, EINTR, ETIMEDOUT, DrainEnds, DrainBreaksOff
  <2>3. /\ run'.at \in {"stop", "destroy"} /\ run'.by = run.by /\ run'.plan = run.plan
        /\ run'.fork = run.fork /\ run'.r = r /\ (run'.at = "destroy" => ~(r >= 0))
    BY <2>1, <2>2, ContinueIs
  <2>4. QED
    BY <1>1, <2>2, <2>3 DEF RunOK, ResultOK, Busy
<1>5. CASE RunStopped
  <2>1. run.at = "stopping" /\ ~Busy(run.by) /\ Continue("destroy", c.ret)
    BY <1>5 DEF RunStopped
  <2>2. /\ run'.at = "destroy" /\ run'.by = run.by /\ run'.plan = run.plan
        /\ run'.fork = run.fork /\ run'.r = c.ret
    BY <2>1, ContinueIs
  <2>3. c.op = "stop" /\ c.plan = ParseStopActions(run.plan) /\ run.by \in Threads
        /\ c.plan[3] = run.plan[3]
    BY <2>1, RunsAre, LastAction DEF RunOK
  <2>4. c.ret >= 0 => status = c.ret \/ (c.ret = 0 /\ run.plan[3].action = "noop")
    BY <2>1, <2>3 DEF StopInv, EndOK, Busy
  <2>5. QED
    BY <1>1, <2>1, <2>2, <2>3, <2>4 DEF RunOK, ResultOK, Busy
<1>6. CASE RunReturn
  <2>1. run.at = "destroying" /\ ~Busy(run.by) /\ At("returned", run.r)
    BY <1>6 DEF RunReturn
  <2>2. QED
    BY <1>1, <2>1, AtIs DEF RunOK, ResultOK, Busy
<1>7. QED
  BY <1>3, <1>4, <1>5, <1>6

\* A call of the run begins.
LEMMA CallRun ==
    ASSUME TypeInv, TruthInv, RunType, run # NoRun, RunOK, [Next]_vars,
           RunStart \/ RunStop \/ RunDestroy
    PROVE  RunOK'
<1> DEFINE t == run.by
<1>1. /\ t \in Threads /\ run.plan \in Plans /\ run.r \in Int
      /\ call \in [Threads -> CallRecord]
  BY RunsAre DEF TypeInv, TypeOK
\* What is left to show of a call d of the run.
<1>2. ASSUME NEW d, call' = [call EXCEPT ![t] = d]
      PROVE  call'[t] = d /\ \A u \in Threads \ {t} : call'[u] = call[u]
  BY <1>1, <1>2
<1>3. CASE RunStart
  <2> DEFINE d(r) == [NoCall EXCEPT !.op = "start", !.ret = r]
  <2>1. \A r : d(r).op = "start" /\ d(r).ret = r /\ d(r).pc = "idle"
    BY DEF NoCall
  <2>2. PICK r \in {ENOENT, EINVAL, 1} : call' = [call EXCEPT ![t] = d(r)]
    BY <1>3 DEF RunStart, StartError, StartParent, StartReturns, SetCall
  <2> HIDE DEF d
  <2>3. /\ call'[t].op = "start" /\ call'[t].ret = r /\ call'[t].pc = "idle"
        /\ \A u \in Threads \ {t} : call'[u] = call[u]
    BY <1>2, <2>1, <2>2
  <2>4. r \in Int
    BY DEF ENOENT, EINVAL
  <2>5. Continue("drain", r) /\ run.at = "start" /\ ~run.fork
    BY <1>3, <2>3 DEF RunStart
  <2>6. /\ run'.at \in {"drain", "destroy"} /\ run'.by = t /\ run'.plan = run.plan
        /\ run'.fork = run.fork /\ run'.r = r /\ (run'.at = "destroy" => ~(r >= 0))
    BY <2>4, <2>5, ContinueIs
  <2>7. ~run'.fork
    BY <2>5, <2>6
  <2>8. QED
    BY <2>3, <2>6, <2>7 DEF RunOK, ResultOK, Busy
<1>4. CASE RunStop
  <2> DEFINE c == [NoCall EXCEPT !.op = "stop", !.plan = ParseStopActions(run.plan)]
             d == IF NotStarted THEN Returned(c, EINVAL) ELSE [c EXCEPT !.pc = "next"]
  <2>1. d.op = "stop" /\ d.plan = ParseStopActions(run.plan)
    BY DEF NoCall, Returned
  <2>2. call' = [call EXCEPT ![t] = d] /\ run.at = "stop" /\ At("stopping", run.r)
    BY <1>4 DEF RunStop, CallStop, Goto, SetCall
  <2> HIDE DEF d
  <2>3. /\ call'[t].op = "stop" /\ call'[t].plan = ParseStopActions(run.plan)
        /\ \A u \in Threads \ {t} : call'[u] = call[u]
    BY <1>2, <2>1, <2>2
  <2>4. /\ run'.at = "stopping" /\ run'.by = t /\ run'.plan = run.plan
        /\ run'.fork = run.fork
    BY <2>2, AtIs
  <2>5. ~run.fork
    BY <2>2 DEF RunOK
  <2>6. ~run'.fork
    BY <2>4, <2>5
  <2>7. QED
    BY <2>2, <2>3, <2>4, <2>6 DEF RunOK, Busy
<1>5. CASE RunDestroy
  <2> DEFINE d == IF status = STATUS_IN_PROGRESS
                  THEN [NoCall EXCEPT !.op = "destroy", !.pc = "next",
                                      !.plan = ParseStopActions(DestroyPlan)]
                  ELSE [NoCall EXCEPT !.op = "destroy", !.pc = "release"]
  <2>1. d.op = "destroy"
    BY DEF NoCall
  <2>2. call' = [call EXCEPT ![t] = d] /\ run.at = "destroy" /\ At("destroying", run.r)
    BY <1>5 DEF RunDestroy, CallDestroy, Goto, SetCall
  <2> HIDE DEF d
  <2>3. call'[t].op = "destroy" /\ \A u \in Threads \ {t} : call'[u] = call[u]
    BY <1>2, <2>1, <2>2
  <2>4. /\ run'.at = "destroying" /\ run'.by = t /\ run'.plan = run.plan
        /\ run'.fork = run.fork /\ run'.r = run.r
    BY <2>2, AtIs
  <2>5. ResultOK'
    BY <2>2, <2>4, ResultKept DEF RunOK
  <2>6. ~run.fork
    BY <2>2 DEF RunOK
  <2>7. ~run'.fork
    BY <2>4, <2>6
  <2>8. QED
    BY <2>2, <2>3, <2>4, <2>5, <2>7 DEF RunOK, Busy
<1>6. QED
  BY <1>3, <1>4, <1>5

\* The call of the run takes a step, or something happens around it.
LEMMA AroundRun ==
    ASSUME TypeInv, TruthInv, RunType, run # NoRun, RunOK, [Next]_vars,
           Around \/ UNCHANGED runVars
    PROVE  RunOK'
<1>1. run' = run /\ run.by \in Threads
  BY RunsAre DEF Around, runVars
<1>2. run.at \in {"destroy", "destroying", "returned"} => ResultOK'
  BY <1>1, ResultKept DEF RunOK
<1>3. CASE UNCHANGED call
  BY <1>1, <1>2, <1>3 DEF RunOK, Busy
<1>4. ASSUME NEW t \in Threads, Step(t) \/ BrokenOff(t)
      PROVE  RunOK'
  <2>1. Busy(t) /\ KeptBy(t)
    BY <1>4, StepKeeps
  <2>2. t = run.by /\ run.at \in {"stopping", "destroying"}
    BY <2>1 DEF RunOK
  <2>3. /\ call'[t].op = call[t].op /\ call'[t].plan = call[t].plan
        /\ \A u \in Threads \ {t} : call'[u] = call[u]
    BY <2>1 DEF KeptBy, Kept, TypeInv, TypeOK
  <2>4. QED
    BY <1>1, <1>2, <2>2, <2>3 DEF RunOK, Busy
<1>5. CASE Environment
  <2>1. UNCHANGED call
    BY <1>5 DEF Environment, ChildExits, ChildSignalled, ChildEnds, ForkedChildReturns,
       ChildClosesExit, ChildForks, DescendantExits, PidReused, DeadlineExpires
  <2>2. QED
    BY <1>3, <2>1
<1>6. CASE UNCHANGED runVars
  BY <1>3, <1>6 DEF runVars, vars
<1>7. QED
  BY <1>4, <1>5, <1>6 DEF Around

\* There is a run from the beginning, or there never is.
LEMMA RunStays ==
    ASSUME RunType, [RunNext]_runVars
    PROVE  run = NoRun <=> run' = NoRun
<1>1. CASE UNCHANGED run
  BY <1>1
<1>2. ASSUME run # NoRun, NEW s \in Statements, NEW r, At(s, r)
      PROVE  run' # NoRun
  BY <1>2, NoRunIs, AtIs
<1>3. /\ "drain" \in Statements /\ "stop" \in Statements /\ "stopping" \in Statements
      /\ "destroy" \in Statements /\ "destroying" \in Statements /\ "returned" \in Statements
  BY DEF Statements
<1>4. CASE RunStep \/ DrainBreaksOff
  <2>1. run.at # "none"
    BY <1>4 DEF RunStep, RunRefused, RunStart, DrainEnds, DrainBreaksOff, RunStop, RunStopped,
       RunDestroy, RunReturn
  <2>2. run # NoRun
    BY <2>1, NoRunIs
  <2>3. \E s \in Statements : \E r : At(s, r)
    BY <1>3, <1>4 DEF RunStep, RunRefused, RunStart, DrainEnds, DrainBreaksOff, RunStop,
       RunStopped, RunDestroy, RunReturn, Continue, AfterFailure
  <2>4. QED
    BY <1>2, <2>2, <2>3
<1>5. QED
  BY <1>1, <1>4 DEF RunNext, Around, runVars

LEMMA RunInvariant == RunSpec => []RunInv
<1>1. ASSUME TypeInv, TruthInv, StopInv, RunType, RunType', RunInv, [RunNext]_runVars
      PROVE  RunInv'
  <2>1. [Next]_vars
    BY <1>1, RunVars
  <2>2. CASE run = NoRun
    BY <1>1, <2>2, RunStays DEF RunInv
  <2>3. CASE run # NoRun
    BY <1>1, <2>1, <2>3, StatementRun, CallRun, AroundRun DEF RunInv, RunNext, RunStep
  <2>4. QED
    BY <2>2, <2>3
<1>2. ASSUME RunInit
      PROVE  RunInv
  <2>1. RunType /\ (run # NoRun => run.at = "start" /\ run.by \in Threads)
    BY <1>2 DEF RunInit, RunType, Statements
  <2>2. NoCall.op = "none" /\ NoCall.pc = "idle"
    BY DEF NoCall
  <2>3. \A u \in Threads : call[u].op = "none" /\ ~Busy(u)
    BY <1>2, <2>2 DEF RunInit, Init, Busy
  <2>4. QED
    BY <2>1, <2>3 DEF RunInv, RunOK
<1>3. QED
  BY <1>1, <1>2, RunCalls, TypeInvariant, TruthInvariant, StopInvariant, PTL DEF RunSpec
-----------------------------------------------------------------------------
(* The end of the run. *)

RunDestroyInv == run # NoRun => DestroyInv /\ KillInv

\* The run starts its handle before it destroys it.
LEMMA RunStartsApart ==
    ASSUME TypeInv, RunType, run # NoRun, RunOK, RunOK', run'.by = run.by
    PROVE  NoStartInDestroy
<1>1. ASSUME NEW t \in Threads, StartParent(t)
      PROVE  t = run.by /\ ~Busy(t)
  <2>1. PICK r : call' = [call EXCEPT ![t] = [NoCall EXCEPT !.op = "start", !.ret = r]]
    BY <1>1 DEF StartParent, StartReturns, SetCall
  <2> DEFINE d == [NoCall EXCEPT !.op = "start", !.ret = r]
  <2>2. d.op = "start"
    BY DEF NoCall
  <2>3. call' = [call EXCEPT ![t] = d]
    BY <2>1
  <2> HIDE DEF d
  <2>4. call'[t].op = "start"
    BY <2>2, <2>3 DEF TypeInv, TypeOK
  <2>5. QED
    BY <1>1, <2>4 DEF RunOK, StartParent, MayCall
<1>2. QED
  BY <1>1 DEF NoStartInDestroy, RunOK

LEMMA RunByIs ==
    ASSUME RunType, run # NoRun, [RunNext]_runVars
    PROVE  run'.by = run.by
<1>1. CASE RunStep \/ DrainBreaksOff
  <2>1. \E s, r : At(s, r)
    BY <1>1 DEF RunStep, RunRefused, RunStart, DrainEnds, DrainBreaksOff, RunStop,
       RunStopped, RunDestroy, RunReturn, Continue
  <2>2. QED
    BY <2>1, AtIs
<1>2. QED
  BY <1>1 DEF RunNext, Around, runVars

\* Behind a run that has returned there is no handle, and no child either that is
\* not dying of SIGKILL, unless a signal handler broke off the last wait.  A result
\* that is not negative is the exit status (0 also where the stop actions end with a
\* NOOP), whichever of start, drain and stop has failed.
THEOREM RunIsTrue == RunSpec => []RunTrue
<1>1. ASSUME TypeInv, TruthInv, StopInv, ProcessInv, RunInv, RunInv', RunDestroyInv,
             [RunNext]_runVars
      PROVE  RunDestroyInv'
  <2>1. CASE run = NoRun
    BY <1>1, <2>1, RunStays DEF RunInv, RunDestroyInv
  <2>2. CASE run # NoRun
    <3>1. run' # NoRun /\ run'.by = run.by /\ [Next]_vars
      BY <1>1, <2>2, RunStays, RunByIs, RunVars DEF RunInv
    <3>2. NoStartInDestroy
      BY <1>1, <2>2, <3>1, RunStartsApart DEF RunInv
    <3>3. QED
      BY <1>1, <2>2, <3>1, <3>2, DestroyNext, KillNext DEF RunDestroyInv
  <2>3. QED
    BY <2>1, <2>2
<1>2. RunInit => RunDestroyInv
  BY InitDestroy, InitKill DEF RunInit, RunDestroyInv
<1>3. RunSpec => []RunDestroyInv
  BY <1>1, <1>2, RunCalls, RunInvariant, TypeInvariant, TruthInvariant, StopInvariant,
     ProcessInvariant, PTL DEF RunSpec
<1>4. TypeInv /\ RunInv /\ RunDestroyInv => RunTrue
  <2>1. ASSUME TypeInv, RunInv, RunDestroyInv, run.at = "returned", ~run.fork
        PROVE  RunTrue
    <3> DEFINE c == call[run.by]
    <3>1. run # NoRun /\ RunOK /\ DestroyInv /\ KillInv /\ run.by \in Threads
      BY <2>1, NoRunIs, RunsAre DEF RunInv, RunDestroyInv, Statements
    <3>2. c.op = "destroy" /\ c.pc = "idle" /\ ResultOK
      BY <2>1, <3>1 DEF RunOK, Busy
    <3>3. DestroyOK(c, child, freed) /\ KillOK(c, Doomed) /\ ~Stopping(c)
      BY <3>1, <3>2 DEF DestroyInv, KillInv, Stopping
    <3>4. freed /\ (c.ret \notin {EINTR, ETIMEDOUT} => child \in {"none", "reaped"})
      BY <3>2, <3>3 DEF DestroyOK, Reaped
    <3>5. c.ret = ETIMEDOUT => Doomed
      BY <3>2, <3>3, DestroyPlanIs DEF DestroyOK, KillOK, HasKill
    <3>6. QED
      BY <3>2, <3>4, <3>5 DEF RunTrue, ResultOK
  <2>2. QED
    BY <2>1 DEF RunTrue
<1>5. QED
  BY <1>3, <1>4, RunInvariant, RunCalls, TypeInvariant, PTL
=============================================================================
