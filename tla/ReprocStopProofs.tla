-------------------------- MODULE ReprocStopProofs --------------------------
(***************************************************************************)
(* The loop of reproc_stop, as reproc_stop and reproc_destroy run it, and  *)
(* what follows from it: results of reproc_stop, patience of a wait for    *)
(* the deadline, the end of the child in reproc_destroy, and that the      *)
(* handle implements ReprocContract.                                       *)
(***************************************************************************)
EXTENDS ReprocHandleProofs, ReprocRefinement

\* The wait that only a deadline ends.
Patient(a) == a = [action |-> "wait", timeout |-> "deadline"]

\* A call in the loop.
Stopping(c) == c.op \in {"stop", "destroy"} /\ c.pc \notin {"idle", "release"}

\* What a call in the loop knows, with status st and deadline dl: c.i is the stop
\* action it is at, or the next one at "next".
LoopOK(c, st, dl) ==
    Stopping(c) =>
        /\ st \notin {STATUS_NOT_STARTED, STATUS_IN_CHILD}
        /\ c.pc # "next" => c.plan[c.i].action # "noop"
        /\ c.pc \in {"signal", "kill"} => c.plan[c.i].action # "wait"
        /\ c.pc = "wait" => c.timeout = c.plan[c.i].timeout
        /\ c.pc = "next" /\ c.i = 4 =>
             c.ret = (IF c.plan[3].action = "noop" THEN 0 ELSE ETIMEDOUT)
        /\ c.i > 1 /\ Patient(c.plan[c.i - 1]) => dl = "expired"
        /\ c.pc = "poll" /\ Patient(c.plan[c.i]) =>
             c.timeout \in {"infinite", "remaining"} \/ dl = "expired"

\* What a call of reproc_stop has returned.
EndOK(c, st) ==
    c.op = "stop" /\ c.pc = "idle" =>
        /\ c.ret >= 0 => st = c.ret \/ (c.ret = 0 /\ c.plan[3].action = "noop")
        /\ c.ret = ETIMEDOUT => c.plan[3].action # "noop"

StopInv == \A t \in Threads : LoopOK(call[t], status, deadline) /\ EndOK(call[t], status)
-----------------------------------------------------------------------------
(* Where a call goes from one statement of the loop. *)

LEMMA NotStopping ==
    ASSUME NEW c, NEW st, NEW dl, c.op \notin {"stop", "destroy"}
    PROVE  LoopOK(c, st, dl) /\ EndOK(c, st)
BY DEF LoopOK, EndOK, Stopping

LEMMA StopEndsOK ==
    ASSUME NEW c \in CallRecord, NEW r \in Results, NEW st, NEW dl,
           c.op \in {"stop", "destroy"},
           r >= 0 => st = r \/ (r = 0 /\ c.plan[3].action = "noop"),
           r = ETIMEDOUT => c.plan[3].action # "noop"
    PROVE  LoopOK(StopEnds(c, r), st, dl) /\ EndOK(StopEnds(c, r), st)
<1> DEFINE d == StopEnds(c, r)
<1>1. d.op = c.op /\ d.ret = r /\ d.pc = IF c.op = "destroy" THEN "release" ELSE "idle"
  BY StopEndsIs
<1>2. c.op = "stop" => d.plan = c.plan
  BY ReturnedIs DEF StopEnds
<1> HIDE DEF d
<1>3. LoopOK(d, st, dl) /\ EndOK(d, st)
  BY <1>1, <1>2 DEF LoopOK, EndOK, Stopping
<1>4. QED
  BY <1>3 DEF d

LEMMA AfterWaitLoop ==
    ASSUME NEW c \in CallRecord, NEW r \in Results, NEW st, NEW dl,
           c.op \in Waiters, c.i # 4,
           Stopping(c) => c.plan[c.i].action # "noop",
           c.pc \notin {"idle", "release"},
           r = ETIMEDOUT => st \notin {STATUS_NOT_STARTED, STATUS_IN_CHILD},
           r = ETIMEDOUT /\ Stopping(c) /\ Patient(c.plan[c.i]) => dl = "expired",
           r >= 0 => st = r
    PROVE  LoopOK(AfterWait(c, r), st, dl) /\ EndOK(AfterWait(c, r), st)
<1> DEFINE d == AfterWait(c, r)
<1>1. CASE c.op = "wait"
  <2>1. d.op = "wait"
    BY <1>1, AfterWaitIs
  <2> HIDE DEF d
  <2>2. LoopOK(d, st, dl) /\ EndOK(d, st)
    BY <2>1, NotStopping
  <2>3. QED
    BY <2>2 DEF d
<1>2. CASE c.op # "wait" /\ r # ETIMEDOUT
  BY <1>2, StopEndsOK DEF AfterWait, Waiters
<1>3. CASE c.op # "wait" /\ r = ETIMEDOUT
  <2>1. c.i \in 1..3 /\ Stopping(c) /\ c.plan \in [1..3 -> StopAction]
    BY <1>3 DEF CallRecord, Stopping, Waiters
  <2>2. d = [c EXCEPT !.pc = "next", !.i = c.i + 1, !.ret = r]
    BY <1>3 DEF AfterWait
  <2>3. d.pc = "next" /\ d.i = c.i + 1 /\ d.ret = ETIMEDOUT /\ d.op = c.op /\ d.plan = c.plan
    BY <1>3, <2>2 DEF CallRecord
  <2> HIDE DEF d
  <2>4. d.i = 4 => d.plan[3].action # "noop"
    BY <2>1, <2>3
  <2>5. d.i - 1 = c.i
    BY <2>1, <2>3
  <2>6. LoopOK(d, st, dl) /\ EndOK(d, st)
    BY <1>3, <2>1, <2>3, <2>4, <2>5 DEF LoopOK, EndOK
  <2>7. QED
    BY <2>6 DEF d
<1>4. QED
  BY <1>1, <1>2, <1>3

LEMMA AfterSignalLoop ==
    ASSUME NEW c \in CallRecord, NEW r \in Results, NEW st, NEW dl,
           c.op \in Signallers, c.i # 4, c.pc \in {"signal", "kill"},
           LoopOK(c, st, dl), r = 0 \/ (r < 0 /\ r # ETIMEDOUT)
    PROVE  LoopOK(AfterSignal(c, r), st, dl) /\ EndOK(AfterSignal(c, r), st)
<1> DEFINE d == AfterSignal(c, r)
<1>1. CASE c.op \in {"terminate", "kill"}
  <2>1. d.op = c.op
    BY AfterSignalIs
  <2> HIDE DEF d
  <2>2. LoopOK(d, st, dl) /\ EndOK(d, st)
    BY <1>1, <2>1, NotStopping
  <2>3. QED
    BY <2>2 DEF d
<1>2. CASE c.op \notin {"terminate", "kill"} /\ r # 0
  <2>1. r < 0 /\ ~(r >= 0) /\ r # ETIMEDOUT
    BY <1>2, ResultsAre
  <2>2. AfterSignal(c, r) = StopEnds(c, r) /\ c.op \in {"stop", "destroy"}
    BY <1>2, <2>1 DEF AfterSignal, Signallers
  <2>3. QED
    BY <2>1, <2>2, StopEndsOK
<1>3. CASE c.op \notin {"terminate", "kill"} /\ r = 0
  <2>1. d = [c EXCEPT !.pc = "wait", !.timeout = c.plan[c.i].timeout]
    BY <1>3 DEF AfterSignal
  <2>2. /\ d.op = c.op /\ d.pc = "wait" /\ d.i = c.i /\ d.plan = c.plan
        /\ d.timeout = c.plan[c.i].timeout
    BY <2>1 DEF CallRecord
  <2>3. Stopping(c)
    BY <1>3 DEF Stopping, Signallers
  <2> HIDE DEF d
  <2>4. LoopOK(d, st, dl) /\ EndOK(d, st)
    BY <2>2, <2>3 DEF LoopOK, EndOK
  <2>5. QED
    BY <2>4 DEF d
<1>4. QED
  BY <1>1, <1>2, <1>3
-----------------------------------------------------------------------------
(* The status and the deadline while a call is in the loop. *)

Steady ==
    /\ status >= 0 => status' = status
    /\ status \notin {STATUS_NOT_STARTED, STATUS_IN_CHILD} =>
         /\ status' \notin {STATUS_NOT_STARTED, STATUS_IN_CHILD}
         /\ deadline = "expired" => deadline' = "expired"

LEMMA NextSteady ==
    ASSUME TypeInv, TruthInv, [Next]_vars
    PROVE  Steady
<1>1. CASE UNCHANGED <<status, deadline>>
  BY <1>1 DEF Steady
<1>2. ASSUME NEW t \in Threads, StartParent(t) \/ StartInChild(t)
      PROVE  Steady
  BY <1>2 DEF StartParent, StartInChild, Startable, Steady, STATUS_NOT_STARTED
<1>3. ASSUME NEW t \in Threads, WaitAssigns(t)
      PROVE  Steady
  <2>1. status' = code /\ code \in 0..255 /\ deadline' = deadline
    BY <1>3 DEF WaitAssigns, TruthInv, TrueRet, TypeInv, TypeOK
  <2>2. QED
    BY <2>1 DEF Steady, TruthInv, STATUS_NOT_STARTED, STATUS_IN_CHILD
<1>4. CASE DeadlineExpires
  BY <1>4 DEF DeadlineExpires, Steady
<1>5. ASSUME NEW t \in Threads, Begin(t), ~StartParent(t), ~StartInChild(t)
      PROVE  UNCHANGED <<status, deadline>>
  BY <1>5 DEF Begin, StartError, CallWait, CallSignal, CallStop, CallPoll, CallDestroy,
     Goto, handleVars
<1>6. ASSUME NEW t \in Threads, Step(t) \/ BrokenOff(t), ~WaitAssigns(t)
      PROVE  UNCHANGED <<status, deadline>>
  BY <1>6 DEF Step, BrokenOff, WaitEnter, WaitHangUp, WaitTimesOut, WaitReaps, WaitNoChild,
     WaitInterrupted, WaitClosesExit, SignalEnter, SendSignal, StopLoop, DestroyReleases,
     PollExit, PollTimesOut, PollInterrupted, PollReturns, Goto, handleVars
<1>7. ASSUME Environment, ~DeadlineExpires
      PROVE  UNCHANGED <<status, deadline>>
  BY <1>7 DEF Environment, ChildExits, ChildSignalled, ChildEnds, ForkedChildReturns,
     ChildClosesExit, ChildForks, DescendantExits, PidReused, handleVars
<1>8. CASE UNCHANGED vars
  BY <1>1, <1>8 DEF vars, handleVars
<1>9. QED
  BY <1>1, <1>2, <1>3, <1>4, <1>5, <1>6, <1>7, <1>8 DEF Next

\* A step of thread t.
LEMMA StopStep ==
    ASSUME TypeInv, StopInv, Steady, NEW t \in Threads, NEW d,
           call' = [call EXCEPT ![t] = d], LoopOK(d, status', deadline'), EndOK(d, status')
    PROVE  StopInv'
<1>1. call'[t] = d /\ \A u \in Threads \ {t} : call'[u] = call[u]
  BY DEF TypeInv, TypeOK
<1>2. ASSUME NEW u \in Threads \ {t}
      PROVE  LoopOK(call[u], status', deadline') /\ EndOK(call[u], status')
  BY DEF StopInv, LoopOK, EndOK, Steady
<1>3. QED
  BY <1>1, <1>2 DEF StopInv

\* In particular one that changes nothing but the call.
LEMMA StopGoto ==
    ASSUME TypeInv, StopInv, NEW t \in Threads, NEW d, Goto(t, d),
           LoopOK(d, status, deadline), EndOK(d, status)
    PROVE  StopInv'
<1>1. UNCHANGED <<status, deadline>> /\ call' = [call EXCEPT ![t] = d]
  BY DEF Goto, SetCall, handleVars
<1>2. Steady
  BY <1>1 DEF Steady
<1>3. QED
  BY <1>1, <1>2, StopStep

LEMMA BeginStop ==
    ASSUME TypeInv, TruthInv, StopInv, Steady, NEW t \in Threads, Begin(t)
    PROVE  StopInv'
<1>1. ASSUME NEW d, Goto(t, d), d.op \notin {"stop", "destroy"}
      PROVE  StopInv'
  BY <1>1, NotStopping, StopGoto
<1>2. CASE StartError(t)
  <2>1. PICK r : Goto(t, [NoCall EXCEPT !.op = "start", !.ret = r])
    BY <1>2 DEF StartError, StartReturns, Goto
  <2> DEFINE d == [NoCall EXCEPT !.op = "start", !.ret = r]
  <2>2. d.op = "start"
    BY DEF NoCall
  <2>3. QED
    BY <1>1, <2>1, <2>2
<1>3. CASE StartParent(t) \/ StartInChild(t)
  <2>1. PICK r : call' = [call EXCEPT ![t] = [NoCall EXCEPT !.op = "start", !.ret = r]]
    BY <1>3 DEF StartParent, StartInChild, StartReturns, SetCall
  <2> DEFINE d == [NoCall EXCEPT !.op = "start", !.ret = r]
  <2>2. d.op = "start"
    BY DEF NoCall
  <2>3. QED
    <3> HIDE DEF d
    <3>1. call' = [call EXCEPT ![t] = d]
      BY <2>1 DEF d
    <3>2. LoopOK(d, status', deadline') /\ EndOK(d, status')
      BY <2>2 DEF LoopOK, EndOK, Stopping
    <3>3. QED
      BY <3>1, <3>2, StopStep
<1>4. ASSUME NEW timeout, CallWait(t, timeout)
      PROVE  StopInv'
  <2> DEFINE d == [NoCall EXCEPT !.op = "wait", !.pc = "wait", !.timeout = timeout]
  <2>1. d.op = "wait"
    BY DEF NoCall
  <2>2. QED
    BY <1>1, <1>4, <2>1 DEF CallWait
<1>5. ASSUME NEW op \in {"terminate", "kill"}, CallSignal(t, op)
      PROVE  StopInv'
  <2> DEFINE d == [NoCall EXCEPT !.op = op, !.pc = "signal"]
  <2>1. d.op \notin {"stop", "destroy"}
    BY DEF NoCall
  <2>2. QED
    BY <1>1, <1>5, <2>1 DEF CallSignal
<1>6. ASSUME NEW timeout, CallPoll(t, timeout)
      PROVE  StopInv'
  <2> DEFINE c == [NoCall EXCEPT !.op = "poll"]
             d(first) == IF first = "deadline" THEN [c EXCEPT !.ret = 1, !.event = "deadline"]
                         ELSE IF NoValidPipe THEN [c EXCEPT !.ret = EPIPE]
                         ELSE [c EXCEPT !.pc = "polling", !.timeout = first]
  <2>1. PICK first : Goto(t, d(first))
    BY <1>6 DEF CallPoll
  <2>2. d(first).op = "poll"
    BY DEF NoCall
  <2>3. QED
    <3> HIDE DEF d
    <3>1. QED
      BY <1>1, <2>1, <2>2
<1>7. ASSUME NEW plan \in Plans, CallStop(t, plan)
      PROVE  StopInv'
  <2> DEFINE c == [NoCall EXCEPT !.op = "stop", !.plan = ParseStopActions(plan)]
             d1 == Returned(c, EINVAL)
             d2 == [c EXCEPT !.pc = "next"]
  <2>1. /\ d1.pc = "idle" /\ d1.op = "stop" /\ d1.ret = EINVAL
        /\ d2.pc = "next" /\ d2.op = "stop" /\ d2.i = 1
    BY DEF NoCall, Returned
  <2>2. IF NotStarted THEN Goto(t, d1) ELSE Goto(t, d2)
    BY <1>7 DEF CallStop
  <2>3. QED
    <3> HIDE DEF d1, d2
    <3>1. CASE NotStarted
      <4>1. EndOK(d1, status) /\ LoopOK(d1, status, deadline)
        BY <2>1 DEF EndOK, LoopOK, Stopping, EINVAL, ETIMEDOUT
      <4>2. QED
        BY <2>2, <3>1, <4>1, StopGoto
    <3>2. CASE ~NotStarted
      <4>1. EndOK(d2, status) /\ LoopOK(d2, status, deadline)
        BY <2>1, <3>2 DEF EndOK, LoopOK, Stopping, NotStarted
      <4>2. QED
        BY <2>2, <3>2, <4>1, StopGoto
    <3>3. QED
      BY <3>1, <3>2
<1>8. CASE CallDestroy(t)
  <2> DEFINE d1 == [NoCall EXCEPT !.op = "destroy", !.pc = "next",
                                  !.plan = ParseStopActions(DestroyPlan)]
             d2 == [NoCall EXCEPT !.op = "destroy", !.pc = "release"]
  <2>1. /\ d1.pc = "next" /\ d1.op = "destroy" /\ d1.i = 1
        /\ d2.pc = "release" /\ d2.op = "destroy"
    BY DEF NoCall
  <2>2. IF status = STATUS_IN_PROGRESS THEN Goto(t, d1) ELSE Goto(t, d2)
    BY <1>8 DEF CallDestroy
  <2>3. QED
    <3> HIDE DEF d1, d2
    <3>1. CASE status = STATUS_IN_PROGRESS
      <4>1. EndOK(d1, status) /\ LoopOK(d1, status, deadline)
        BY <2>1, <3>1 DEF EndOK, LoopOK, Stopping,
           STATUS_NOT_STARTED, STATUS_IN_PROGRESS, STATUS_IN_CHILD
      <4>2. QED
        BY <2>2, <3>1, <4>1, StopGoto
    <3>2. CASE status # STATUS_IN_PROGRESS
      <4>1. EndOK(d2, status) /\ LoopOK(d2, status, deadline)
        BY <2>1 DEF EndOK, LoopOK, Stopping
      <4>2. QED
        BY <2>2, <3>2, <4>1, StopGoto
    <3>3. QED
      BY <3>1, <3>2
<1>9. QED
  BY <1>2, <1>3, <1>4, <1>5, <1>6, <1>7, <1>8 DEF Begin

\* The status and the deadline, as reproc_wait finds them.
LEMMA WaitStop ==
    ASSUME TypeInv, TruthInv, StopInv, Steady, NEW t \in Threads,
           \/ WaitEnter(t) \/ WaitHangUp(t) \/ WaitTimesOut(t) \/ WaitNoChild(t)
           \/ WaitInterrupted(t) \/ WaitReaps(t) \/ WaitClosesExit(t) \/ WaitAssigns(t)
    PROVE  StopInv'
<1> DEFINE c == call[t]
<1>1. /\ c \in CallRecord /\ c.i \in 1..3 /\ c.i # 4 /\ c.ret \in Results
      /\ c.plan \in [1..3 -> StopAction] /\ OpAt(c) /\ TrueRet(c)
      /\ LoopOK(c, status, deadline)
      /\ c.pc \in {"wait", "poll", "waitpid", "close", "assign"}
  BY CallsAre DEF TruthInv, StopInv, WaitEnter, WaitHangUp, WaitTimesOut, WaitNoChild,
     WaitInterrupted, WaitReaps, WaitClosesExit, WaitAssigns
<1>2. c.op \in Waiters
  BY <1>1 DEF OpAt
<1>3. Stopping(c) =>
        /\ c.plan[c.i].action # "noop"
        /\ status \notin {STATUS_NOT_STARTED, STATUS_IN_CHILD}
  BY <1>1 DEF LoopOK
<1>4. ASSUME NEW r \in Results, Goto(t, AfterWait(c, r)), r # ETIMEDOUT, r >= 0 => status = r
      PROVE  StopInv'
  <2> HIDE DEF c
  <2>1. LoopOK(AfterWait(c, r), status, deadline) /\ EndOK(AfterWait(c, r), status)
    BY <1>1, <1>2, <1>3, <1>4, AfterWaitLoop
  <2>2. QED
    BY <1>4, <2>1, StopGoto
\* A step inside reproc_wait.
<1>5. ASSUME NEW d, call' = [call EXCEPT ![t] = d], UNCHANGED <<status, deadline>>,
             d.op = c.op, d.plan = c.plan, d.i = c.i,
             d.pc \in {"poll", "waitpid", "close", "assign"},
             d.pc = "poll" /\ Stopping(c) /\ Patient(c.plan[c.i]) =>
               d.timeout \in {"infinite", "remaining"} \/ deadline = "expired"
      PROVE  StopInv'
  <2>1. LoopOK(d, status, deadline) /\ EndOK(d, status)
    BY <1>1, <1>5 DEF LoopOK, EndOK, Stopping
  <2>2. QED
    BY <1>5, <2>1, StopStep
<1>6. CASE WaitEnter(t)
  <2>1. CASE NotStarted /\ Goto(t, AfterWait(c, EINVAL))
    <3>1. EINVAL \in Results /\ EINVAL # ETIMEDOUT /\ ~(EINVAL >= 0)
      BY ResultsAre DEF EINVAL, ETIMEDOUT
    <3>2. QED
      BY <1>4, <2>1, <3>1
  <2>2. CASE Exited /\ Goto(t, AfterWait(c, status))
    <3>1. status \in 0..255 /\ status # ETIMEDOUT
      BY <2>2 DEF Exited, TypeInv, TypeOK, STATUS_NOT_STARTED, STATUS_IN_PROGRESS,
         STATUS_IN_CHILD, ETIMEDOUT
    <3>2. status \in Results
      BY <3>1, ResultsAre
    <3>3. QED
      BY <1>4, <2>2, <3>1, <3>2
  <2>3. ASSUME NEW timeout \in WaitTimeouts(c.timeout), c.pc = "wait",
               Goto(t, [c EXCEPT !.pc = "poll", !.timeout = timeout])
        PROVE  StopInv'
    <3> DEFINE d == [c EXCEPT !.pc = "poll", !.timeout = timeout]
    <3>1. d.op = c.op /\ d.plan = c.plan /\ d.i = c.i /\ d.pc = "poll" /\ d.timeout = timeout
      BY <1>1 DEF CallRecord
    <3>2. ASSUME Stopping(c), Patient(c.plan[c.i])
          PROVE  timeout \in {"infinite", "remaining"} \/ deadline = "expired"
      <4>1. c.timeout = "deadline"
        BY <1>1, <2>3, <3>2 DEF LoopOK, Patient
      <4>2. QED
        BY <2>3, <4>1 DEF WaitTimeouts, Expiry
    <3>3. call' = [call EXCEPT ![t] = d] /\ UNCHANGED <<status, deadline>>
      BY <2>3 DEF Goto, SetCall, handleVars
    <3>4. QED
      <4> HIDE DEF d
      <4>1. QED
        BY <1>5, <3>1, <3>2, <3>3
  <2>4. QED
    BY <1>6, <2>1, <2>2, <2>3 DEF WaitEnter
<1>7. CASE WaitTimesOut(t)
  <2>1. ASSUME Stopping(c), Patient(c.plan[c.i])
        PROVE  deadline = "expired"
    BY <1>1, <1>7, <2>1 DEF WaitTimesOut, LoopOK, Fires
  <2>2. LoopOK(AfterWait(c, ETIMEDOUT), status, deadline) /\ EndOK(AfterWait(c, ETIMEDOUT), status)
    <3>1. ETIMEDOUT \in Results /\ ~(ETIMEDOUT >= 0)
      BY ResultsAre DEF ETIMEDOUT
    <3>2. CASE c.op = "wait"
      <4> DEFINE d == AfterWait(c, ETIMEDOUT)
      <4>1. d.op = "wait"
        BY <1>1, <3>1, <3>2, AfterWaitIs
      <4>2. QED
        <5> HIDE DEF d
        <5>1. LoopOK(d, status, deadline) /\ EndOK(d, status)
          BY <4>1, NotStopping
        <5>2. QED
          BY <5>1 DEF d
    <3>3. CASE c.op # "wait"
      <4>1. Stopping(c)
        BY <1>1, <1>2, <3>3 DEF Stopping, Waiters
      <4> HIDE DEF c
      <4>2. QED
        BY <1>1, <1>2, <1>3, <2>1, <3>1, <4>1, AfterWaitLoop
    <3>4. QED
      BY <3>2, <3>3
  <2>3. QED
    BY <1>7, <2>2, StopGoto DEF WaitTimesOut
<1>8. CASE WaitNoChild(t) \/ WaitInterrupted(t)
  <2>1. PICK r \in {ECHILD, EINTR} : Goto(t, AfterWait(c, r))
    BY <1>8 DEF WaitNoChild, WaitInterrupted
  <2>2. r \in Results /\ r # ETIMEDOUT /\ ~(r >= 0)
    BY ResultsAre DEF ETIMEDOUT, ECHILD, EINTR
  <2>3. QED
    BY <1>4, <2>1, <2>2
<1>9. CASE WaitHangUp(t) \/ WaitReaps(t) \/ WaitClosesExit(t)
  <2> DEFINE d == IF c.pc = "poll" THEN [c EXCEPT !.pc = "waitpid", !.timeout = "zero"]
                  ELSE IF c.pc = "waitpid" THEN [c EXCEPT !.pc = "close", !.ret = code]
                  ELSE [c EXCEPT !.pc = "assign"]
  <2>1. /\ call' = [call EXCEPT ![t] = d] /\ UNCHANGED <<status, deadline>>
        /\ c.pc \in {"poll", "waitpid", "close"}
    BY <1>9 DEF WaitHangUp, WaitReaps, WaitClosesExit, Goto, SetCall, handleVars
  <2>2. d.op = c.op /\ d.plan = c.plan /\ d.i = c.i /\ d.pc \in {"waitpid", "close", "assign"}
    BY <1>1, <2>1 DEF CallRecord
  <2>3. QED
    <3> HIDE DEF d
    <3>1. QED
      BY <1>5, <2>1, <2>2
<1>10. CASE WaitAssigns(t)
  <2> DEFINE d == AfterWait(c, c.ret)
  <2>1. /\ call' = [call EXCEPT ![t] = d] /\ status' = c.ret /\ c.ret \in 0..255
        /\ deadline' = deadline
    BY <1>10, CallsAre DEF WaitAssigns, SetCall, GoodCalls
  <2>2. c.ret # ETIMEDOUT
    BY <2>1 DEF ETIMEDOUT
  <2>3. LoopOK(d, status', deadline') /\ EndOK(d, status')
    <3> HIDE DEF c
    <3>1. QED
      BY <1>1, <1>2, <1>3, <2>1, <2>2, AfterWaitLoop
  <2>4. QED
    <3> HIDE DEF d
    <3>1. QED
      BY <2>1, <2>3, StopStep
<1>11. QED
  BY <1>6, <1>7, <1>8, <1>9, <1>10

LEMMA SignalStop ==
    ASSUME TypeInv, TruthInv, StopInv, Steady, NEW t \in Threads,
           SignalEnter(t) \/ SendSignal(t)
    PROVE  StopInv'
<1> DEFINE c == call[t]
<1>1. /\ c \in CallRecord /\ c.i # 4 /\ c.op \in Signallers /\ c.pc \in {"signal", "kill"}
      /\ LoopOK(c, status, deadline)
  BY CallsAre DEF TruthInv, OpAt, StopInv, SignalEnter, SendSignal
<1>2. UNCHANGED <<status, deadline>>
  BY DEF SignalEnter, SendSignal, Goto, handleVars
<1>3. ASSUME NEW r \in {EINVAL, ESRCH, 0}, call' = [call EXCEPT ![t] = AfterSignal(c, r)]
      PROVE  StopInv'
  <2>1. r \in Results /\ (r = 0 \/ (r < 0 /\ r # ETIMEDOUT))
    BY ResultsAre DEF EINVAL, ESRCH, ETIMEDOUT
  <2>2. LoopOK(AfterSignal(c, r), status, deadline) /\ EndOK(AfterSignal(c, r), status)
    <3> HIDE DEF c
    <3>1. QED
      BY <1>1, <2>1, AfterSignalLoop
  <2>3. QED
    BY <1>2, <1>3, <2>2, StopStep
<1>4. CASE call' = [call EXCEPT ![t] = [c EXCEPT !.pc = "kill"]]
  <2> DEFINE d == [c EXCEPT !.pc = "kill"]
  <2>1. d.op = c.op /\ d.pc = "kill" /\ d.i = c.i /\ d.plan = c.plan
    BY <1>1 DEF CallRecord
  <2>2. call' = [call EXCEPT ![t] = d]
    BY <1>4
  <2>3. QED
    <3> HIDE DEF d
    <3>1. LoopOK(d, status', deadline') /\ EndOK(d, status')
      BY <1>1, <1>2, <2>1 DEF LoopOK, EndOK, Stopping
    <3>2. QED
      BY <2>2, <3>1, StopStep
<1>5. CASE SignalEnter(t)
  BY <1>3, <1>4, <1>5 DEF SignalEnter, Goto, SetCall
<1>6. CASE SendSignal(t)
  BY <1>3, <1>6 DEF SendSignal, SetCall
<1>7. QED
  BY <1>5, <1>6

\* The loop itself, the end of reproc_destroy, and reproc_poll.
LEMMA StopLoopStop ==
    ASSUME TypeInv, TruthInv, StopInv, Steady, NEW t \in Threads,
           \/ StopLoop(t) \/ DestroyReleases(t)
           \/ PollExit(t) \/ PollTimesOut(t) \/ PollInterrupted(t)
    PROVE  StopInv'
<1> DEFINE c == call[t]
<1>1. /\ c \in CallRecord /\ c.ret \in Results /\ OpAt(c) /\ c.i \in 1..4
      /\ c.plan \in [1..3 -> StopAction] /\ LoopOK(c, status, deadline)
  BY CallsAre DEF TruthInv, StopInv
<1>2. CASE StopLoop(t)
  <2>1. c.pc = "next" /\ c.op \in {"stop", "destroy"} /\ Stopping(c)
    BY <1>1, <1>2 DEF StopLoop, OpAt, Stopping
  <2>2. CASE c.i = 4 /\ Goto(t, StopEnds(c, c.ret))
    <3>1. c.ret = (IF c.plan[3].action = "noop" THEN 0 ELSE ETIMEDOUT)
      BY <1>1, <2>1, <2>2 DEF LoopOK
    <3>2. LoopOK(StopEnds(c, c.ret), status, deadline) /\ EndOK(StopEnds(c, c.ret), status)
      <4> HIDE DEF c
      <4>1. QED
        BY <1>1, <2>1, <3>1, StopEndsOK DEF ETIMEDOUT
    <3>3. QED
      BY <2>2, <3>2, StopGoto
  <2>3. CASE c.i # 4 /\ c.plan[c.i].action = "noop" /\ Goto(t, [c EXCEPT !.i = c.i + 1, !.ret = 0])
    <3> DEFINE d == [c EXCEPT !.i = c.i + 1, !.ret = 0]
    <3>1. /\ d.op = c.op /\ d.pc = "next" /\ d.i = c.i + 1 /\ d.plan = c.plan /\ d.ret = 0
          /\ Goto(t, d)
      BY <1>1, <2>1, <2>3 DEF CallRecord
    <3>2. ~Patient(c.plan[c.i])
      BY <2>3 DEF Patient
    <3> HIDE DEF d
    <3>3. d.i - 1 = c.i /\ (d.i = 4 => c.i = 3)
      BY <1>1, <3>1
    <3>4. LoopOK(d, status, deadline) /\ EndOK(d, status)
      BY <1>1, <2>1, <2>3, <3>1, <3>2, <3>3 DEF LoopOK, EndOK
    <3>5. QED
      BY <3>1, <3>4, StopGoto
  <2>4. CASE /\ c.i # 4 /\ c.plan[c.i].action = "wait"
             /\ Goto(t, [c EXCEPT !.pc = "wait", !.timeout = c.plan[c.i].timeout])
    <3> DEFINE d == [c EXCEPT !.pc = "wait", !.timeout = c.plan[c.i].timeout]
    <3>1. /\ d.op = c.op /\ d.pc = "wait" /\ d.i = c.i /\ d.plan = c.plan
          /\ d.timeout = c.plan[c.i].timeout /\ Goto(t, d)
      BY <1>1, <2>4 DEF CallRecord
    <3> HIDE DEF d
    <3>2. LoopOK(d, status, deadline) /\ EndOK(d, status)
      BY <1>1, <2>1, <2>4, <3>1 DEF LoopOK, EndOK
    <3>3. QED
      BY <3>1, <3>2, StopGoto
  <2>5. CASE /\ c.i # 4 /\ c.plan[c.i].action \notin {"noop", "wait"}
             /\ Goto(t, [c EXCEPT !.pc = "signal"])
    <3> DEFINE d == [c EXCEPT !.pc = "signal"]
    <3>1. d.op = c.op /\ d.pc = "signal" /\ d.i = c.i /\ d.plan = c.plan /\ Goto(t, d)
      BY <1>1, <2>5 DEF CallRecord
    <3> HIDE DEF d
    <3>2. LoopOK(d, status, deadline) /\ EndOK(d, status)
      BY <1>1, <2>1, <2>5, <3>1 DEF LoopOK, EndOK
    <3>3. QED
      BY <3>1, <3>2, StopGoto
  <2>6. QED
    BY <1>1, <1>2, <2>2, <2>3, <2>4, <2>5 DEF StopLoop
<1>3. CASE DestroyReleases(t)
  <2> DEFINE d == Returned(c, c.ret)
  <2>1. c.op = "destroy"
    BY <1>1, <1>3 DEF OpAt, DestroyReleases
  <2>2. d.op = "destroy" /\ d.pc = "idle"
    <3> HIDE DEF c
    <3>1. QED
      BY <1>1, <2>1, ReturnedIs
  <2>3. call' = [call EXCEPT ![t] = d]
    BY <1>3 DEF DestroyReleases, SetCall
  <2>4. QED
    <3> HIDE DEF d
    <3>1. LoopOK(d, status', deadline') /\ EndOK(d, status')
      BY <2>2 DEF LoopOK, EndOK, Stopping
    <3>2. QED
      BY <2>3, <3>1, StopStep
<1>4. CASE PollExit(t) \/ PollTimesOut(t) \/ PollInterrupted(t)
  <2>1. PICK r, event : c.pc = "polling" /\ PollReturns(t, r, event)
    BY <1>4 DEF PollExit, PollTimesOut, PollInterrupted
  <2> DEFINE e == Returned(c, r)
             d == [e EXCEPT !.event = event]
  <2>2. c.op = "poll"
    BY <1>1, <2>1 DEF OpAt
  <2>3. d.op = "poll"
    BY <1>1, <2>2 DEF Returned, CallRecord
  <2>4. Goto(t, d)
    BY <2>1 DEF PollReturns
  <2>5. QED
    <3> HIDE DEF d
    <3>1. QED
      BY <2>3, <2>4, NotStopping, StopGoto
<1>5. QED
  BY <1>2, <1>3, <1>4

LEMMA StopNext ==
    ASSUME TypeInv, TruthInv, StopInv, [Next]_vars
    PROVE  StopInv'
<1>1. Steady
  BY NextSteady
<1>2. ASSUME NEW t \in Threads, Step(t) \/ BrokenOff(t)
      PROVE  StopInv'
  BY <1>1, <1>2, WaitStop, SignalStop, StopLoopStop DEF Step, BrokenOff
<1>3. ASSUME UNCHANGED call
      PROVE  StopInv'
  BY <1>1, <1>3 DEF StopInv, Steady, LoopOK, EndOK
<1>4. CASE Environment
  <2>1. UNCHANGED call
    BY <1>4 DEF Environment, ChildExits, ChildSignalled, ChildEnds, ForkedChildReturns,
       ChildClosesExit, ChildForks, DescendantExits, PidReused, DeadlineExpires
  <2>2. QED
    BY <1>3, <2>1
<1>5. CASE UNCHANGED vars
  BY <1>3, <1>5 DEF vars
<1>6. QED
  BY <1>1, <1>2, <1>4, <1>5, BeginStop DEF Next

LEMMA InitStop == Init => StopInv
<1>1. NoCall.op = "none"
  BY DEF NoCall
<1>2. ASSUME Init, NEW t \in Threads
      PROVE  call[t].op = "none"
  BY <1>1, <1>2 DEF Init
<1>3. QED
  BY <1>2, NotStopping DEF StopInv

LEMMA StopInvariant == Spec => []StopInv
<1>1. TypeInv /\ TruthInv /\ StopInv /\ [Next]_vars => StopInv'
  BY StopNext
<1>2. QED
  BY <1>1, InitStop, TypeInvariant, TruthInvariant, PTL DEF Spec

\* reproc_stop carries out the stop action after a wait for REPROC_DEADLINE only
\* when the deadline has expired, whoever else calls the library.
THEOREM StopIsPatient == Spec => []DeadlineWaitIsPatient
<1>1. StopInv => DeadlineWaitIsPatient
  BY DEF StopInv, LoopOK, Stopping, Patient, DeadlineWaitIsPatient
<1>2. QED
  BY <1>1, StopInvariant, PTL
-----------------------------------------------------------------------------
(***************************************************************************)
(* The child, its pid and both ends of the exit pipe, for any callers.     *)
(***************************************************************************)

ProcessInv ==
    /\ child \in {"running", "zombie"} => pid = "child"
    /\ child # "running" => "child" \notin writers
    /\ "leavesDescendant" \notin Traits => "descendant" \notin writers
    /\ ~ForkMode /\ "closesExit" \notin Traits /\ child = "running" => "child" \in writers
    /\ child = "none" => ~exitPipe /\ pid = "free"

LEMMA InitProcess == Init => ProcessInv
BY DEF Init, ProcessInv

LEMMA ProcessNext ==
    ASSUME TypeInv, TruthInv, ProcessInv, [Next]_vars
    PROVE  ProcessInv'
<1>1. CASE UNCHANGED <<child, pid, writers>> /\ exitPipe' \in {exitPipe, FALSE}
  <2>1. CASE exitPipe' = exitPipe
    BY <1>1, <2>1 DEF ProcessInv
  <2>2. CASE exitPipe' = FALSE
    BY <1>1, <2>2 DEF ProcessInv
  <2>3. QED
    BY <1>1, <2>1, <2>2
<1>2. ASSUME NEW t \in Threads, StartParent(t)
      PROVE  ProcessInv'
  BY <1>2 DEF StartParent, ProcessInv, ExitWriters
<1>3. ASSUME NEW t \in Threads, Begin(t), ~StartParent(t)
      PROVE  UNCHANGED <<child, pid, writers, exitPipe>>
  BY <1>3 DEF Begin, StartError, StartInChild, CallWait, CallSignal, CallStop, CallPoll,
     CallDestroy, Goto, childVars, handleVars
<1>4. ASSUME NEW t \in Threads, WaitReaps(t)
      PROVE  ProcessInv'
  BY <1>4 DEF WaitReaps, ProcessInv, handleVars
<1>5. ASSUME NEW t \in Threads, SendSignal(t)
      PROVE  ProcessInv'
  BY <1>5 DEF SendSignal, ProcessInv, handleVars
<1>6. ASSUME NEW t \in Threads, Step(t) \/ BrokenOff(t), ~WaitReaps(t), ~SendSignal(t)
      PROVE  UNCHANGED <<child, pid, writers>> /\ exitPipe' \in {exitPipe, FALSE}
  BY <1>6 DEF Step, BrokenOff, WaitEnter, WaitHangUp, WaitTimesOut, WaitNoChild,
     WaitInterrupted, WaitClosesExit, WaitAssigns, SignalEnter, StopLoop, DestroyReleases,
     PollExit, PollTimesOut, PollInterrupted, PollReturns, Goto, childVars, handleVars
<1>7. CASE Environment
  BY <1>7 DEF Environment, ChildExits, ChildSignalled, ChildEnds, ForkedChildReturns,
     ChildClosesExit, ChildForks, DescendantExits, PidReused, DeadlineExpires, childVars,
     handleVars, ProcessInv
<1>8. CASE UNCHANGED vars
  BY <1>1, <1>8 DEF vars, childVars, handleVars
<1>9. QED
  BY <1>1, <1>2, <1>3, <1>4, <1>5, <1>6, <1>7, <1>8 DEF Next

LEMMA ProcessInvariant == Spec => []ProcessInv
<1>1. TypeInv /\ TruthInv /\ ProcessInv /\ [Next]_vars => ProcessInv'
  BY ProcessNext
<1>2. QED
  BY <1>1, InitProcess, TypeInvariant, TruthInvariant, PTL DEF Spec
-----------------------------------------------------------------------------
(***************************************************************************)
(* What a kill among the stop actions is worth: when the loop has gone past *)
(* it, the child is over or has SIGKILL coming.                            *)
(***************************************************************************)

\* The loop has gone past a kill.
KillBehind(c) ==
    \E k \in 1..3 : /\ k < c.i \/ (k = c.i /\ c.pc \notin {"next", "signal", "kill"})
                   /\ c.plan[k].action = "kill"

HasKill(c) == \E k \in 1..3 : c.plan[k].action = "kill"

\* A call with the child doomed or not (dm): in the loop, or at its end, where a
\* timeout says that all stop actions have been carried out.
KillOK(c, dm) ==
    c.op \in {"stop", "destroy"} =>
        /\ Stopping(c) /\ KillBehind(c) => dm
        /\ ~Stopping(c) /\ c.ret = ETIMEDOUT /\ HasKill(c) => dm

KillInv == \A t \in Threads : KillOK(call[t], Doomed)

\* Nothing takes a signal back.
LEMMA DoomedStays ==
    ASSUME TypeInv, TruthInv, ProcessInv, [Next]_vars
    PROVE  Doomed => Doomed'
<1>1. CASE UNCHANGED <<child, signals>>
  BY <1>1 DEF Doomed
<1>2. ASSUME NEW t \in Threads, StartParent(t)
      PROVE  Doomed => Doomed'
  BY <1>2 DEF StartParent, Startable, TruthInv, Doomed
<1>3. ASSUME NEW t \in Threads, Begin(t), ~StartParent(t)
      PROVE  UNCHANGED <<child, signals>>
  BY <1>3 DEF Begin, StartError, StartInChild, CallWait, CallSignal, CallStop, CallPoll,
     CallDestroy, Goto, childVars
<1>4. ASSUME NEW t \in Threads, WaitReaps(t) \/ SendSignal(t)
      PROVE  Doomed => Doomed'
  BY <1>4 DEF WaitReaps, SendSignal, Doomed
<1>5. ASSUME NEW t \in Threads, Step(t) \/ BrokenOff(t), ~WaitReaps(t), ~SendSignal(t)
      PROVE  UNCHANGED <<child, signals>>
  BY <1>5 DEF Step, BrokenOff, WaitEnter, WaitHangUp, WaitTimesOut, WaitNoChild,
     WaitInterrupted, WaitClosesExit, WaitAssigns, SignalEnter, StopLoop, DestroyReleases,
     PollExit, PollTimesOut, PollInterrupted, PollReturns, Goto, childVars
<1>6. CASE Environment
  BY <1>6 DEF Environment, ChildExits, ChildSignalled, ChildEnds, ForkedChildReturns,
     ChildClosesExit, ChildForks, DescendantExits, PidReused, DeadlineExpires, childVars, Doomed
<1>7. CASE UNCHANGED vars
  BY <1>1, <1>7 DEF vars, childVars
<1>8. QED
  BY <1>1, <1>2, <1>3, <1>4, <1>5, <1>6, <1>7 DEF Next

LEMMA KillStep ==
    ASSUME TypeInv, KillInv, Doomed => Doomed', NEW t \in Threads, NEW d,
           call' = [call EXCEPT ![t] = d], KillOK(d, Doomed')
    PROVE  KillInv'
<1>1. call'[t] = d /\ \A u \in Threads \ {t} : call'[u] = call[u]
  BY DEF TypeInv, TypeOK
<1>2. \A u \in Threads \ {t} : KillOK(call[u], Doomed')
  BY DEF KillInv, KillOK
<1>3. QED
  BY <1>1, <1>2 DEF KillInv

\* A call that begins has sent nothing yet.
LEMMA BeginKill ==
    ASSUME TypeInv, KillInv, Doomed => Doomed', NEW t \in Threads, Begin(t)
    PROVE  KillInv'
<1> DEFINE Fresh(d) == \/ d.op \notin {"stop", "destroy"}
                       \/ d.pc = "next" /\ d.i = 1
                       \/ d.pc \in {"idle", "release"} /\ d.ret # ETIMEDOUT
<1>1. ASSUME NEW d, call' = [call EXCEPT ![t] = d], Fresh(d)
      PROVE  KillInv'
  <2>1. KillOK(d, Doomed')
    BY <1>1 DEF KillOK, Stopping, KillBehind
  <2>2. QED
    BY <1>1, <2>1, KillStep
<1>2. CASE StartError(t) \/ StartParent(t) \/ StartInChild(t)
  <2>1. PICK r : call' = [call EXCEPT ![t] = [NoCall EXCEPT !.op = "start", !.ret = r]]
    BY <1>2 DEF StartError, StartParent, StartInChild, StartReturns, SetCall
  <2> DEFINE d == [NoCall EXCEPT !.op = "start", !.ret = r]
  <2>2. Fresh(d)
    BY DEF NoCall
  <2> HIDE DEF Fresh
  <2>3. QED
    BY <1>1, <2>1, <2>2
<1>3. ASSUME NEW timeout, CallWait(t, timeout)
      PROVE  KillInv'
  <2> DEFINE d == [NoCall EXCEPT !.op = "wait", !.pc = "wait", !.timeout = timeout]
  <2>1. Fresh(d)
    BY DEF NoCall
  <2> HIDE DEF Fresh
  <2>2. QED
    BY <1>1, <1>3, <2>1 DEF CallWait, Goto, SetCall
<1>4. ASSUME NEW op \in {"terminate", "kill"}, CallSignal(t, op)
      PROVE  KillInv'
  <2> DEFINE d == [NoCall EXCEPT !.op = op, !.pc = "signal"]
  <2>1. Fresh(d)
    BY DEF NoCall
  <2> HIDE DEF Fresh
  <2>2. QED
    BY <1>1, <1>4, <2>1 DEF CallSignal, Goto, SetCall
<1>5. ASSUME NEW timeout, CallPoll(t, timeout)
      PROVE  KillInv'
  <2> DEFINE c == [NoCall EXCEPT !.op = "poll"]
             d(first) == IF first = "deadline" THEN [c EXCEPT !.ret = 1, !.event = "deadline"]
                         ELSE IF NoValidPipe THEN [c EXCEPT !.ret = EPIPE]
                         ELSE [c EXCEPT !.pc = "polling", !.timeout = first]
  <2>1. PICK first : Goto(t, d(first))
    BY <1>5 DEF CallPoll
  <2>2. Fresh(d(first))
    BY DEF NoCall
  <2> HIDE DEF d, Fresh
  <2>3. QED
    BY <1>1, <2>1, <2>2 DEF Goto, SetCall
<1>6. ASSUME NEW plan, CallStop(t, plan)
      PROVE  KillInv'
  <2> DEFINE c == [NoCall EXCEPT !.op = "stop", !.plan = ParseStopActions(plan)]
             d == IF NotStarted THEN Returned(c, EINVAL) ELSE [c EXCEPT !.pc = "next"]
  <2>1. Goto(t, d)
    BY <1>6 DEF CallStop
  <2>2. Fresh(d)
    BY DEF NoCall, Returned, EINVAL, ETIMEDOUT
  <2> HIDE DEF d, Fresh
  <2>3. QED
    BY <1>1, <2>1, <2>2 DEF Goto, SetCall
<1>7. CASE CallDestroy(t)
  <2> DEFINE d == IF status = STATUS_IN_PROGRESS
                  THEN [NoCall EXCEPT !.op = "destroy", !.pc = "next",
                                      !.plan = ParseStopActions(DestroyPlan)]
                  ELSE [NoCall EXCEPT !.op = "destroy", !.pc = "release"]
  <2>1. Goto(t, d)
    BY <1>7 DEF CallDestroy
  <2>2. Fresh(d)
    BY DEF NoCall, ETIMEDOUT
  <2> HIDE DEF d, Fresh
  <2>3. QED
    BY <1>1, <2>1, <2>2 DEF Goto, SetCall
<1>8. QED
  BY <1>2, <1>3, <1>4, <1>5, <1>6, <1>7 DEF Begin

\* What stays of a call, from one statement to the next: all calls keep the
\* operation and the plan, and the event until they return.
Kept(c, d) == d.op = c.op /\ d.plan = c.plan /\ (d.pc # "idle" => d.event = c.event)

LEMMA KeptAre ==
    ASSUME NEW c \in CallRecord, NEW r
    PROVE  /\ Kept(c, Returned(c, r)) /\ Kept(c, StopEnds(c, r))
           /\ Kept(c, AfterWait(c, r)) /\ Kept(c, AfterSignal(c, r))
<1>1. Kept(c, Returned(c, r))
  BY DEF Kept, Returned, CallRecord
<1>2. Kept(c, StopEnds(c, r))
  BY <1>1 DEF Kept, StopEnds, CallRecord
<1>3. Kept(c, AfterWait(c, r))
  BY <1>1, <1>2 DEF Kept, AfterWait, CallRecord
<1>4. Kept(c, AfterSignal(c, r))
  BY <1>1, <1>2 DEF Kept, AfterSignal, CallRecord
<1>5. QED
  BY <1>1, <1>2, <1>3, <1>4

KeptBy(t) == Kept(call[t], call'[t]) /\ call' = [call EXCEPT ![t] = call'[t]]

LEMMA StepKeeps ==
    ASSUME TypeInv, NEW t \in Threads, Step(t) \/ BrokenOff(t)
    PROVE  Busy(t) /\ KeptBy(t)
<1> DEFINE c == call[t]
<1>1. c \in CallRecord /\ call \in [Threads -> CallRecord]
  BY CallsAre DEF TypeInv, TypeOK
<1>2. ASSUME NEW d, call' = [call EXCEPT ![t] = d], Kept(c, d)
      PROVE  KeptBy(t)
  BY <1>1, <1>2 DEF KeptBy
<1>3. Busy(t)
  BY DEF Step, BrokenOff, Busy, WaitEnter, WaitHangUp, WaitTimesOut, WaitReaps, WaitNoChild,
     WaitClosesExit, WaitAssigns, SignalEnter, SendSignal, StopLoop, DestroyReleases,
     PollExit, PollTimesOut, WaitInterrupted, PollInterrupted
<1>4. ASSUME NEW r, \/ call' = [call EXCEPT ![t] = AfterWait(c, r)]
                    \/ call' = [call EXCEPT ![t] = AfterSignal(c, r)]
                    \/ call' = [call EXCEPT ![t] = StopEnds(c, r)]
                    \/ call' = [call EXCEPT ![t] = Returned(c, r)]
      PROVE  KeptBy(t)
  <2> HIDE DEF c
  <2>1. /\ Kept(c, AfterWait(c, r)) /\ Kept(c, AfterSignal(c, r))
        /\ Kept(c, StopEnds(c, r)) /\ Kept(c, Returned(c, r))
    BY <1>1, KeptAre
  <2>2. QED
    BY <1>2, <1>4, <2>1
<1>5. CASE WaitEnter(t)
  <2> DEFINE d(timeout) == [c EXCEPT !.pc = "poll", !.timeout = timeout]
  <2>1. \A timeout : Kept(c, d(timeout))
    BY <1>1 DEF Kept, CallRecord
  <2>2. \/ \E r : call' = [call EXCEPT ![t] = AfterWait(c, r)]
        \/ \E timeout : call' = [call EXCEPT ![t] = d(timeout)]
    BY <1>5 DEF WaitEnter, Goto, SetCall
  <2>3. QED
    <3> HIDE DEF d
    <3>1. QED
      BY <1>2, <1>3, <1>4, <2>1, <2>2
<1>6. CASE WaitTimesOut(t) \/ WaitNoChild(t) \/ WaitAssigns(t) \/ WaitInterrupted(t)
  BY <1>3, <1>4, <1>6 DEF WaitTimesOut, WaitNoChild, WaitAssigns, WaitInterrupted, Goto, SetCall
<1>7. CASE WaitHangUp(t) \/ WaitReaps(t) \/ WaitClosesExit(t)
  <2> DEFINE d1 == [c EXCEPT !.pc = "waitpid", !.timeout = "zero"]
             d2 == [c EXCEPT !.pc = "close", !.ret = code]
             d3 == [c EXCEPT !.pc = "assign"]
  <2>1. Kept(c, d1) /\ Kept(c, d2) /\ Kept(c, d3)
    BY <1>1 DEF Kept, CallRecord
  <2>2. \E d \in {d1, d2, d3} : call' = [call EXCEPT ![t] = d]
    BY <1>7 DEF WaitHangUp, WaitReaps, WaitClosesExit, Goto, SetCall
  <2>3. QED
    <3> HIDE DEF d1, d2, d3
    <3>1. QED
      BY <1>2, <1>3, <2>1, <2>2
<1>8. CASE SignalEnter(t)
  <2> DEFINE d == [c EXCEPT !.pc = "kill"]
  <2>1. Kept(c, d)
    BY <1>1 DEF Kept, CallRecord
  <2>2. \/ \E r : call' = [call EXCEPT ![t] = AfterSignal(c, r)]
        \/ call' = [call EXCEPT ![t] = d]
    BY <1>8 DEF SignalEnter, Goto, SetCall
  <2>3. QED
    <3> HIDE DEF d
    <3>1. QED
      BY <1>2, <1>3, <1>4, <2>1, <2>2
<1>9. CASE SendSignal(t) \/ DestroyReleases(t)
  BY <1>3, <1>4, <1>9 DEF SendSignal, DestroyReleases, SetCall
<1>10. CASE StopLoop(t)
  <2> DEFINE d1 == [c EXCEPT !.i = c.i + 1, !.ret = 0]
             d2 == [c EXCEPT !.pc = "wait", !.timeout = c.plan[c.i].timeout]
             d3 == [c EXCEPT !.pc = "signal"]
  <2>1. Kept(c, d1) /\ Kept(c, d2) /\ Kept(c, d3)
    BY <1>1 DEF Kept, CallRecord
  <2>2. \/ call' = [call EXCEPT ![t] = StopEnds(c, c.ret)]
        \/ \E d \in {d1, d2, d3} : call' = [call EXCEPT ![t] = d]
    BY <1>10 DEF StopLoop, Goto, SetCall
  <2>3. QED
    <3> HIDE DEF d1, d2, d3
    <3>1. QED
      BY <1>2, <1>3, <1>4, <2>1, <2>2
<1>11. CASE PollExit(t) \/ PollTimesOut(t) \/ PollInterrupted(t)
  <2> DEFINE d(r, event) == [Returned(c, r) EXCEPT !.event = event]
  <2>1. PICK r, event : call' = [call EXCEPT ![t] = d(r, event)]
    BY <1>11 DEF PollExit, PollTimesOut, PollInterrupted, PollReturns, Goto, SetCall
  <2>2. Kept(c, d(r, event))
    BY <1>1 DEF Kept, Returned, CallRecord
  <2>3. QED
    <3> HIDE DEF d
    <3>1. QED
      BY <1>2, <1>3, <2>1, <2>2
<1>12. QED
  BY <1>3, <1>5, <1>6, <1>7, <1>8, <1>9, <1>10, <1>11 DEF Step, BrokenOff

\* Where the statements of the loop lead: what is behind the call then was behind
\* it before, is no kill, or has doomed the child.
LEMMA WaitKill ==
    ASSUME TypeInv, TruthInv, KillInv, NEW t \in Threads,
           \/ WaitEnter(t) \/ WaitHangUp(t) \/ WaitTimesOut(t) \/ WaitNoChild(t)
           \/ WaitInterrupted(t) \/ WaitReaps(t) \/ WaitClosesExit(t) \/ WaitAssigns(t)
    PROVE  \E d : call' = [call EXCEPT ![t] = d] /\ KillOK(d, Doomed)
<1> DEFINE c == call[t]
<1>1. /\ c \in CallRecord /\ c.i \in 1..3 /\ c.i # 4 /\ c.plan \in [1..3 -> StopAction]
      /\ OpAt(c) /\ KillOK(c, Doomed) /\ c.ret \in Results
      /\ c.pc \in {"wait", "poll", "waitpid", "close", "assign"}
  BY CallsAre DEF TruthInv, KillInv, WaitEnter, WaitHangUp, WaitTimesOut, WaitNoChild,
     WaitInterrupted, WaitReaps, WaitClosesExit, WaitAssigns
<1>2. c.op \in {"stop", "destroy"} => Stopping(c)
  BY <1>1 DEF Stopping
\* The call goes on with result r of reproc_wait.
<1>3. ASSUME NEW r
      PROVE  KillOK(AfterWait(c, r), Doomed)
  <2> DEFINE d == AfterWait(c, r)
  <2>1. Kept(c, d)
    <3> HIDE DEF c
    <3>1. QED
      BY <1>1, KeptAre
  <2>2. CASE c.op \notin {"stop", "destroy"}
    <3> HIDE DEF c, d
    <3>1. KillOK(d, Doomed)
      BY <2>1, <2>2 DEF Kept, KillOK
    <3>2. QED
      BY <3>1 DEF d
  <2>3. CASE c.op \in {"stop", "destroy"} /\ r = ETIMEDOUT
    <3>1. d.pc = "next" /\ d.i = c.i + 1
      BY <1>1, <2>3 DEF AfterWait, CallRecord
    <3> HIDE DEF c, d
    <3>2. Stopping(d) /\ (KillBehind(d) => KillBehind(c))
      BY <1>1, <2>1, <2>3, <3>1 DEF Stopping, KillBehind, Kept
    <3>3. KillOK(d, Doomed)
      BY <1>1, <1>2, <2>3, <3>2 DEF KillOK
    <3>4. QED
      BY <3>3 DEF d
  <2>4. CASE c.op \in {"stop", "destroy"} /\ r # ETIMEDOUT
    <3>1. d.pc \in {"idle", "release"} /\ d.ret = r
      BY <1>1, <2>4 DEF AfterWait, StopEnds, Returned, CallRecord
    <3> HIDE DEF c, d
    <3>2. KillOK(d, Doomed)
      BY <2>4, <3>1 DEF KillOK, Stopping
    <3>3. QED
      BY <3>2 DEF d
  <2>5. QED
    BY <2>2, <2>3, <2>4
\* A step inside reproc_wait.
<1>4. ASSUME NEW d, d.op = c.op, d.plan = c.plan, d.i = c.i,
             d.pc \in {"poll", "waitpid", "close", "assign"}
      PROVE  KillOK(d, Doomed)
  BY <1>1, <1>2, <1>4 DEF KillOK, Stopping, KillBehind
<1>5. CASE WaitEnter(t)
  <2> DEFINE d(timeout) == [c EXCEPT !.pc = "poll", !.timeout = timeout]
  <2>1. \A timeout : /\ d(timeout).op = c.op /\ d(timeout).plan = c.plan
                     /\ d(timeout).i = c.i /\ d(timeout).pc = "poll"
    BY <1>1 DEF CallRecord
  <2>2. \/ \E r : call' = [call EXCEPT ![t] = AfterWait(c, r)]
        \/ \E timeout : call' = [call EXCEPT ![t] = d(timeout)]
    BY <1>5 DEF WaitEnter, Goto, SetCall
  <2> HIDE DEF d
  <2>3. QED
    BY <1>3, <1>4, <2>1, <2>2
<1>6. CASE WaitTimesOut(t) \/ WaitNoChild(t) \/ WaitInterrupted(t) \/ WaitAssigns(t)
  <2>1. \E r : call' = [call EXCEPT ![t] = AfterWait(c, r)]
    BY <1>6 DEF WaitTimesOut, WaitNoChild, WaitInterrupted, WaitAssigns, Goto, SetCall
  <2>2. QED
    BY <1>3, <2>1
<1>7. CASE WaitHangUp(t) \/ WaitReaps(t) \/ WaitClosesExit(t)
  <2> DEFINE d1 == [c EXCEPT !.pc = "waitpid", !.timeout = "zero"]
             d2 == [c EXCEPT !.pc = "close", !.ret = code]
             d3 == [c EXCEPT !.pc = "assign"]
  <2>1. \A d \in {d1, d2, d3} : /\ d.op = c.op /\ d.plan = c.plan /\ d.i = c.i
                                /\ d.pc \in {"poll", "waitpid", "close", "assign"}
    BY <1>1 DEF CallRecord
  <2>2. \E d \in {d1, d2, d3} : call' = [call EXCEPT ![t] = d]
    BY <1>7 DEF WaitHangUp, WaitReaps, WaitClosesExit, Goto, SetCall
  <2> HIDE DEF d1, d2, d3
  <2>3. QED
    BY <1>4, <2>1, <2>2
<1>8. QED
  BY <1>5, <1>6, <1>7

LEMMA SignalKill ==
    ASSUME TypeInv, TruthInv, ProcessInv, KillInv, Doomed => Doomed', NEW t \in Threads,
           SignalEnter(t) \/ SendSignal(t)
    PROVE  \E d : call' = [call EXCEPT ![t] = d] /\ KillOK(d, Doomed')
<1> DEFINE c == call[t]
<1>1. /\ c \in CallRecord /\ c.i \in 1..3 /\ c.i # 4 /\ c.plan \in [1..3 -> StopAction]
      /\ OpAt(c) /\ KillOK(c, Doomed) /\ c.pc \in {"signal", "kill"}
  BY CallsAre DEF TruthInv, KillInv, SignalEnter, SendSignal
\* The call goes on with result r of reproc_terminate or reproc_kill.
<1>2. ASSUME NEW r \in {EINVAL, ESRCH, 0},
             r = 0 /\ c.op \in {"stop", "destroy"} /\ c.plan[c.i].action = "kill" => Doomed'
      PROVE  KillOK(AfterSignal(c, r), Doomed')
  <2> DEFINE d == AfterSignal(c, r)
  <2>1. Kept(c, d)
    <3> HIDE DEF c
    <3>1. QED
      BY <1>1, KeptAre
  <2>2. CASE c.op \notin {"stop", "destroy"}
    <3> HIDE DEF c, d
    <3>1. KillOK(d, Doomed')
      BY <2>1, <2>2 DEF Kept, KillOK
    <3>2. QED
      BY <3>1 DEF d
  <2>3. CASE c.op \in {"stop", "destroy"} /\ r = 0
    <3>1. d.pc = "wait" /\ d.i = c.i
      BY <1>1, <2>3 DEF AfterSignal, CallRecord
    <3> HIDE DEF c, d
    <3>2. Stopping(c) /\ Stopping(d)
      BY <1>1, <2>1, <2>3, <3>1 DEF Stopping, Kept
    <3>3. KillBehind(d) => KillBehind(c) \/ c.plan[c.i].action = "kill"
      BY <1>1, <2>1, <3>1 DEF KillBehind, Kept
    <3>4. KillOK(d, Doomed')
      BY <1>1, <1>2, <2>3, <3>2, <3>3 DEF KillOK
    <3>5. QED
      BY <3>4 DEF d
  <2>4. CASE c.op \in {"stop", "destroy"} /\ r # 0
    <3>1. r < 0 /\ r # ETIMEDOUT
      BY <2>4 DEF EINVAL, ESRCH, ETIMEDOUT
    <3>2. d.pc \in {"idle", "release"} /\ d.ret = r
      BY <1>1, <2>4, <3>1 DEF AfterSignal, StopEnds, Returned, CallRecord
    <3> HIDE DEF c, d
    <3>3. KillOK(d, Doomed')
      BY <2>4, <3>1, <3>2 DEF KillOK, Stopping
    <3>4. QED
      BY <3>3 DEF d
  <2>5. QED
    BY <2>2, <2>3, <2>4
<1>3. CASE SignalEnter(t)
  <2> DEFINE d == [c EXCEPT !.pc = "kill"]
  <2>1. \/ NotStarted /\ call' = [call EXCEPT ![t] = AfterSignal(c, EINVAL)]
        \/ Exited /\ call' = [call EXCEPT ![t] = AfterSignal(c, 0)]
        \/ call' = [call EXCEPT ![t] = d]
    BY <1>3 DEF SignalEnter, Goto, SetCall
  <2>2. d.op = c.op /\ d.plan = c.plan /\ d.i = c.i /\ d.pc = "kill"
    BY <1>1 DEF CallRecord
  <2>3. KillOK(d, Doomed')
    <3> HIDE DEF d
    <3>1. QED
      BY <1>1, <2>2 DEF KillOK, Stopping, KillBehind
  <2>4. EINVAL # 0
    BY DEF EINVAL
  <2>5. Exited => Doomed
    BY DEF Exited, TruthInv, Doomed
  <2> HIDE DEF c, d
  <2>6. QED
    BY <1>2, <2>1, <2>3, <2>4, <2>5 DEF c
<1>4. CASE SendSignal(t)
  <2>1. CASE pid = "free"
    <3>1. call' = [call EXCEPT ![t] = AfterSignal(c, ESRCH)] /\ ESRCH # 0
      BY <1>4, <2>1 DEF SendSignal, SetCall, ESRCH
    <3> HIDE DEF c
    <3>2. QED
      BY <1>2, <3>1 DEF c
  <2>2. CASE pid # "free"
    <3>1. call' = [call EXCEPT ![t] = AfterSignal(c, 0)]
      BY <1>4, <2>2 DEF SendSignal, SetCall
    <3>2. SignalOf(c) = SIGKILL => Doomed'
      BY <1>4, <2>2 DEF SendSignal, ProcessInv, TypeInv, TypeOK, Doomed
    <3>3. c.op \in {"stop", "destroy"} /\ c.plan[c.i].action = "kill" => SignalOf(c) = SIGKILL
      BY DEF SignalOf
    <3> HIDE DEF c
    <3>4. QED
      BY <1>2, <3>1, <3>2, <3>3 DEF c
  <2>3. QED
    BY <2>1, <2>2
<1>5. QED
  BY <1>3, <1>4

LEMMA LoopKill ==
    ASSUME TypeInv, TruthInv, KillInv, NEW t \in Threads,
           \/ StopLoop(t) \/ DestroyReleases(t)
           \/ PollExit(t) \/ PollTimesOut(t) \/ PollInterrupted(t)
    PROVE  \E d : call' = [call EXCEPT ![t] = d] /\ KillOK(d, Doomed)
<1> DEFINE c == call[t]
<1>1. /\ c \in CallRecord /\ c.i \in 1..4 /\ c.plan \in [1..3 -> StopAction]
      /\ OpAt(c) /\ KillOK(c, Doomed) /\ c.ret \in Results
  BY CallsAre DEF TruthInv, KillInv
<1>2. CASE StopLoop(t)
  <2> DEFINE d1 == [c EXCEPT !.i = c.i + 1, !.ret = 0]
             d2 == [c EXCEPT !.pc = "wait", !.timeout = c.plan[c.i].timeout]
             d3 == [c EXCEPT !.pc = "signal"]
             d4 == StopEnds(c, c.ret)
  <2>1. c.pc = "next" /\ c.op \in {"stop", "destroy"} /\ Stopping(c)
    BY <1>1, <1>2 DEF StopLoop, OpAt, Stopping
  <2>2. /\ d1.op = c.op /\ d1.pc = "next" /\ d1.i = c.i + 1 /\ d1.plan = c.plan
        /\ d2.op = c.op /\ d2.pc = "wait" /\ d2.i = c.i /\ d2.plan = c.plan
        /\ d3.op = c.op /\ d3.pc = "signal" /\ d3.i = c.i /\ d3.plan = c.plan
        /\ d4.op = c.op /\ d4.ret = c.ret /\ d4.pc \in {"idle", "release"}
    BY <1>1, <2>1, StopEndsIs DEF CallRecord
  <2>3. Kept(c, d4)
    <3> HIDE DEF c
    <3>1. QED
      BY <1>1, KeptAre
  <2>4. \/ c.i = 4 /\ call' = [call EXCEPT ![t] = d4]
        \/ c.i \in 1..3 /\ c.plan[c.i].action = "noop" /\ call' = [call EXCEPT ![t] = d1]
        \/ c.i \in 1..3 /\ c.plan[c.i].action = "wait" /\ call' = [call EXCEPT ![t] = d2]
        \/ c.i \in 1..3 /\ call' = [call EXCEPT ![t] = d3]
    <3>1. \/ c.i > 3 /\ Goto(t, d4)
          \/ ~(c.i > 3) /\ c.plan[c.i].action = "noop" /\ Goto(t, d1)
          \/ ~(c.i > 3) /\ c.plan[c.i].action = "wait" /\ Goto(t, d2)
          \/ ~(c.i > 3) /\ Goto(t, d3)
      BY <1>2 DEF StopLoop
    <3>2. IF c.i > 3 THEN c.i = 4 ELSE c.i \in 1..3
      BY <1>1
    <3> HIDE DEF c, d1, d2, d3, d4
    <3>3. QED
      BY <3>1, <3>2 DEF Goto, SetCall
  <2> HIDE DEF c, d1, d2, d3, d4
  <2>5. c.i = 4 => KillOK(d4, Doomed)
    BY <1>1, <2>1, <2>2, <2>3 DEF KillOK, Stopping, KillBehind, HasKill, Kept
  <2>6. c.i \in 1..3 /\ c.plan[c.i].action = "noop" => KillOK(d1, Doomed)
    <3>1. ASSUME c.i \in 1..3, c.plan[c.i].action = "noop"
          PROVE  KillBehind(d1) => KillBehind(c)
      BY <2>1, <2>2, <3>1 DEF KillBehind
    <3>2. QED
      BY <1>1, <2>1, <2>2, <3>1 DEF KillOK, Stopping
  <2>7. c.i \in 1..3 /\ c.plan[c.i].action = "wait" => KillOK(d2, Doomed)
    <3>1. ASSUME c.i \in 1..3, c.plan[c.i].action = "wait"
          PROVE  KillBehind(d2) => KillBehind(c)
      BY <2>1, <2>2, <3>1 DEF KillBehind
    <3>2. QED
      BY <1>1, <2>1, <2>2, <3>1 DEF KillOK, Stopping
  <2>8. KillOK(d3, Doomed)
    BY <1>1, <2>1, <2>2 DEF KillOK, Stopping, KillBehind
  <2>9. QED
    BY <2>4, <2>5, <2>6, <2>7, <2>8
<1>3. CASE DestroyReleases(t)
  <2> DEFINE d == Returned(c, c.ret)
  <2>1. call' = [call EXCEPT ![t] = d] /\ c.pc = "release"
    BY <1>3 DEF DestroyReleases, SetCall
  <2>2. d.op = c.op /\ d.pc = "idle" /\ d.ret = c.ret /\ d.plan = c.plan
    <3> HIDE DEF c
    <3>1. QED
      BY <1>1, ReturnedIs
  <2> HIDE DEF c, d
  <2>3. KillOK(d, Doomed)
    BY <1>1, <2>1, <2>2 DEF KillOK, Stopping, HasKill
  <2>4. QED
    BY <2>1, <2>3
<1>4. CASE PollExit(t) \/ PollTimesOut(t) \/ PollInterrupted(t)
  <2> DEFINE d(r, event) == [Returned(c, r) EXCEPT !.event = event]
  <2>1. PICK r, event : call' = [call EXCEPT ![t] = d(r, event)] /\ c.pc = "polling"
    BY <1>4 DEF PollExit, PollTimesOut, PollInterrupted, PollReturns, Goto, SetCall
  <2>2. d(r, event).op = "poll"
    BY <1>1, <2>1 DEF OpAt, Returned, CallRecord
  <2> HIDE DEF c, d
  <2>3. KillOK(d(r, event), Doomed)
    BY <2>2 DEF KillOK
  <2>4. QED
    BY <2>1, <2>3
<1>5. QED
  BY <1>2, <1>3, <1>4

LEMMA KillNext ==
    ASSUME TypeInv, TruthInv, ProcessInv, KillInv, [Next]_vars
    PROVE  KillInv'
<1>1. Doomed => Doomed'
  BY DoomedStays
<1>2. ASSUME NEW t \in Threads, NEW d, call' = [call EXCEPT ![t] = d],
             KillOK(d, Doomed) \/ KillOK(d, Doomed')
      PROVE  KillInv'
  <2>1. KillOK(d, Doomed')
    BY <1>1, <1>2 DEF KillOK
  <2>2. QED
    BY <1>1, <1>2, <2>1, KillStep
<1>3. ASSUME NEW t \in Threads, Step(t) \/ BrokenOff(t)
      PROVE  KillInv'
  BY <1>1, <1>2, <1>3, WaitKill, SignalKill, LoopKill DEF Step, BrokenOff
<1>4. ASSUME UNCHANGED call
      PROVE  KillInv'
  BY <1>1, <1>4 DEF KillInv, KillOK
<1>5. CASE Environment
  BY <1>4, <1>5 DEF Environment, ChildExits, ChildSignalled, ChildEnds, ForkedChildReturns,
     ChildClosesExit, ChildForks, DescendantExits, PidReused, DeadlineExpires
<1>6. CASE UNCHANGED vars
  BY <1>4, <1>6 DEF vars
<1>7. QED
  BY <1>1, <1>3, <1>5, <1>6, BeginKill DEF Next

LEMMA InitKill == Init => KillInv
<1>1. NoCall.op = "none"
  BY DEF NoCall
<1>2. QED
  BY <1>1 DEF Init, KillInv, KillOK

LEMMA KillInvariant == Spec => []KillInv
<1>1. TypeInv /\ TruthInv /\ ProcessInv /\ KillInv /\ [Next]_vars => KillInv'
  BY KillNext
<1>2. QED
  BY <1>1, InitKill, TypeInvariant, TruthInvariant, ProcessInvariant, PTL DEF Spec

\* A result of reproc_stop that is not negative is the exit status, or 0 after a
\* trailing NOOP; a timeout leaves no child that a kill in the plan has not reached.
THEOREM StopResultTrue == Spec => []StopResult
<1>1. StopInv /\ KillInv => StopResult
  BY DEF StopInv, KillInv, EndOK, KillOK, Stopping, HasKill, StopResult, Last
<1>2. QED
  BY <1>1, StopInvariant, KillInvariant, PTL
-----------------------------------------------------------------------------
(***************************************************************************)
(* reproc_destroy, which ignores the result of reproc_stop: an error other *)
(* than EINTR and a timeout means that the child is gone, and a timeout    *)
(* that the whole plan, with its kill, has been carried out.               *)
(***************************************************************************)

Reaped == {"none", "reaped"}

DestroyOK(c, ch, fr) ==
    c.op = "destroy" =>
      IF Stopping(c)
      THEN c.plan = DestroyPlan
      ELSE /\ c.ret = ETIMEDOUT => c.plan = DestroyPlan
           /\ c.ret \notin {EINTR, ETIMEDOUT} => ch \in Reaped
           /\ c.pc = "idle" => fr

DestroyInv == \A t \in Threads : DestroyOK(call[t], child, freed)

\* A child that is gone stays gone, and the handle stays freed.
Fading ==
    /\ child \in Reaped => child' \in Reaped
    /\ freed => freed'

LEMMA DestroyPlanIs ==
    /\ ParseStopActions(DestroyPlan) = DestroyPlan
    /\ DestroyPlan[1].action = "wait"
    /\ DestroyPlan[2].action = "terminate"
    /\ DestroyPlan[3].action = "kill"
BY DEF ParseStopActions, DestroyPlan

LEMMA NextFading ==
    ASSUME TypeInv, TruthInv, [Next]_vars, \A t \in Threads : ~StartParent(t)
    PROVE  Fading
<1>1. CASE UNCHANGED <<child, freed>>
  BY <1>1 DEF Fading
<1>2. ASSUME NEW t \in Threads, Begin(t)
      PROVE  UNCHANGED <<child, freed>>
  BY <1>2 DEF Begin, StartError, StartInChild, CallWait, CallSignal, CallStop, CallPoll,
     CallDestroy, Goto, childVars, handleVars
<1>3. ASSUME NEW t \in Threads, WaitReaps(t) \/ SendSignal(t) \/ DestroyReleases(t)
      PROVE  Fading
  BY <1>3 DEF WaitReaps, SendSignal, DestroyReleases, Fading, Reaped, handleVars, childVars
<1>4. ASSUME NEW t \in Threads, Step(t) \/ BrokenOff(t),
             ~WaitReaps(t), ~SendSignal(t), ~DestroyReleases(t)
      PROVE  UNCHANGED <<child, freed>>
  BY <1>4 DEF Step, BrokenOff, WaitEnter, WaitHangUp, WaitTimesOut, WaitNoChild,
     WaitInterrupted, WaitClosesExit, WaitAssigns, SignalEnter, StopLoop,
     PollExit, PollTimesOut, PollInterrupted, PollReturns, Goto, childVars, handleVars
<1>5. CASE Environment
  BY <1>5 DEF Environment, ChildExits, ChildSignalled, ChildEnds, ForkedChildReturns,
     ChildClosesExit, ChildForks, DescendantExits, PidReused, DeadlineExpires,
     childVars, handleVars, Fading, Reaped
<1>6. CASE UNCHANGED vars
  BY <1>1, <1>6 DEF vars, childVars, handleVars
<1>7. QED
  BY <1>1, <1>2, <1>3, <1>4, <1>5, <1>6 DEF Next

LEMMA DestroyStep ==
    ASSUME TypeInv, DestroyInv, Fading, NEW t \in Threads, NEW d,
           call' = [call EXCEPT ![t] = d], DestroyOK(d, child', freed')
    PROVE  DestroyInv'
<1>1. call'[t] = d /\ \A u \in Threads \ {t} : call'[u] = call[u]
  BY DEF TypeInv, TypeOK
<1>2. \A u \in Threads \ {t} : DestroyOK(call[u], child', freed')
  BY DEF DestroyInv, DestroyOK, Fading
<1>3. QED
  BY <1>1, <1>2 DEF DestroyInv

LEMMA NotDestroying ==
    ASSUME NEW c, NEW ch, NEW fr, c.op # "destroy"
    PROVE  DestroyOK(c, ch, fr)
BY DEF DestroyOK

LEMMA AfterWaitDestroy ==
    ASSUME NEW c \in CallRecord, NEW r \in Results, NEW ch, NEW fr,
           c.op = "destroy", c.plan = DestroyPlan, c.i # 4,
           r \notin {EINTR, ETIMEDOUT} => ch \in Reaped
    PROVE  DestroyOK(AfterWait(c, r), ch, fr)
<1> DEFINE d == AfterWait(c, r)
<1>1. CASE r = ETIMEDOUT
  <2>1. c.i \in 1..3
    BY DEF CallRecord
  <2>2. d = [c EXCEPT !.pc = "next", !.i = c.i + 1, !.ret = r]
    BY <1>1 DEF AfterWait
  <2>3. d.pc = "next" /\ d.op = "destroy" /\ d.plan = c.plan
    BY <2>2 DEF CallRecord
  <2> HIDE DEF d
  <2>4. DestroyOK(d, ch, fr)
    BY <2>3 DEF DestroyOK, Stopping
  <2>5. QED
    BY <2>4 DEF d
<1>2. CASE r # ETIMEDOUT
  <2>1. d.op = "destroy" /\ d.pc = "release" /\ d.ret = r
    BY <1>2, AfterWaitIs
  <2> HIDE DEF d
  <2>2. DestroyOK(d, ch, fr)
    BY <1>2, <2>1 DEF DestroyOK, Stopping
  <2>3. QED
    BY <2>2 DEF d
<1>3. QED
  BY <1>1, <1>2

\* A start that meets no reproc_destroy leaves none behind either: a handle that
\* has been destroyed is not started.
LEMMA StartDestroy ==
    ASSUME TypeInv, DestroyInv, NEW t \in Threads, StartParent(t),
           \A u \in Threads : Busy(u) => call[u].op # "destroy"
    PROVE  DestroyInv'
<1>1. ~freed
  BY DEF StartParent, MayCall
<1>2. \A u \in Threads : call[u].op # "destroy"
  BY <1>1 DEF DestroyInv, DestroyOK, Stopping, Busy
<1>3. PICK r : call' = [call EXCEPT ![t] = [NoCall EXCEPT !.op = "start", !.ret = r]]
  BY DEF StartParent, StartReturns, SetCall
<1> DEFINE d == [NoCall EXCEPT !.op = "start", !.ret = r]
<1>4. d.op = "start"
  BY DEF NoCall
<1>5. \A u \in Threads : call'[u].op # "destroy"
  <2> HIDE DEF d
  <2>1. call' = [call EXCEPT ![t] = d]
    BY <1>3 DEF d
  <2>2. QED
    BY <1>2, <1>4, <2>1 DEF TypeInv, TypeOK
<1>6. QED
  BY <1>5, NotDestroying DEF DestroyInv

LEMMA BeginDestroy ==
    ASSUME TypeInv, TruthInv, DestroyInv, Fading, NEW t \in Threads, Begin(t), ~StartParent(t)
    PROVE  DestroyInv'
<1>1. ASSUME NEW d, call' = [call EXCEPT ![t] = d], d.op # "destroy"
      PROVE  DestroyInv'
  BY <1>1, NotDestroying, DestroyStep
<1>2. CASE StartError(t) \/ StartInChild(t)
  <2>1. PICK r : call' = [call EXCEPT ![t] = [NoCall EXCEPT !.op = "start", !.ret = r]]
    BY <1>2 DEF StartError, StartInChild, StartReturns, SetCall
  <2> DEFINE d == [NoCall EXCEPT !.op = "start", !.ret = r]
  <2>2. d.op = "start"
    BY DEF NoCall
  <2>3. QED
    BY <1>1, <2>1, <2>2
<1>3. ASSUME NEW timeout, CallWait(t, timeout)
      PROVE  DestroyInv'
  <2> DEFINE d == [NoCall EXCEPT !.op = "wait", !.pc = "wait", !.timeout = timeout]
  <2>1. d.op = "wait"
    BY DEF NoCall
  <2>2. QED
    BY <1>1, <1>3, <2>1 DEF CallWait, Goto, SetCall
<1>4. ASSUME NEW op \in {"terminate", "kill"}, CallSignal(t, op)
      PROVE  DestroyInv'
  <2> DEFINE d == [NoCall EXCEPT !.op = op, !.pc = "signal"]
  <2>1. d.op # "destroy"
    BY DEF NoCall
  <2>2. QED
    BY <1>1, <1>4, <2>1 DEF CallSignal, Goto, SetCall
<1>5. ASSUME NEW timeout, CallPoll(t, timeout)
      PROVE  DestroyInv'
  <2> DEFINE c == [NoCall EXCEPT !.op = "poll"]
             d(first) == IF first = "deadline" THEN [c EXCEPT !.ret = 1, !.event = "deadline"]
                         ELSE IF NoValidPipe THEN [c EXCEPT !.ret = EPIPE]
                         ELSE [c EXCEPT !.pc = "polling", !.timeout = first]
  <2>1. PICK first : Goto(t, d(first))
    BY <1>5 DEF CallPoll
  <2>2. d(first).op = "poll"
    BY DEF NoCall
  <2>3. QED
    <3> HIDE DEF d
    <3>1. QED
      BY <1>1, <2>1, <2>2 DEF Goto, SetCall
<1>6. ASSUME NEW plan \in Plans, CallStop(t, plan)
      PROVE  DestroyInv'
  <2> DEFINE c == [NoCall EXCEPT !.op = "stop", !.plan = ParseStopActions(plan)]
             d == IF NotStarted THEN Returned(c, EINVAL) ELSE [c EXCEPT !.pc = "next"]
  <2>1. d.op = "stop"
    BY DEF NoCall, Returned
  <2>2. Goto(t, d)
    BY <1>6 DEF CallStop
  <2>3. QED
    <3> HIDE DEF d
    <3>1. QED
      BY <1>1, <2>1, <2>2 DEF Goto, SetCall
<1>7. CASE CallDestroy(t)
  <2> DEFINE d1 == [NoCall EXCEPT !.op = "destroy", !.pc = "next",
                                  !.plan = ParseStopActions(DestroyPlan)]
             d2 == [NoCall EXCEPT !.op = "destroy", !.pc = "release"]
  <2>1. /\ d1.pc = "next" /\ d1.op = "destroy" /\ d1.i = 1
        /\ d1.plan = ParseStopActions(DestroyPlan)
        /\ d2.pc = "release" /\ d2.op = "destroy" /\ d2.ret = 0
    BY DEF NoCall
  <2>2. /\ IF status = STATUS_IN_PROGRESS THEN Goto(t, d1) ELSE Goto(t, d2)
        /\ UNCHANGED <<child, freed>>
    BY <1>7 DEF CallDestroy, Goto, handleVars, childVars
  <2>3. DestroyOK(d1, child, freed)
    <3> HIDE DEF d1
    <3>1. QED
      BY <2>1, DestroyPlanIs DEF DestroyOK, Stopping
  <2>4. status # STATUS_IN_PROGRESS => child \in Reaped
    BY DEF TypeInv, TypeOK, TruthInv, Reaped
  <2>5. status # STATUS_IN_PROGRESS => DestroyOK(d2, child, freed)
    <3> HIDE DEF d2
    <3>1. QED
      BY <2>1, <2>4 DEF DestroyOK, Stopping, ETIMEDOUT
  <2>6. QED
    <3> HIDE DEF d1, d2
    <3>1. QED
      BY <2>2, <2>3, <2>5, DestroyStep DEF Goto, SetCall
<1>8. QED
  BY <1>2, <1>3, <1>4, <1>5, <1>6, <1>7 DEF Begin

LEMMA WaitDestroy ==
    ASSUME TypeInv, TruthInv, StopInv, ProcessInv, DestroyInv, Fading, NEW t \in Threads,
           \/ WaitEnter(t) \/ WaitHangUp(t) \/ WaitTimesOut(t) \/ WaitNoChild(t)
           \/ WaitInterrupted(t) \/ WaitReaps(t) \/ WaitClosesExit(t) \/ WaitAssigns(t)
    PROVE  DestroyInv'
<1> DEFINE c == call[t]
<1>1. /\ c \in CallRecord /\ c.i \in 1..3 /\ c.i # 4 /\ c.ret \in Results
      /\ OpAt(c) /\ TrueRet(c) /\ LoopOK(c, status, deadline) /\ DestroyOK(c, child, freed)
      /\ c.pc \in {"wait", "poll", "waitpid", "close", "assign"}
  BY CallsAre DEF TruthInv, StopInv, DestroyInv, WaitEnter, WaitHangUp, WaitTimesOut,
     WaitNoChild, WaitInterrupted, WaitReaps, WaitClosesExit, WaitAssigns
<1>2. c.op \in Waiters
  BY <1>1 DEF OpAt
<1>3. c.op = "destroy" => Stopping(c) /\ c.plan = DestroyPlan /\ ~NotStarted
  BY <1>1 DEF Stopping, LoopOK, DestroyOK, NotStarted
\* The call goes on with result r of reproc_wait.
<1>4. ASSUME NEW r \in Results, call' = [call EXCEPT ![t] = AfterWait(c, r)],
             c.op = "destroy" /\ r \notin {EINTR, ETIMEDOUT} => child' \in Reaped
      PROVE  DestroyInv'
  <2>1. DestroyOK(AfterWait(c, r), child', freed')
    <3> DEFINE d == AfterWait(c, r)
    <3>1. CASE c.op # "destroy"
      <4>1. d.op # "destroy"
        BY <1>1, <3>1, AfterWaitIs
      <4> HIDE DEF d
      <4>2. DestroyOK(d, child', freed')
        BY <4>1, NotDestroying
      <4>3. QED
        BY <4>2 DEF d
    <3>2. CASE c.op = "destroy"
      <4> HIDE DEF c
      <4>1. QED
        BY <1>1, <1>3, <1>4, <3>2, AfterWaitDestroy
    <3>3. QED
      BY <3>1, <3>2
  <2>2. QED
    BY <1>4, <2>1, DestroyStep
\* A step inside reproc_wait.
<1>5. ASSUME NEW d, call' = [call EXCEPT ![t] = d],
             d.op = c.op, d.plan = c.plan, d.i = c.i,
             d.pc \in {"poll", "waitpid", "close", "assign"}
      PROVE  DestroyInv'
  <2>1. DestroyOK(d, child', freed')
    BY <1>1, <1>3, <1>5 DEF DestroyOK, Stopping, Fading
  <2>2. QED
    BY <1>5, <2>1, DestroyStep
<1>6. CASE WaitEnter(t)
  <2>0. UNCHANGED <<child, freed>>
    BY <1>6 DEF WaitEnter, Goto, handleVars, childVars
  <2>1. CASE NotStarted /\ Goto(t, AfterWait(c, EINVAL))
    BY <1>3, <1>4, <2>1, ResultsAre DEF Goto, SetCall
  <2>2. CASE Exited /\ Goto(t, AfterWait(c, status))
    <3>1. status \in 0..255 /\ status # ETIMEDOUT /\ child = "reaped"
      BY <2>2 DEF Exited, TypeInv, TypeOK, TruthInv, STATUS_NOT_STARTED, STATUS_IN_PROGRESS,
         STATUS_IN_CHILD, ETIMEDOUT
    <3>2. status \in Results
      BY <3>1, ResultsAre
    <3>3. QED
      BY <1>4, <2>0, <2>2, <3>1, <3>2 DEF Goto, SetCall, Reaped
  <2>3. ASSUME NEW timeout, Goto(t, [c EXCEPT !.pc = "poll", !.timeout = timeout])
        PROVE  DestroyInv'
    <3> DEFINE d == [c EXCEPT !.pc = "poll", !.timeout = timeout]
    <3>1. d.op = c.op /\ d.plan = c.plan /\ d.i = c.i /\ d.pc = "poll"
      BY <1>1 DEF CallRecord
    <3>2. call' = [call EXCEPT ![t] = d]
      BY <2>3 DEF Goto, SetCall
    <3>3. QED
      <4> HIDE DEF d
      <4>1. QED
        BY <1>5, <3>1, <3>2
  <2>4. QED
    BY <1>6, <2>1, <2>2, <2>3 DEF WaitEnter
<1>7. CASE WaitTimesOut(t)
  <2>1. UNCHANGED <<child, freed>> /\ call' = [call EXCEPT ![t] = AfterWait(c, ETIMEDOUT)]
    BY <1>7 DEF WaitTimesOut, Goto, SetCall, handleVars, childVars
  <2>2. QED
    BY <1>4, <2>1, ResultsAre
<1>8. CASE WaitNoChild(t) \/ WaitInterrupted(t)
  <2>1. PICK r \in {ECHILD, EINTR} : /\ call' = [call EXCEPT ![t] = AfterWait(c, r)]
                                     /\ r # EINTR => child = "reaped"
    BY <1>8 DEF WaitNoChild, WaitInterrupted, Goto, SetCall, ECHILD, EINTR
  <2>2. r \in Results
    BY ResultsAre
  <2>3. UNCHANGED <<child, freed>>
    BY <1>8 DEF WaitNoChild, WaitInterrupted, Goto, handleVars, childVars
  <2>4. QED
    BY <1>4, <2>1, <2>2, <2>3 DEF Reaped
<1>9. CASE WaitHangUp(t) \/ WaitReaps(t) \/ WaitClosesExit(t)
  <2> DEFINE d == IF c.pc = "poll" THEN [c EXCEPT !.pc = "waitpid", !.timeout = "zero"]
                  ELSE IF c.pc = "waitpid" THEN [c EXCEPT !.pc = "close", !.ret = code]
                  ELSE [c EXCEPT !.pc = "assign"]
  <2>1. call' = [call EXCEPT ![t] = d] /\ c.pc \in {"poll", "waitpid", "close"}
    BY <1>9 DEF WaitHangUp, WaitReaps, WaitClosesExit, Goto, SetCall
  <2>2. d.op = c.op /\ d.plan = c.plan /\ d.i = c.i /\ d.pc \in {"waitpid", "close", "assign"}
    BY <1>1, <2>1 DEF CallRecord
  <2>3. QED
    <3> HIDE DEF d
    <3>1. QED
      BY <1>5, <2>1, <2>2
<1>10. CASE WaitAssigns(t)
  <2>1. /\ call' = [call EXCEPT ![t] = AfterWait(c, c.ret)] /\ UNCHANGED <<child, freed>>
        /\ child = "reaped" /\ c.ret \in 0..255
    BY <1>1, <1>10, CallsAre DEF WaitAssigns, SetCall, GoodCalls, TrueRet, childVars
  <2>2. c.ret # ETIMEDOUT
    BY <2>1 DEF ETIMEDOUT
  <2>3. QED
    BY <1>1, <1>4, <2>1, <2>2 DEF Reaped
<1>11. QED
  BY <1>6, <1>7, <1>8, <1>9, <1>10

LEMMA SignalDestroy ==
    ASSUME TypeInv, TruthInv, StopInv, ProcessInv, DestroyInv, Fading, NEW t \in Threads,
           SignalEnter(t) \/ SendSignal(t)
    PROVE  DestroyInv'
<1> DEFINE c == call[t]
<1>1. /\ c \in CallRecord /\ c.i \in 1..3 /\ c.i # 4 /\ c.op \in Signallers
      /\ c.pc \in {"signal", "kill"}
      /\ LoopOK(c, status, deadline) /\ DestroyOK(c, child, freed)
  BY CallsAre DEF TruthInv, OpAt, StopInv, DestroyInv, SignalEnter, SendSignal
<1>2. c.op = "destroy" => Stopping(c) /\ c.plan = DestroyPlan /\ ~NotStarted
  BY <1>1 DEF Stopping, LoopOK, DestroyOK, NotStarted
\* The call goes on with result r of reproc_terminate or reproc_kill.
<1>3. ASSUME NEW r \in {EINVAL, ESRCH, 0}, call' = [call EXCEPT ![t] = AfterSignal(c, r)],
             c.op = "destroy" /\ r # 0 => child' \in Reaped
      PROVE  DestroyInv'
  <2>1. r \in Results /\ r # EINTR /\ (r # 0 => r < 0)
    BY ResultsAre DEF EINVAL, ESRCH, EINTR
  <2> DEFINE d == AfterSignal(c, r)
  <2>2. CASE c.op # "destroy"
    <3>1. d.op # "destroy"
      BY <1>1, <2>1, <2>2, AfterSignalIs
    <3> HIDE DEF d
    <3>2. DestroyOK(d, child', freed')
      BY <3>1, NotDestroying
    <3>3. QED
      BY <1>3, <3>2, DestroyStep DEF d
  <2>3. CASE c.op = "destroy" /\ r # 0
    <3>1. r < 0 /\ c.op \notin {"terminate", "kill"}
      BY <2>1, <2>3
    <3>2. d.op = "destroy" /\ d.pc = "release" /\ d.ret = r
      <4> HIDE DEF c
      <4>1. d = StopEnds(c, r)
        BY <3>1 DEF AfterSignal
      <4>2. QED
        BY <1>1, <2>1, <2>3, <4>1, StopEndsIs
    <3> HIDE DEF d
    <3>3. r # ETIMEDOUT /\ child' \in Reaped
      BY <1>3, <2>3 DEF EINVAL, ESRCH, ETIMEDOUT
    <3>4. DestroyOK(d, child', freed')
      BY <3>2, <3>3 DEF DestroyOK, Stopping
    <3>5. QED
      BY <1>3, <3>4, DestroyStep DEF d
  <2>4. CASE c.op = "destroy" /\ r = 0
    <3>1. d = [c EXCEPT !.pc = "wait", !.timeout = c.plan[c.i].timeout]
      BY <2>4 DEF AfterSignal
    <3>2. d.op = "destroy" /\ d.pc = "wait" /\ d.i = c.i /\ d.plan = c.plan
      BY <1>1, <2>4, <3>1 DEF CallRecord
    <3> HIDE DEF d
    <3>3. DestroyOK(d, child', freed')
      BY <1>1, <1>2, <1>3, <2>4, <3>2 DEF DestroyOK, Stopping
    <3>4. QED
      BY <1>3, <3>3, DestroyStep DEF d
  <2>5. QED
    BY <2>2, <2>3, <2>4
<1>4. CASE SignalEnter(t)
  <2>2. CASE NotStarted /\ call' = [call EXCEPT ![t] = AfterSignal(c, EINVAL)]
    BY <1>2, <1>3, <2>2 DEF EINVAL
  <2>3. CASE Exited /\ call' = [call EXCEPT ![t] = AfterSignal(c, 0)]
    BY <1>3, <2>3
  <2>4. CASE call' = [call EXCEPT ![t] = [c EXCEPT !.pc = "kill"]]
    <3> DEFINE d == [c EXCEPT !.pc = "kill"]
    <3>1. d.op = c.op /\ d.pc = "kill" /\ d.i = c.i /\ d.plan = c.plan
      BY <1>1 DEF CallRecord
    <3>2. call' = [call EXCEPT ![t] = d]
      BY <2>4
    <3> HIDE DEF d
    <3>3. DestroyOK(d, child', freed')
      BY <1>1, <1>2, <3>1 DEF DestroyOK, Stopping
    <3>4. QED
      BY <3>2, <3>3, DestroyStep
  <2>5. QED
    BY <1>4, <2>2, <2>3, <2>4 DEF SignalEnter, Goto, SetCall
<1>5. CASE SendSignal(t)
  <2>1. CASE pid = "free"
    <3>1. child \in Reaped /\ child' = child
      BY <1>5, <2>1 DEF SendSignal, ProcessInv, TypeInv, TypeOK, Reaped
    <3>2. call' = [call EXCEPT ![t] = AfterSignal(c, ESRCH)]
      BY <1>5, <2>1 DEF SendSignal, SetCall
    <3>3. QED
      BY <1>3, <3>1, <3>2 DEF ESRCH
  <2>2. CASE pid # "free"
    <3>1. call' = [call EXCEPT ![t] = AfterSignal(c, 0)]
      BY <1>5, <2>2 DEF SendSignal, SetCall
    <3>2. QED
      BY <1>3, <3>1
  <2>3. QED
    BY <2>1, <2>2
<1>6. QED
  BY <1>4, <1>5

LEMMA LoopDestroy ==
    ASSUME TypeInv, TruthInv, StopInv, DestroyInv, Fading, NEW t \in Threads,
           \/ StopLoop(t) \/ DestroyReleases(t)
           \/ PollExit(t) \/ PollTimesOut(t) \/ PollInterrupted(t)
    PROVE  DestroyInv'
<1> DEFINE c == call[t]
<1>1. /\ c \in CallRecord /\ c.ret \in Results /\ OpAt(c) /\ c.i \in 1..4
      /\ LoopOK(c, status, deadline) /\ DestroyOK(c, child, freed)
  BY CallsAre DEF TruthInv, StopInv, DestroyInv
<1>2. ASSUME NEW d, call' = [call EXCEPT ![t] = d], d.op # "destroy"
      PROVE  DestroyInv'
  BY <1>2, NotDestroying, DestroyStep
<1>3. CASE StopLoop(t)
  <2> DEFINE d1 == [c EXCEPT !.i = c.i + 1, !.ret = 0]
             d2 == [c EXCEPT !.pc = "wait", !.timeout = c.plan[c.i].timeout]
             d3 == [c EXCEPT !.pc = "signal"]
             d4 == StopEnds(c, c.ret)
  <2>1. c.pc = "next" /\ c.op \in {"stop", "destroy"} /\ Stopping(c)
    BY <1>1, <1>3 DEF StopLoop, OpAt, Stopping
  <2>2. /\ d1.op = c.op
        /\ d2.op = c.op /\ d2.pc = "wait" /\ d2.i = c.i /\ d2.plan = c.plan
        /\ d3.op = c.op /\ d3.pc = "signal" /\ d3.i = c.i /\ d3.plan = c.plan
        /\ d4.op = c.op /\ d4.ret = c.ret /\ (c.op = "destroy" => d4.pc = "release")
    BY <1>1, <2>1, StopEndsIs DEF CallRecord
  <2>7. Kept(c, d4)
    <3> HIDE DEF c
    <3>1. QED
      BY <1>1, KeptAre
  <2>0. \/ c.i = 4 /\ Goto(t, d4)
        \/ c.i # 4 /\ c.plan[c.i].action = "noop" /\ Goto(t, d1)
        \/ c.i # 4 /\ c.plan[c.i].action = "wait" /\ Goto(t, d2)
        \/ c.i # 4 /\ Goto(t, d3)
    BY <1>1, <1>3 DEF StopLoop
  <2> HIDE DEF d1, d2, d3, d4
  <2>3. /\ UNCHANGED <<child, freed>>
        /\ \/ c.i = 4 /\ call' = [call EXCEPT ![t] = d4]
           \/ c.i # 4 /\ c.plan[c.i].action = "noop" /\ call' = [call EXCEPT ![t] = d1]
           \/ c.i # 4 /\ c.plan[c.i].action = "wait" /\ call' = [call EXCEPT ![t] = d2]
           \/ c.i # 4 /\ call' = [call EXCEPT ![t] = d3]
    BY <2>0 DEF Goto, SetCall, handleVars, childVars
  <2>4. CASE c.op = "stop"
    BY <1>2, <2>2, <2>3, <2>4
  <2>5. CASE c.op = "destroy"
    <3>1. c.plan = DestroyPlan
      BY <1>1, <2>1, <2>5 DEF DestroyOK
    <3>2. \A i \in 1..3 : c.plan[i].action # "noop" /\ (c.plan[i].action = "wait" => i = 1)
      BY <3>1, DestroyPlanIs
    <3>3. CASE c.i = 4 /\ call' = [call EXCEPT ![t] = d4]
      <4>1. c.ret = ETIMEDOUT
        BY <1>1, <2>1, <3>2, <3>3 DEF LoopOK
      <4>2. d4.plan = c.plan
        BY <2>7 DEF Kept
      <4>3. DestroyOK(d4, child', freed')
        BY <2>2, <2>5, <3>1, <4>1, <4>2 DEF DestroyOK, Stopping
      <4>4. QED
        BY <3>3, <4>3, DestroyStep
    <3>4. CASE c.i # 4 /\ c.plan[c.i].action = "wait" /\ call' = [call EXCEPT ![t] = d2]
      <4>1. DestroyOK(d2, child', freed')
        BY <2>2, <2>5, <3>1 DEF DestroyOK, Stopping
      <4>2. QED
        BY <3>4, <4>1, DestroyStep
    <3>5. CASE c.i # 4 /\ call' = [call EXCEPT ![t] = d3]
      <4>1. DestroyOK(d3, child', freed')
        BY <2>2, <2>5, <3>1 DEF DestroyOK, Stopping
      <4>2. QED
        BY <3>5, <4>1, DestroyStep
    <3>6. QED
      BY <1>1, <2>3, <3>2, <3>3, <3>4, <3>5
  <2>6. QED
    BY <2>1, <2>4, <2>5
<1>4. CASE DestroyReleases(t)
  <2> DEFINE d == Returned(c, c.ret)
  <2>1. c.op = "destroy" /\ c.pc = "release"
    BY <1>1, <1>4 DEF OpAt, DestroyReleases
  <2>2. d.op = "destroy" /\ d.pc = "idle" /\ d.ret = c.ret /\ d.plan = c.plan
    <3> HIDE DEF c
    <3>1. QED
      BY <1>1, <2>1, ReturnedIs
  <2>3. call' = [call EXCEPT ![t] = d] /\ child' = child /\ freed'
    BY <1>4 DEF DestroyReleases, SetCall, childVars
  <2> HIDE DEF d
  <2>4. DestroyOK(d, child', freed')
    BY <1>1, <2>1, <2>2, <2>3 DEF DestroyOK, Stopping
  <2>5. QED
    BY <2>3, <2>4, DestroyStep
<1>5. CASE PollExit(t) \/ PollTimesOut(t) \/ PollInterrupted(t)
  <2>1. PICK r, event : c.pc = "polling" /\ PollReturns(t, r, event)
    BY <1>5 DEF PollExit, PollTimesOut, PollInterrupted
  <2> DEFINE e == Returned(c, r)
             d == [e EXCEPT !.event = event]
  <2>2. d.op = "poll"
    BY <1>1, <2>1 DEF OpAt, Returned, CallRecord
  <2>3. call' = [call EXCEPT ![t] = d]
    BY <2>1 DEF PollReturns, Goto, SetCall
  <2>4. QED
    <3> HIDE DEF d
    <3>1. QED
      BY <1>2, <2>2, <2>3
<1>6. QED
  BY <1>3, <1>4, <1>5

\* A start does not meet reproc_destroy.
NoStartInDestroy ==
    \A t \in Threads : StartParent(t) => \A u \in Threads : Busy(u) => call[u].op # "destroy"

LEMMA DestroyNext ==
    ASSUME TypeInv, TruthInv, StopInv, ProcessInv, DestroyInv, NoStartInDestroy, [Next]_vars
    PROVE  DestroyInv'
<1>1. ASSUME NEW t \in Threads, StartParent(t)
      PROVE  DestroyInv'
  BY <1>1, StartDestroy DEF NoStartInDestroy
<1>2. ASSUME \A t \in Threads : ~StartParent(t)
      PROVE  DestroyInv'
  <2>1. Fading
    BY <1>2, NextFading
  <2>2. ASSUME NEW t \in Threads, Begin(t)
        PROVE  DestroyInv'
    BY <1>2, <2>1, <2>2, BeginDestroy
  <2>3. ASSUME NEW t \in Threads, Step(t) \/ BrokenOff(t)
        PROVE  DestroyInv'
    BY <2>1, <2>3, WaitDestroy, SignalDestroy, LoopDestroy DEF Step, BrokenOff
  <2>4. ASSUME UNCHANGED call
        PROVE  DestroyInv'
    BY <2>1, <2>4 DEF DestroyInv, DestroyOK, Fading
  <2>5. CASE Environment
    <3>1. UNCHANGED call
      BY <2>5 DEF Environment, ChildExits, ChildSignalled, ChildEnds, ForkedChildReturns,
         ChildClosesExit, ChildForks, DescendantExits, PidReused, DeadlineExpires
    <3>2. QED
      BY <2>4, <3>1
  <2>6. CASE UNCHANGED vars
    BY <2>4, <2>6 DEF vars
  <2>7. QED
    BY <2>2, <2>3, <2>5, <2>6 DEF Next
<1>3. QED
  BY <1>1, <1>2

LEMMA InitDestroy == Init => DestroyInv
<1>1. NoCall.op = "none"
  BY DEF NoCall
<1>2. ASSUME Init, NEW t \in Threads
      PROVE  call[t].op # "destroy"
  BY <1>1, <1>2 DEF Init
<1>3. QED
  BY <1>2, NotDestroying DEF DestroyInv

\* Callers do not start the handle that another thread destroys.
StartApart == {"start", "destroy"} \notin Overlaps

LEMMA DestroyInvariant ==
    ASSUME StartApart
    PROVE  Spec => []DestroyInv
<1>1. NoStartInDestroy
  BY DEF NoStartInDestroy, StartParent, MayCall, StartApart, Busy
<1>2. /\ TypeInv /\ TruthInv /\ StopInv /\ ProcessInv /\ DestroyInv /\ [Next]_vars
      => DestroyInv'
  BY <1>1, DestroyNext
<1>3. QED
  BY <1>2, InitDestroy, TypeInvariant, TruthInvariant, StopInvariant, ProcessInvariant, PTL
  DEF Spec

\* reproc_destroy leaves no child that has not been killed, unless a signal handler
\* has cut its wait short, however other calls overlap with it.
THEOREM DestroyStopsChild ==
    ASSUME StartApart
    PROVE  Spec => []DestroyEndsChild
<1>1. TypeInv /\ KillInv /\ DestroyInv => DestroyEndsChild
  <2>1. ASSUME TypeInv, KillInv, DestroyInv, NEW t \in Threads, Last(t, "destroy"),
               call[t].ret # EINTR
        PROVE  child = "none" \/ Doomed
    <3>1. KillOK(call[t], Doomed) /\ DestroyOK(call[t], child, freed) /\ ~Stopping(call[t])
      BY <2>1 DEF KillInv, DestroyInv, Last, Stopping
    <3>2. CASE call[t].ret = ETIMEDOUT
      <4>1. HasKill(call[t])
        BY <2>1, <3>1, <3>2, DestroyPlanIs DEF DestroyOK, HasKill, Last
      <4>2. QED
        BY <2>1, <3>1, <3>2, <4>1 DEF KillOK, Last
    <3>3. CASE call[t].ret # ETIMEDOUT
      BY <2>1, <3>1, <3>3 DEF DestroyOK, Reaped, Doomed, Last
    <3>4. QED
      BY <3>2, <3>3
  <2>2. QED
    BY <2>1 DEF DestroyEndsChild
<1>2. QED
  BY <1>1, TypeInvariant, KillInvariant, DestroyInvariant, PTL
-----------------------------------------------------------------------------
(***************************************************************************)
(* The handle implements its contract.  A step of the contract has these   *)
(* parts: what happens to the child (Live, Doom), what the handle learns   *)
(* of it (Learn), and the call that begins or returns.                     *)
(***************************************************************************)

Statuses == Codes \cup {SIGOFFSET + SIGTERM, SIGOFFSET + SIGKILL}

\* What the contract sees of a call.
Seen(c) == [op |-> c.op, busy |-> c.pc # "idle",
            ret |-> IF c.pc = "idle" THEN c.ret ELSE 0, event |-> c.event]

\* The child as the contract allows it to change.
ChildLives ==
    \/ UNCHANGED <<child, code>>
    \/ child = "zombie" /\ child' = "reaped" /\ code' = code
    \/ /\ child = "none" /\ child' = "running" /\ code' = code
       /\ status = STATUS_NOT_STARTED /\ status' = STATUS_IN_PROGRESS
    \/ child = "running" /\ child' = "zombie" /\ code' \in Statuses

LEMMA LiveIs ==
    ASSUME TypeInv, ChildLives
    PROVE  Contract!Live
BY DEF TypeInv, TypeOK, ChildLives, Contract!Live, Statuses,
   STATUS_NOT_STARTED, STATUS_IN_PROGRESS, STATUS_IN_CHILD

\* Signals likewise: SIGKILL is sent by calls that kill.
Dooms(t) ==
    /\ child = "running"
    /\ Busy(t) /\ call[t].op \in {"kill", "stop", "destroy"}
    /\ signals' = signals \cup {SIGKILL}

LEMMA DoomIs ==
    ASSUME \/ signals' = signals
           \/ signals' = signals \cup {SIGTERM}
           \/ \E t \in Threads : Dooms(t)
    PROVE  Contract!Doom
<1>1. CASE signals' = signals \/ signals' = signals \cup {SIGTERM}
  BY <1>1 DEF Contract!Doom, SIGTERM, SIGKILL
<1>2. CASE \E t \in Threads : Dooms(t)
  BY <1>2 DEF Contract!Doom, Dooms, Busy
<1>3. QED
  BY <1>1, <1>2

\* The status likewise.
StatusLearnt ==
    \/ status' = status
    \/ /\ status = STATUS_NOT_STARTED /\ status' = STATUS_IN_PROGRESS
       /\ child = "none" /\ child' = "running"
    \/ status = STATUS_NOT_STARTED /\ status' = STATUS_IN_CHILD /\ child' = child
    \/ status = STATUS_IN_PROGRESS /\ status' \in 0..255 /\ child = "reaped"
    \/ status >= 0 /\ status' >= 0

LEMMA LearnIs ==
    ASSUME TypeInv, TypeInv', StatusLearnt
    PROVE  Contract!Learn
BY DEF TypeInv, TypeOK, StatusLearnt, Contract!Learn,
   STATUS_NOT_STARTED, STATUS_IN_PROGRESS, STATUS_IN_CHILD

\* Threads only make calls the contract knows.
LEMMA SeenAre ==
    ASSUME NEW c \in CallRecord
    PROVE  Seen(c) \in Contract!Calls
<1>1. /\ c.op \in Ops \cup {"none"} /\ c.ret \in Int
      /\ c.event \in {"none", "exit", "deadline"}
  BY ResultsAre DEF CallRecord
<1>2. QED
  BY <1>1 DEF Contract!Calls, Contract!Ops, Ops, Seen

\* A step that begins no call and returns none.
LEMMA SilentIs ==
    ASSUME TypeInv, TypeInv', Contract!Live, Contract!Doom, Contract!Learn, freed' = freed,
           \A u \in Threads : Seen(call'[u]) = Seen(call[u])
    PROVE  Contract!Next
<1>1. \A u \in Threads : Seen(call'[u]) \in Contract!Calls
  BY SeenAre DEF TypeInv, TypeOK
<1>2. QED
  BY <1>1 DEF Contract!Next, Seen

LEMMA BeginIs ==
    ASSUME TypeInv, TypeInv', Contract!Live, Contract!Doom, Contract!Learn, NEW t \in Threads, NEW d,
           call' = [call EXCEPT ![t] = d], d.pc # "idle",
           ~freed, ~Busy(t), freed' = freed
    PROVE  Contract!Next
<1>1. call'[t] = d /\ \A u \in Threads \ {t} : call'[u] = call[u]
  BY DEF TypeInv, TypeOK
<1>2. \A u \in Threads : Seen(call'[u]) \in Contract!Calls
  BY SeenAre DEF TypeInv, TypeOK
<1>3. Contract!Begin(t)
  BY <1>1 DEF Contract!Begin, Contract!Others, Seen, Busy
<1>4. QED
  BY <1>2, <1>3 DEF Contract!Next, Seen

\* What the result of a call means.
Meaning(c) ==
    /\ c.op = "wait" /\ c.ret >= 0 => status' = c.ret /\ code' = c.ret
    /\ c.op = "stop" /\ c.ret > 0 => status' = c.ret /\ code' = c.ret
    /\ c.op = "kill" /\ c.ret = 0 => Doomed'
    /\ c.op = "poll" /\ c.event = "exit" => child' \in {"zombie", "reaped"}
    /\ c.op = "start" /\ c.ret > 0 => /\ status = STATUS_NOT_STARTED
                                      /\ status' = STATUS_IN_PROGRESS
    /\ c.op = "destroy" /\ child' = "running" => Doomed' \/ c.ret = EINTR

LEMMA ReturnIs ==
    ASSUME TypeInv, TypeInv', Contract!Live, Contract!Doom, Contract!Learn, NEW t \in Threads,
           NEW d \in CallRecord, call' = [call EXCEPT ![t] = d], d.pc = "idle", Meaning(d),
           ~freed, Busy(t) => d.op = call[t].op, freed' <=> d.op = "destroy"
    PROVE  Contract!Next
<1>1. call'[t] = d /\ \A u \in Threads \ {t} : call'[u] = call[u]
  BY DEF TypeInv, TypeOK
<1>2. \A u \in Threads : Seen(call'[u]) \in Contract!Calls
  BY SeenAre DEF TypeInv, TypeOK
<1>3. d.ret \in Int
  BY ResultsAre DEF CallRecord
<1>4. \A st : st >= 0 =>
        /\ st # STATUS_NOT_STARTED /\ st # STATUS_IN_PROGRESS /\ st # STATUS_IN_CHILD
  BY DEF STATUS_NOT_STARTED, STATUS_IN_PROGRESS, STATUS_IN_CHILD
<1>5. /\ STATUS_IN_PROGRESS # STATUS_NOT_STARTED
      /\ STATUS_IN_CHILD \notin {STATUS_NOT_STARTED, STATUS_IN_PROGRESS}
  BY DEF STATUS_NOT_STARTED, STATUS_IN_PROGRESS, STATUS_IN_CHILD
<1>6. Contract!Means(t)
  <2>1. CASE d.op \in {"wait", "stop"}
    BY <1>1, <1>3, <1>4, <2>1 DEF Contract!Means, Meaning
  <2>2. CASE d.op \in {"kill", "poll", "destroy"}
    BY <1>1, <2>2 DEF Contract!Means, Meaning, Doomed
  <2>3. CASE d.op = "start"
    BY <1>1, <1>5, <2>3 DEF Contract!Means, Meaning
  <2>4. CASE d.op \notin {"wait", "stop", "kill", "poll", "destroy", "start"}
    BY <1>1, <2>4 DEF Contract!Means
  <2>5. QED
    BY <2>1, <2>2, <2>3, <2>4
<1>7. Contract!Return(t)
  <2>1. freed' = (d.op = "destroy")
    BY DEF TypeInv, TypeOK
  <2>2. QED
    BY <1>1, <1>6, <2>1 DEF Contract!Return, Contract!Others, Busy
<1>8. QED
  BY <1>2, <1>7 DEF Contract!Next, Seen

ContractInv ==
    /\ TypeInv /\ TruthInv /\ SerialInv /\ StopInv /\ ProcessInv /\ DestroyInv
    /\ DestroyEndsChild
    /\ ~ForkMode /\ "closesExit" \notin Traits

\* reproc_wait has the status of the handle to return.
LEMMA WaitMeans ==
    ASSUME TypeInv, TruthInv, NEW t \in Threads, Step(t) \/ BrokenOff(t), call[t].op = "wait",
           call'[t].pc = "idle", call'[t].ret >= 0
    PROVE  status' = call'[t].ret /\ code' = call'[t].ret
<1> DEFINE c == call[t]
<1>1. c \in CallRecord /\ call \in [Threads -> CallRecord] /\ OpAt(c) /\ TrueRet(c)
  BY CallsAre DEF TypeInv, TypeOK, TruthInv
<1>2. ASSUME NEW r, call' = [call EXCEPT ![t] = AfterWait(c, r)]
      PROVE  call'[t].ret = r
  BY <1>1, <1>2 DEF AfterWait, Returned, CallRecord
<1>3. CASE WaitEnter(t)
  <2>1. UNCHANGED <<status, code>>
    BY <1>3 DEF WaitEnter, Goto, handleVars, childVars
  <2>2. CASE call' = [call EXCEPT ![t] = AfterWait(c, EINVAL)]
    <3>1. ~(EINVAL >= 0)
      BY DEF EINVAL
    <3>2. call'[t].ret = EINVAL
      BY <1>2, <2>2
    <3>3. QED
      BY <3>1, <3>2
  <2>3. CASE Exited /\ call' = [call EXCEPT ![t] = AfterWait(c, status)]
    BY <1>2, <2>1, <2>3 DEF Exited, TruthInv
  <2> DEFINE d(timeout) == [c EXCEPT !.pc = "poll", !.timeout = timeout]
  <2>4. \A timeout : d(timeout).pc = "poll"
    BY <1>1 DEF CallRecord
  <2>5. ASSUME NEW timeout, call' = [call EXCEPT ![t] = d(timeout)]
        PROVE  FALSE
    <3> HIDE DEF d
    <3>1. QED
      BY <1>1, <2>4, <2>5
  <2>6. QED
    BY <1>3, <2>2, <2>3, <2>5 DEF WaitEnter, Goto, SetCall
<1>4. CASE WaitTimesOut(t) \/ WaitNoChild(t) \/ WaitInterrupted(t)
  <2>1. PICK r \in {ETIMEDOUT, ECHILD, EINTR} : call' = [call EXCEPT ![t] = AfterWait(c, r)]
    BY <1>4 DEF WaitTimesOut, WaitNoChild, WaitInterrupted, Goto, SetCall
  <2>2. ~(r >= 0)
    BY DEF ETIMEDOUT, ECHILD, EINTR
  <2>3. call'[t].ret = r
    BY <1>2, <2>1
  <2>4. QED
    BY <2>2, <2>3
<1>5. CASE WaitAssigns(t)
  <2>1. /\ call' = [call EXCEPT ![t] = AfterWait(c, c.ret)] /\ status' = c.ret /\ code' = code
        /\ c.ret = code
    BY <1>1, <1>5 DEF WaitAssigns, SetCall, childVars, TrueRet
  <2>2. QED
    BY <1>2, <2>1
<1>6. CASE WaitHangUp(t) \/ WaitReaps(t) \/ WaitClosesExit(t)
  <2> DEFINE d1 == [c EXCEPT !.pc = "waitpid", !.timeout = "zero"]
             d2 == [c EXCEPT !.pc = "close", !.ret = code]
             d3 == [c EXCEPT !.pc = "assign"]
  <2>1. d1.pc # "idle" /\ d2.pc # "idle" /\ d3.pc # "idle"
    BY <1>1 DEF CallRecord
  <2>2. \E d \in {d1, d2, d3} : call' = [call EXCEPT ![t] = d]
    BY <1>6 DEF WaitHangUp, WaitReaps, WaitClosesExit, Goto, SetCall
  <2>3. QED
    <3> HIDE DEF d1, d2, d3
    <3>1. QED
      BY <1>1, <2>1, <2>2
<1>7. QED
  BY <1>1, <1>3, <1>4, <1>5, <1>6 DEF Step, BrokenOff, OpAt, Signallers,
     SignalEnter, SendSignal, StopLoop, DestroyReleases, PollExit, PollTimesOut, PollInterrupted

\* reproc_poll reports an exit pipe that has hung up.
LEMMA PollMeans ==
    ASSUME ContractInv, NEW t \in Threads, Step(t) \/ BrokenOff(t), call[t].op = "poll",
           call'[t].event = "exit", call'[t].pc = "idle"
    PROVE  child' \in {"zombie", "reaped"}
<1> DEFINE c == call[t]
<1>1. /\ c \in CallRecord /\ call \in [Threads -> CallRecord] /\ OpAt(c) /\ CallOK(c)
      /\ Busy(t)
  BY CallsAre, StepKeeps DEF ContractInv, TypeInv, TypeOK, TruthInv, SerialInv
<1>2. c.pc = "polling" /\ exitPipe
  BY <1>1 DEF OpAt, CallOK, Waiters, Signallers, CallRecord, Pcs, Busy
<1>3. PollExit(t) \/ PollTimesOut(t) \/ PollInterrupted(t)
  BY <1>2 DEF Step, BrokenOff, WaitEnter, WaitHangUp, WaitTimesOut, WaitReaps, WaitNoChild,
     WaitClosesExit, WaitAssigns, SignalEnter, SendSignal, StopLoop, DestroyReleases,
     WaitInterrupted
<1>4. ASSUME NEW r, NEW event, PollReturns(t, r, event)
      PROVE  call'[t].event = event
  BY <1>1, <1>4 DEF PollReturns, Goto, SetCall, Returned, CallRecord
<1>5. PollExit(t) /\ child' = child
  <2>1. ~PollTimesOut(t)
    BY <1>4 DEF PollTimesOut
  <2>2. ~PollInterrupted(t)
    BY <1>4 DEF PollInterrupted
  <2>3. QED
    BY <1>3, <2>1, <2>2 DEF PollExit, PollReturns, Goto, childVars
<1>6. child \notin {"running", "none"}
  BY <1>2, <1>5 DEF PollExit, HungUp, ContractInv, ProcessInv
<1>7. QED
  BY <1>5, <1>6 DEF ContractInv, TypeInv, TypeOK

LEMMA StepMeans ==
    ASSUME ContractInv, ContractInv', NEW t \in Threads, Step(t) \/ BrokenOff(t),
           call'[t].pc = "idle"
    PROVE  Meaning(call'[t])
<1> DEFINE d == call'[t]
<1>1. d.op = call[t].op /\ Busy(t)
  BY StepKeeps DEF KeptBy, Kept, ContractInv
<1>2. d.op = "wait" /\ d.ret >= 0 => status' = d.ret /\ code' = d.ret
  BY <1>1, WaitMeans DEF ContractInv
<1>3. d.op = "stop" /\ d.ret > 0 => status' = d.ret /\ code' = d.ret
  <2>1. d.ret \in Int /\ EndOK(d, status')
    BY CallsAre, ResultsAre DEF ContractInv, TypeInv, TypeOK, CallRecord, StopInv
  <2>2. ASSUME d.op = "stop", d.ret > 0
        PROVE  status' = d.ret /\ status' >= 0
    BY <2>1, <2>2 DEF EndOK
  <2>3. QED
    BY <2>2 DEF ContractInv, TruthInv
<1>4. d.op = "kill" /\ d.ret = 0 => Doomed'
  BY DEF ContractInv, SerialInv, CallOK
<1>5. d.op = "poll" /\ d.event = "exit" => child' \in {"zombie", "reaped"}
  BY <1>1, PollMeans
<1>6. d.op # "start"
  BY <1>1 DEF ContractInv, SerialInv, CallOK, Busy
<1>7. d.op = "destroy" /\ child' = "running" => Doomed' \/ d.ret = EINTR
  BY DEF ContractInv, DestroyEndsChild, Last
<1>8. QED
  BY <1>2, <1>3, <1>4, <1>5, <1>6, <1>7 DEF Meaning

LEMMA StepContract ==
    ASSUME ContractInv, ContractInv', NEW t \in Threads, Step(t) \/ BrokenOff(t)
    PROVE  Contract!Next
<1> DEFINE d == call'[t]
<1>1. /\ Busy(t) /\ call' = [call EXCEPT ![t] = d] /\ d \in CallRecord
      /\ d.op = call[t].op /\ (d.pc # "idle" => d.event = call[t].event)
  BY StepKeeps DEF KeptBy, Kept, ContractInv, TypeInv, TypeOK
<1>2. ~freed /\ CallOK(call[t])
  BY <1>1 DEF ContractInv, SerialInv, ChildOK
<1>3. Contract!Live
  <2>1. CASE WaitReaps(t)
    BY <2>1, LiveIs DEF WaitReaps, ChildLives, ContractInv
  <2>2. CASE ~WaitReaps(t)
    <3>1. UNCHANGED <<child, code>>
      BY <2>2 DEF Step, BrokenOff, WaitEnter, WaitHangUp, WaitTimesOut, WaitNoChild,
         WaitInterrupted, WaitClosesExit, WaitAssigns, SignalEnter, SendSignal, StopLoop,
         DestroyReleases, PollExit, PollTimesOut, PollInterrupted, PollReturns, Goto, childVars
    <3>2. QED
      BY <3>1, LiveIs DEF ChildLives, ContractInv
  <2>3. QED
    BY <2>1, <2>2
<1>11. Contract!Doom
  <2>1. CASE SendSignal(t)
    <3>1. /\ call[t].pc = "kill"
          /\ \/ signals' = signals
             \/ child = "running" /\ signals' = signals \cup {SignalOf(call[t])}
      BY <2>1 DEF SendSignal
    <3>2. call[t].op \in Signallers
      BY <1>2, <3>1 DEF CallOK
    <3>3. \/ SignalOf(call[t]) = SIGTERM
          \/ SignalOf(call[t]) = SIGKILL /\ call[t].op \in {"kill", "stop", "destroy"}
      BY <3>2 DEF SignalOf, Signallers
    <3>4. QED
      BY <1>1, <3>1, <3>3, DoomIs DEF Dooms
  <2>2. CASE ~SendSignal(t)
    <3>1. UNCHANGED signals
      BY <2>2 DEF Step, BrokenOff, WaitEnter, WaitHangUp, WaitTimesOut, WaitReaps, WaitNoChild,
         WaitInterrupted, WaitClosesExit, WaitAssigns, SignalEnter, StopLoop, DestroyReleases,
         PollExit, PollTimesOut, PollInterrupted, PollReturns, Goto, childVars
    <3>2. QED
      BY <3>1, DoomIs
  <2>3. QED
    BY <2>1, <2>2
<1>4. Contract!Learn
  <2>1. CASE WaitAssigns(t)
    <3>1. status = STATUS_IN_PROGRESS /\ child = "reaped" /\ status' = call[t].ret
      BY <1>2, <2>1 DEF WaitAssigns, CallOK
    <3>2. call[t].ret \in 0..255
      BY <2>1, CallsAre DEF WaitAssigns, GoodCalls, ContractInv
    <3>3. QED
      BY <3>1, <3>2, LearnIs DEF StatusLearnt, ContractInv
  <2>2. CASE ~WaitAssigns(t)
    <3>1. status' = status
      BY <2>2 DEF Step, BrokenOff, WaitEnter, WaitHangUp, WaitTimesOut, WaitReaps, WaitNoChild,
         WaitInterrupted, WaitClosesExit, SignalEnter, SendSignal, StopLoop, DestroyReleases,
         PollExit, PollTimesOut, PollInterrupted, PollReturns, Goto, handleVars
    <3>2. QED
      BY <3>1, LearnIs DEF StatusLearnt, ContractInv
  <2>3. QED
    BY <2>1, <2>2
<1>5. freed' = freed \/ (DestroyReleases(t) /\ freed')
  BY DEF Step, BrokenOff, WaitEnter, WaitHangUp, WaitTimesOut, WaitReaps, WaitNoChild,
     WaitInterrupted, WaitClosesExit, WaitAssigns, SignalEnter, SendSignal, StopLoop,
     DestroyReleases, PollExit, PollTimesOut, PollInterrupted, PollReturns, Goto, handleVars
<1>6. DestroyReleases(t) => d.op = "destroy" /\ d.pc = "idle"
  <2>1. ASSUME DestroyReleases(t)
        PROVE  call[t].op = "destroy" /\ d.pc = "idle"
    <3>1. /\ call[t].pc = "release" /\ call' = [call EXCEPT ![t] = Returned(call[t], call[t].ret)]
          /\ call \in [Threads -> CallRecord] /\ call[t] \in CallRecord
          /\ call[t].ret \in Results
      BY <2>1, CallsAre DEF DestroyReleases, SetCall, ContractInv, TypeInv, TypeOK
    <3>2. Returned(call[t], call[t].ret).pc = "idle"
      BY <3>1, ReturnedIs
    <3>3. QED
      BY <1>2, <3>1, <3>2 DEF CallOK
  <2>2. QED
    BY <1>1, <2>1
<1>7. d.op = "destroy" /\ d.pc = "idle" => freed'
  BY DEF ContractInv, DestroyInv, DestroyOK, Stopping
<1>8. CASE d.pc = "idle"
  <2>1. freed' <=> d.op = "destroy"
    BY <1>2, <1>5, <1>6, <1>7, <1>8
  <2>2. Meaning(d)
    BY <1>8, StepMeans
  <2> HIDE DEF d
  <2>3. QED
    BY <1>1, <1>2, <1>3, <1>4, <1>8, <1>11, <2>1, <2>2, ReturnIs DEF ContractInv
<1>9. CASE d.pc # "idle"
  <2>1. freed' = freed
    BY <1>5, <1>6, <1>9
  <2>2. Seen(d) = Seen(call[t])
    BY <1>1, <1>9 DEF Seen, Busy
  <2>3. \A u \in Threads \ {t} : call'[u] = call[u]
    BY <1>1 DEF ContractInv, TypeInv, TypeOK
  <2>4. \A u \in Threads : Seen(call'[u]) = Seen(call[u])
    BY <2>2, <2>3
  <2>5. QED
    BY <1>3, <1>4, <1>11, <2>1, <2>4, SilentIs DEF ContractInv
<1>10. QED
  BY <1>8, <1>9

LEMMA BeginContract ==
    ASSUME ContractInv, ContractInv', NEW t \in Threads, Begin(t)
    PROVE  Contract!Next
<1>1. ~freed /\ ~Busy(t)
  BY DEF Begin, StartError, StartParent, StartInChild, CallWait, CallSignal, CallStop,
     CallPoll, CallDestroy, MayCall
\* The call goes on, or returns at once with a result that is no news.
<1>2. ASSUME NEW d, Goto(t, d), d.op # "destroy" \/ d.pc # "idle",
             d.pc = "idle" => Meaning(d)
      PROVE  Contract!Next
  <2>1. /\ call' = [call EXCEPT ![t] = d] /\ d \in CallRecord
        /\ UNCHANGED <<status, freed, child, code, signals>>
    BY <1>2 DEF Goto, SetCall, handleVars, childVars, ContractInv, TypeInv, TypeOK
  <2>2. Contract!Live /\ Contract!Doom /\ Contract!Learn
    BY <2>1, LiveIs, DoomIs, LearnIs DEF ChildLives, StatusLearnt, ContractInv
  <2>3. CASE d.pc # "idle"
    BY <1>1, <2>1, <2>2, <2>3, BeginIs DEF ContractInv
  <2>4. CASE d.pc = "idle"
    <3>1. freed' <=> d.op = "destroy"
      BY <1>1, <1>2, <2>1, <2>4
    <3>2. QED
      BY <1>1, <1>2, <2>1, <2>2, <2>4, <3>1, ReturnIs DEF ContractInv
  <2>5. QED
    BY <2>3, <2>4
<1> DEFINE s(r) == [NoCall EXCEPT !.op = "start", !.ret = r]
<1>3. \A r : s(r).op = "start" /\ s(r).ret = r /\ s(r).pc = "idle"
  BY DEF NoCall
<1>4. CASE StartError(t)
  <2>1. PICK r \in {ENOENT, EINVAL} : Goto(t, s(r))
    BY <1>4 DEF StartError, StartReturns, Goto
  <2>2. ~(r > 0)
    BY DEF ENOENT, EINVAL
  <2> HIDE DEF s
  <2>3. Meaning(s(r))
    BY <1>3, <2>2 DEF Meaning
  <2>4. QED
    BY <1>2, <1>3, <2>1, <2>3
<1>5. CASE StartParent(t) \/ StartInChild(t)
  <2>1. PICK r \in {0, 1} :
          /\ call' = [call EXCEPT ![t] = s(r)] /\ freed' = freed /\ code' = code
          /\ signals' = signals /\ status = STATUS_NOT_STARTED
          /\ \/ r = 1 /\ status' = STATUS_IN_PROGRESS /\ child' = "running"
             \/ r = 0 /\ status' = STATUS_IN_CHILD /\ child' = child
    BY <1>5 DEF StartParent, StartInChild, Startable, StartReturns, SetCall, childVars
  <2>2. child = "none"
    BY <2>1 DEF ContractInv, TruthInv
  <2>3. Contract!Live /\ Contract!Doom /\ Contract!Learn
    BY <2>1, <2>2, LiveIs, DoomIs, LearnIs DEF ChildLives, StatusLearnt, ContractInv
  <2> HIDE DEF s
  <2>4. s(r) \in CallRecord
    BY <2>1 DEF ContractInv, TypeInv, TypeOK
  <2>5. Meaning(s(r))
    BY <1>3, <2>1 DEF Meaning
  <2>6. freed' <=> s(r).op = "destroy"
    BY <1>1, <1>3, <2>1
  <2>7. QED
    BY <1>1, <1>3, <2>1, <2>3, <2>4, <2>5, <2>6, ReturnIs DEF ContractInv
<1>6. ASSUME NEW timeout, CallWait(t, timeout)
      PROVE  Contract!Next
  <2> DEFINE d == [NoCall EXCEPT !.op = "wait", !.pc = "wait", !.timeout = timeout]
  <2>1. d.pc = "wait"
    BY DEF NoCall
  <2>2. QED
    BY <1>2, <1>6, <2>1 DEF CallWait
<1>7. ASSUME NEW op, CallSignal(t, op)
      PROVE  Contract!Next
  <2> DEFINE d == [NoCall EXCEPT !.op = op, !.pc = "signal"]
  <2>1. d.pc = "signal"
    BY DEF NoCall
  <2>2. QED
    BY <1>2, <1>7, <2>1 DEF CallSignal
<1>8. ASSUME NEW plan, CallStop(t, plan)
      PROVE  Contract!Next
  <2> DEFINE c == [NoCall EXCEPT !.op = "stop", !.plan = ParseStopActions(plan)]
             d1 == Returned(c, EINVAL)
             d2 == [c EXCEPT !.pc = "next"]
  <2>1. d1.op = "stop" /\ d1.pc = "idle" /\ d1.ret = EINVAL /\ d2.pc = "next"
    BY DEF NoCall, Returned
  <2>2. Goto(t, d1) \/ Goto(t, d2)
    BY <1>8 DEF CallStop
  <2>3. ~(EINVAL > 0)
    BY DEF EINVAL
  <2> HIDE DEF d1, d2
  <2>4. Meaning(d1)
    BY <2>1, <2>3 DEF Meaning
  <2>5. QED
    BY <1>2, <2>1, <2>2, <2>4
<1>9. ASSUME NEW timeout, CallPoll(t, timeout)
      PROVE  Contract!Next
  <2> DEFINE c == [NoCall EXCEPT !.op = "poll"]
             d1 == [c EXCEPT !.ret = 1, !.event = "deadline"]
             d2 == [c EXCEPT !.ret = EPIPE]
             d3(first) == [c EXCEPT !.pc = "polling", !.timeout = first]
  <2>1. /\ d1.op = "poll" /\ d1.pc = "idle" /\ d1.event = "deadline"
        /\ d2.op = "poll" /\ d2.pc = "idle" /\ d2.event = "none"
        /\ \A first : d3(first).pc = "polling"
    BY DEF NoCall
  <2>2. Goto(t, d1) \/ Goto(t, d2) \/ \E first : Goto(t, d3(first))
    BY <1>9 DEF CallPoll
  <2> HIDE DEF d1, d2, d3
  <2>3. Meaning(d1) /\ Meaning(d2)
    BY <2>1 DEF Meaning
  <2>4. QED
    BY <1>2, <2>1, <2>2, <2>3
<1>10. CASE CallDestroy(t)
  <2> DEFINE d1 == [NoCall EXCEPT !.op = "destroy", !.pc = "next",
                                  !.plan = ParseStopActions(DestroyPlan)]
             d2 == [NoCall EXCEPT !.op = "destroy", !.pc = "release"]
  <2>1. d1.pc = "next" /\ d2.pc = "release"
    BY DEF NoCall
  <2>2. Goto(t, d1) \/ Goto(t, d2)
    BY <1>10 DEF CallDestroy
  <2> HIDE DEF d1, d2
  <2>3. QED
    BY <1>2, <2>1, <2>2
<1>11. QED
  BY <1>4, <1>5, <1>6, <1>7, <1>8, <1>9, <1>10 DEF Begin

LEMMA EnvironmentContract ==
    ASSUME ContractInv, ContractInv', Environment
    PROVE  Contract!Next
<1>1. UNCHANGED <<call, status, freed, signals>>
  BY DEF Environment, ChildExits, ChildSignalled, ChildEnds, ForkedChildReturns, ChildClosesExit,
     ChildForks, DescendantExits, PidReused, DeadlineExpires, handleVars, childVars
<1>2. ChildLives
  BY DEF Environment, ChildExits, ChildSignalled, ChildEnds, ForkedChildReturns, ChildClosesExit,
     ChildForks, DescendantExits, PidReused, DeadlineExpires, childVars, ChildLives, Statuses, TypeInv, TypeOK, ContractInv
<1>3. Contract!Live /\ Contract!Doom /\ Contract!Learn
  BY <1>1, <1>2, LiveIs, DoomIs, LearnIs DEF StatusLearnt, ContractInv
<1>4. \A u \in Threads : Seen(call'[u]) = Seen(call[u])
  BY <1>1
<1>5. QED
  BY <1>1, <1>3, <1>4, SilentIs DEF ContractInv

LEMMA InitContract == Init => Contract!Init
<1>1. ASSUME Init, NEW t \in Threads
      PROVE  call[t].op = "none" /\ call[t].pc = "idle" /\ call[t].ret = 0 /\ call[t].event = "none"
  BY <1>1 DEF Init, NoCall
<1>2. STATUS_NOT_STARTED \notin {STATUS_IN_PROGRESS, STATUS_IN_CHILD}
  BY DEF STATUS_NOT_STARTED, STATUS_IN_PROGRESS, STATUS_IN_CHILD
<1>3. ASSUME Init
      PROVE  /\ freed = FALSE /\ code = 0 /\ child = "none" /\ status = STATUS_NOT_STARTED
             /\ \A t \in Threads : /\ call[t].op = "none" /\ call[t].pc = "idle"
                                  /\ call[t].ret = 0 /\ call[t].event = "none"
  BY <1>1, <1>3 DEF Init
<1>4. Init => ((SIGKILL \in signals) <=> FALSE)
  BY DEF Init
<1>5. Init => ((SIGKILL \in signals) = FALSE)
  BY <1>4
<1>6. QED
  BY <1>2, <1>3, <1>5 DEF Contract!Init

\* Every behaviour of the handle is one the documentation of the calls allows,
\* for callers that keep the operations that wait apart from all others, a child
\* started by exec and one that leaves the exit pipe alone.
THEOREM HandleImplementsContract ==
    ASSUME SerialCallers, StartApart, ~ForkMode, "closesExit" \notin Traits
    PROVE  Spec => ImplementsContract
<1>1. ASSUME ContractInv, ContractInv', [Next]_vars
      PROVE  [Contract!Next]_(Contract!vars)
  <2>1. CASE UNCHANGED vars
    BY <2>1 DEF vars, handleVars, childVars, Contract!vars
  <2>2. CASE Next
    BY <1>1, <2>2, BeginContract, StepContract, EnvironmentContract DEF Next
  <2>3. QED
    BY <1>1, <2>1, <2>2
<1>2. Spec => []ContractInv
  <2>1. /\ TypeInv /\ TruthInv /\ SerialInv /\ StopInv /\ ProcessInv /\ DestroyInv
        /\ DestroyEndsChild
        => ContractInv
    BY DEF ContractInv
  <2>2. QED
    BY <2>1, TypeInvariant, TruthInvariant, SerialInvariant, StopInvariant, ProcessInvariant,
       DestroyInvariant, DestroyStopsChild, PTL
<1>3. QED
  BY <1>1, <1>2, InitContract, PTL DEF Spec, ImplementsContract, Contract!Spec
=============================================================================
