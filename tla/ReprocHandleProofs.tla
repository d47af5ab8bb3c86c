------------------------- MODULE ReprocHandleProofs -------------------------
(***************************************************************************)
(* Theorems about ReprocHandle, for any number of threads, any child, any  *)
(* stop plans, with and without fork and interruptions.                    *)
(*                                                                         *)
(* The types hold whatever callers do (TypeCorrect).  The rest is proved   *)
(* for SerialCallers: callers that run an operation that waits (wait,      *)
(* stop, destroy) apart from every other operation on the handle.  Without *)
(* it signals may reach other processes (README, section 9).               *)
(***************************************************************************)
EXTENDS ReprocHandle, TLAPS

\* No operation that waits for the child overlaps another one.
SerialCallers ==
    \A a \in Waiters, b \in Ops \ {"start"} : {a, b} \notin Overlaps
-----------------------------------------------------------------------------
(***************************************************************************)
(* Types.                                                                  *)
(***************************************************************************)

\* A call past its third stop action is about to leave the loop, and what is
\* about to be assigned to process->status is an exit status.
GoodCalls == {c \in CallRecord :
    /\ c.i = 4 => c.pc \in {"next", "release"}
    /\ c.pc \in {"close", "assign"} => c.ret \in 0..255}

TypeInv == TypeOK /\ call \in [Threads -> GoodCalls]

LEMMA PcsAre ==
    /\ "idle" \in Pcs /\ "wait" \in Pcs /\ "poll" \in Pcs /\ "waitpid" \in Pcs
    /\ "close" \in Pcs /\ "assign" \in Pcs /\ "signal" \in Pcs /\ "kill" \in Pcs
    /\ "next" \in Pcs /\ "release" \in Pcs /\ "polling" \in Pcs
BY DEF Pcs

LEMMA ResultsAre ==
    /\ 0 \in Results /\ 1 \in Results
    /\ ENOENT \in Results /\ ESRCH \in Results /\ EINTR \in Results
    /\ ECHILD \in Results /\ EINVAL \in Results /\ EPIPE \in Results
    /\ ETIMEDOUT \in Results
    /\ 0..255 \subseteq Results
    /\ Results \subseteq Int
BY DEF Results, Errors, ENOENT, ESRCH, EINTR, ECHILD, EINVAL, EPIPE, ETIMEDOUT

LEMMA TimeoutsAre ==
    /\ "zero" \in Timeouts
    /\ \A a \in StopAction : a.timeout \in Timeouts \cup {"deadline", "remaining"}
    /\ \A dl \in {"none", "pending", "expired"}, timeout \in Timeouts :
         \A e \in Expiry(timeout, dl) : e \in Timeouts \cup {"deadline", "remaining"}
BY DEF Timeouts, StopAction, Expiry

LEMMA PlansAre ==
    /\ NoPlan \in [1..3 -> StopAction]
    /\ DestroyPlan \in [1..3 -> StopAction]
    /\ \A plan \in [1..3 -> StopAction] :
         ParseStopActions(plan) \in [1..3 -> StopAction]
BY DEF NoPlan, Noop, DestroyPlan, ParseStopActions, StopAction

LEMMA NoCallGood == NoCall \in GoodCalls
BY PcsAre, ResultsAre, TimeoutsAre, PlansAre DEF NoCall, GoodCalls, CallRecord

LEMMA ReturnedIs ==
    ASSUME NEW c \in CallRecord, NEW r \in Results
    PROVE  /\ Returned(c, r) \in GoodCalls
           /\ Returned(c, r).op = c.op /\ Returned(c, r).pc = "idle"
           /\ Returned(c, r).ret = r /\ Returned(c, r).plan = c.plan
           /\ Returned(c, r).event = c.event /\ Returned(c, r).i = 1
<1>1. "idle" \in Pcs /\ 1 \in 1..4 /\ "zero" \in Timeouts \cup {"deadline", "remaining"}
  BY PcsAre, TimeoutsAre
<1>2. Returned(c, r) \in CallRecord
  BY <1>1 DEF Returned, CallRecord
<1>3. /\ Returned(c, r).op = c.op /\ Returned(c, r).pc = "idle"
      /\ Returned(c, r).ret = r /\ Returned(c, r).plan = c.plan
      /\ Returned(c, r).event = c.event /\ Returned(c, r).i = 1
  BY DEF Returned, CallRecord
<1>4. QED
  BY <1>2, <1>3 DEF GoodCalls

LEMMA StopEndsIs ==
    ASSUME NEW c \in CallRecord, NEW r \in Results
    PROVE  /\ StopEnds(c, r) \in GoodCalls
           /\ StopEnds(c, r).op = c.op /\ StopEnds(c, r).ret = r
           /\ StopEnds(c, r).pc = (IF c.op = "destroy" THEN "release" ELSE "idle")
<1>1. CASE c.op = "destroy"
  <2>1. StopEnds(c, r) = [c EXCEPT !.pc = "release", !.ret = r]
    BY <1>1 DEF StopEnds
  <2>2. [c EXCEPT !.pc = "release", !.ret = r] \in CallRecord
    BY PcsAre DEF CallRecord
  <2>3. QED
    BY <1>1, <2>1, <2>2 DEF CallRecord, GoodCalls
<1>2. CASE c.op # "destroy"
  BY <1>2, ReturnedIs DEF StopEnds
<1>3. QED
  BY <1>1, <1>2

LEMMA AfterWaitIs ==
    ASSUME NEW c \in CallRecord, NEW r \in Results, c.i # 4
    PROVE  /\ AfterWait(c, r) \in GoodCalls
           /\ AfterWait(c, r).op = c.op /\ AfterWait(c, r).ret = r
           /\ AfterWait(c, r).pc =
                IF c.op = "wait" THEN "idle"
                ELSE IF r = ETIMEDOUT THEN "next"
                ELSE IF c.op = "destroy" THEN "release" ELSE "idle"
<1>1. CASE c.op = "wait" \/ r # ETIMEDOUT
  BY <1>1, ReturnedIs, StopEndsIs DEF AfterWait
<1>2. CASE c.op # "wait" /\ r = ETIMEDOUT
  <2>1. AfterWait(c, r) = [c EXCEPT !.pc = "next", !.i = c.i + 1, !.ret = r]
    BY <1>2 DEF AfterWait
  <2>2. c.i \in 1..4 /\ c.i + 1 \in 1..4
    BY DEF CallRecord
  <2>3. [c EXCEPT !.pc = "next", !.i = c.i + 1, !.ret = r] \in CallRecord
    BY <2>2, PcsAre DEF CallRecord
  <2>4. QED
    BY <1>2, <2>1, <2>3 DEF CallRecord, GoodCalls
<1>3. QED
  BY <1>1, <1>2

LEMMA AfterSignalIs ==
    ASSUME NEW c \in CallRecord, NEW r \in Results, c.i # 4
    PROVE  /\ AfterSignal(c, r) \in GoodCalls
           /\ AfterSignal(c, r).op = c.op
           /\ AfterSignal(c, r).pc =
                IF c.op \in {"terminate", "kill"} THEN "idle"
                ELSE IF r >= 0 THEN "wait"
                ELSE IF c.op = "destroy" THEN "release" ELSE "idle"
           /\ c.op \in {"terminate", "kill"} => AfterSignal(c, r).ret = r
<1> r \in Int
  BY ResultsAre
<1>1. CASE c.op \in {"terminate", "kill"}
  <2>1. AfterSignal(c, r) = Returned(c, r)
    BY <1>1 DEF AfterSignal
  <2>2. QED
    BY <1>1, <2>1, ReturnedIs
<1>2. CASE c.op \notin {"terminate", "kill"} /\ r < 0
  <2>1. AfterSignal(c, r) = StopEnds(c, r) /\ ~(r >= 0)
    BY <1>2 DEF AfterSignal
  <2>2. QED
    BY <1>2, <2>1, StopEndsIs
<1>3. CASE c.op \notin {"terminate", "kill"} /\ r >= 0
  <2> DEFINE timeout == c.plan[c.i].timeout
             d == [c EXCEPT !.pc = "wait", !.timeout = timeout]
  <2>1. timeout \in Timeouts \cup {"deadline", "remaining"}
    <3>1. c.i \in 1..3 /\ c.plan \in [1..3 -> StopAction]
      BY DEF CallRecord
    <3>2. QED
      BY <3>1, TimeoutsAre
  <2>2. AfterSignal(c, r) = d
    BY <1>3 DEF AfterSignal
  <2>3. "wait" \in Pcs \ {"close", "assign"}
    BY PcsAre
  <2>4. d \in GoodCalls /\ d.op = c.op /\ d.pc = "wait"
    <3> HIDE DEF timeout
    <3>1. d \in CallRecord
      BY <2>1, <2>3 DEF CallRecord
    <3>2. d.op = c.op /\ d.pc = "wait" /\ d.i = c.i
      BY DEF CallRecord
    <3>3. QED
      BY <3>1, <3>2 DEF GoodCalls
  <2>5. QED
    BY <1>3, <2>2, <2>4
<1>4. r < 0 \/ r >= 0
  OBVIOUS
<1>5. QED
  BY <1>1, <1>2, <1>3, <1>4

LEMMA IsGood ==
    ASSUME NEW d \in CallRecord, d.pc \notin {"close", "assign"}, d.i # 4
    PROVE  d \in GoodCalls
BY DEF GoodCalls

LEMMA CallsAre ==
    ASSUME TypeInv, NEW t \in Threads
    PROVE  /\ call[t] \in GoodCalls /\ call[t] \in CallRecord
           /\ call[t].i \in 1..4 /\ call[t].plan \in [1..3 -> StopAction]
           /\ call[t].pc \notin {"next", "release"} => call[t].i \in 1..3 /\ call[t].i # 4
           /\ call[t].ret \in Results
<1>1. call[t] \in GoodCalls
  BY DEF TypeInv
<1>2. QED
  BY <1>1 DEF GoodCalls, CallRecord

LEMMA SetCallType ==
    ASSUME TypeInv, NEW t \in Threads, NEW d \in GoodCalls, SetCall(t, d)
    PROVE  /\ call' \in [Threads -> GoodCalls]
           /\ call' \in [Threads -> CallRecord]
           /\ call'[t] = d
           /\ \A u \in Threads \ {t} : call'[u] = call[u]
<1>1. call' \in [Threads -> GoodCalls]
  BY DEF TypeInv, SetCall
<1>2. GoodCalls \subseteq CallRecord
  BY DEF GoodCalls
<1>3. QED
  BY <1>1, <1>2 DEF SetCall, TypeInv

LEMMA GotoType ==
    ASSUME TypeInv, NEW t \in Threads, NEW d \in GoodCalls, Goto(t, d)
    PROVE  TypeInv'
BY SetCallType DEF Goto, TypeInv, TypeOK, handleVars, childVars
-----------------------------------------------------------------------------
LEMMA BeginType ==
    ASSUME TypeInv, NEW t \in Threads, Begin(t)
    PROVE  TypeInv'
<1> USE PcsAre, ResultsAre, TimeoutsAre, PlansAre
<1>1. ASSUME NEW r \in Results
      PROVE  [NoCall EXCEPT !.op = "start", !.ret = r] \in GoodCalls
  <2> DEFINE d == [NoCall EXCEPT !.op = "start", !.ret = r]
  <2>1. d \in CallRecord
    BY <1>1, NoCallGood DEF NoCall, CallRecord, Ops, GoodCalls
  <2>2. d.pc = "idle" /\ d.i = 1
    BY DEF NoCall
  <2>3. d \in GoodCalls
    <3> HIDE DEF d
    <3>1. QED
      BY <2>1, <2>2, IsGood
  <2>4. QED
    BY <2>3
<1>2. CASE StartError(t)
  <2>1. PICK r \in Results : Goto(t, [NoCall EXCEPT !.op = "start", !.ret = r])
    BY <1>2 DEF StartError, StartReturns, Goto
  <2>2. QED
    BY <2>1, <1>1, GotoType
<1>3. CASE StartParent(t)
  <2>1. call' \in [Threads -> GoodCalls] /\ call' \in [Threads -> CallRecord]
    BY <1>3, <1>1, SetCallType DEF StartParent, StartReturns
  <2>2. stop' \in [1..3 -> StopAction]
    BY <1>3, HandleAssumption DEF StartParent
  <2>3. QED
    BY <1>3, <2>1, <2>2 DEF StartParent, TypeInv, TypeOK, ExitWriters
<1>4. CASE StartInChild(t)
  <2>1. call' \in [Threads -> GoodCalls] /\ call' \in [Threads -> CallRecord]
    BY <1>4, <1>1, SetCallType DEF StartInChild, StartReturns
  <2>2. QED
    BY <1>4, <2>1 DEF StartInChild, TypeInv, TypeOK, childVars
<1>5. ASSUME NEW timeout \in Timeouts \cup {"deadline"}, CallWait(t, timeout)
      PROVE  TypeInv'
  <2> DEFINE d == [NoCall EXCEPT !.op = "wait", !.pc = "wait", !.timeout = timeout]
  <2>1. d \in CallRecord
    BY NoCallGood DEF NoCall, CallRecord, Ops, GoodCalls
  <2>2. d.pc = "wait" /\ d.i = 1
    BY DEF NoCall
  <2>3. d \in GoodCalls
    <3> HIDE DEF d
    <3>1. QED
      BY <2>1, <2>2, IsGood
  <2>4. QED
    BY <1>5, <2>3, GotoType DEF CallWait
<1>6. ASSUME NEW op \in {"terminate", "kill"}, CallSignal(t, op)
      PROVE  TypeInv'
  <2> DEFINE d == [NoCall EXCEPT !.op = op, !.pc = "signal"]
  <2>1. d \in CallRecord
    BY NoCallGood DEF NoCall, CallRecord, Ops, GoodCalls
  <2>2. d.pc = "signal" /\ d.i = 1
    BY DEF NoCall
  <2>3. d \in GoodCalls
    <3> HIDE DEF d
    <3>1. QED
      BY <2>1, <2>2, IsGood
  <2>4. QED
    BY <1>6, <2>3, GotoType DEF CallSignal
<1>7. ASSUME NEW plan \in Plans, CallStop(t, plan)
      PROVE  TypeInv'
  <2> DEFINE c == [NoCall EXCEPT !.op = "stop", !.plan = ParseStopActions(plan)]
             d == IF NotStarted THEN Returned(c, EINVAL) ELSE [c EXCEPT !.pc = "next"]
  <2>1. ParseStopActions(plan) \in [1..3 -> StopAction]
    BY HandleAssumption
  <2>2. c \in CallRecord
    BY <2>1, NoCallGood DEF NoCall, CallRecord, Ops, GoodCalls
  <2>3. [c EXCEPT !.pc = "next"] \in CallRecord
    <3> HIDE DEF c
    <3>1. QED
      BY <2>2 DEF CallRecord
  <2>4. [c EXCEPT !.pc = "next"] \in GoodCalls
    BY <2>2, <2>3 DEF CallRecord, GoodCalls
  <2>5. d \in GoodCalls
    BY <2>2, <2>4, ReturnedIs
  <2>6. QED
    BY <1>7, <2>5, GotoType DEF CallStop
<1>8. ASSUME NEW timeout \in Timeouts, CallPoll(t, timeout)
      PROVE  TypeInv'
  <2> DEFINE c == [NoCall EXCEPT !.op = "poll"]
             d1 == [c EXCEPT !.ret = 1, !.event = "deadline"]
             d2 == [c EXCEPT !.ret = EPIPE]
             d3(first) == [c EXCEPT !.pc = "polling", !.timeout = first]
  <2>1. PICK first \in Expiry(timeout, deadline) :
          Goto(t, IF first = "deadline" THEN d1 ELSE IF NoValidPipe THEN d2 ELSE d3(first))
    BY <1>8 DEF CallPoll
  <2>2. first \in Timeouts \cup {"deadline", "remaining"}
    BY <2>1 DEF TypeInv, TypeOK
  <2>3. c \in CallRecord /\ c.pc = "idle" /\ c.i = 1
    BY NoCallGood DEF NoCall, CallRecord, Ops, GoodCalls
  <2>4. d1 \in CallRecord /\ d2 \in CallRecord /\ d3(first) \in CallRecord
    <3> HIDE DEF c
    <3>1. d1 \in CallRecord
      BY <2>3 DEF CallRecord
    <3>2. d2 \in CallRecord
      BY <2>3 DEF CallRecord
    <3>3. d3(first) \in CallRecord
      BY <2>2, <2>3 DEF CallRecord
    <3>4. QED
      BY <3>1, <3>2, <3>3
  <2>5. /\ d1.pc = "idle" /\ d1.i = 1 /\ d2.pc = "idle" /\ d2.i = 1
        /\ d3(first).pc = "polling" /\ d3(first).i = 1
    BY DEF NoCall
  <2>6. Goto(t, d1) \/ Goto(t, d2) \/ Goto(t, d3(first))
    BY <2>1
  <2>7. QED
    <3> HIDE DEF d1, d2, d3
    <3>1. d1 \in GoodCalls /\ d2 \in GoodCalls /\ d3(first) \in GoodCalls
      BY <2>4, <2>5, IsGood
    <3>2. QED
      BY <2>6, <3>1, GotoType
<1>9. CASE CallDestroy(t)
  <2> DEFINE c == [NoCall EXCEPT !.op = "destroy", !.pc = "next",
                                 !.plan = ParseStopActions(DestroyPlan)]
             d == [NoCall EXCEPT !.op = "destroy", !.pc = "release"]
  <2>1. c \in CallRecord /\ d \in CallRecord
    BY NoCallGood DEF NoCall, CallRecord, Ops, GoodCalls
  <2>2. c \in GoodCalls /\ d \in GoodCalls
    BY <2>1 DEF NoCall, GoodCalls
  <2>3. Goto(t, c) \/ Goto(t, d)
    BY <1>9 DEF CallDestroy
  <2>4. QED
    <3> HIDE DEF c, d
    <3>1. QED
      BY <2>2, <2>3, GotoType
<1>10. QED
  BY <1>2, <1>3, <1>4, <1>5, <1>6, <1>7, <1>8, <1>9 DEF Begin

LEMMA StepType ==
    ASSUME TypeInv, NEW t \in Threads, Step(t) \/ BrokenOff(t)
    PROVE  TypeInv'
<1> USE PcsAre, ResultsAre
<1> DEFINE c == call[t]
<1>1. /\ c \in GoodCalls /\ c \in CallRecord
      /\ c.i \in 1..4 /\ c.plan \in [1..3 -> StopAction] /\ c.ret \in Results
      /\ c.pc \notin {"next", "release"} => c.i \in 1..3 /\ c.i # 4
  BY CallsAre
<1>2. \A r \in Results : c.pc \notin {"next", "release"} =>
         AfterWait(c, r) \in GoodCalls /\ AfterSignal(c, r) \in GoodCalls
  BY <1>1, AfterWaitIs, AfterSignalIs
<1>3. \A r \in Results : Returned(c, r) \in GoodCalls /\ StopEnds(c, r) \in GoodCalls
  BY <1>1, ReturnedIs, StopEndsIs
<1>4. status \in Int /\ (status >= 0 => status \in Results) /\ code \in 0..255
  BY DEF TypeInv, TypeOK, STATUS_NOT_STARTED, STATUS_IN_PROGRESS, STATUS_IN_CHILD
<1>5. CASE WaitEnter(t)
  <2>1. ASSUME NEW timeout \in WaitTimeouts(c.timeout), c.pc = "wait"
        PROVE  [c EXCEPT !.pc = "poll", !.timeout = timeout] \in GoodCalls
    <3> DEFINE d == [c EXCEPT !.pc = "poll", !.timeout = timeout]
    <3>1. timeout \in Timeouts \cup {"deadline", "remaining"}
      <4>1. c.timeout \in Timeouts \cup {"deadline", "remaining"}
        BY <1>1 DEF CallRecord
      <4>2. "zero" \in Timeouts /\ "infinite" \in Timeouts
            /\ deadline \in {"none", "pending", "expired"}
        BY DEF Timeouts, TypeInv, TypeOK
      <4>3. QED
        BY <2>1, <4>1, <4>2, TimeoutsAre DEF WaitTimeouts
    <3> HIDE DEF c
    <3>2. d \in CallRecord
      BY <1>1, <3>1 DEF CallRecord
    <3>3. d.pc = "poll" /\ d.i # 4
      BY <1>1, <2>1 DEF CallRecord
    <3>4. d \in GoodCalls
      <4> HIDE DEF d
      <4>1. QED
        BY <3>2, <3>3, IsGood
    <3>5. QED
      BY <3>4
  <2>2. PICK d \in GoodCalls : Goto(t, d)
    BY <1>2, <1>4, <1>5, <2>1 DEF WaitEnter, Exited
  <2>3. QED
    BY <2>2, GotoType
<1>6. CASE WaitHangUp(t)
  <2> DEFINE d == [c EXCEPT !.pc = "waitpid", !.timeout = "zero"]
  <2>1. d \in CallRecord
    <3> HIDE DEF c
    <3>1. QED
      BY <1>1, TimeoutsAre DEF CallRecord
  <2>2. d.pc = "waitpid" /\ d.i # 4
    BY <1>1, <1>6 DEF WaitHangUp, CallRecord
  <2>3. Goto(t, d)
    BY <1>6 DEF WaitHangUp
  <2>4. QED
    <3> HIDE DEF d
    <3>1. QED
      BY <2>1, <2>2, <2>3, IsGood, GotoType
<1>7. CASE WaitTimesOut(t) \/ WaitNoChild(t) \/ WaitInterrupted(t)
  <2>1. PICK d \in GoodCalls : Goto(t, d)
    BY <1>2, <1>7 DEF WaitTimesOut, WaitNoChild, WaitInterrupted
  <2>2. QED
    BY <2>1, GotoType
<1>8. CASE WaitReaps(t)
  <2> DEFINE d == [c EXCEPT !.pc = "close", !.ret = code]
  <2>1. d \in CallRecord
    <3> HIDE DEF c
    <3>1. QED
      BY <1>1, <1>4 DEF CallRecord
  <2>2. d.pc = "close" /\ d.i # 4 /\ d.ret \in 0..255
    BY <1>1, <1>4, <1>8 DEF WaitReaps, CallRecord
  <2>3. SetCall(t, d)
    BY <1>8 DEF WaitReaps
  <2>4. call' \in [Threads -> GoodCalls] /\ call' \in [Threads -> CallRecord]
    <3> HIDE DEF d
    <3>1. d \in GoodCalls
      BY <2>1, <2>2 DEF GoodCalls
    <3>2. QED
      BY <2>3, <3>1, SetCallType
  <2>5. QED
    BY <1>8, <2>4 DEF WaitReaps, TypeInv, TypeOK, handleVars
<1>9. CASE WaitClosesExit(t)
  <2> DEFINE d == [c EXCEPT !.pc = "assign"]
  <2>1. d \in CallRecord
    <3> HIDE DEF c
    <3>1. QED
      BY <1>1 DEF CallRecord
  <2>2. d.pc = "assign" /\ d.i # 4 /\ d.ret \in 0..255
    BY <1>1, <1>9 DEF WaitClosesExit, CallRecord, GoodCalls
  <2>3. SetCall(t, d)
    BY <1>9 DEF WaitClosesExit
  <2>4. call' \in [Threads -> GoodCalls] /\ call' \in [Threads -> CallRecord]
    <3> HIDE DEF d
    <3>1. d \in GoodCalls
      BY <2>1, <2>2 DEF GoodCalls
    <3>2. QED
      BY <2>3, <3>1, SetCallType
  <2>5. QED
    BY <1>9, <2>4 DEF WaitClosesExit, TypeInv, TypeOK, childVars
<1>10. CASE WaitAssigns(t)
  <2>1. c.ret \in 0..255
    BY <1>1, <1>10 DEF WaitAssigns, GoodCalls
  <2>2. PICK d \in GoodCalls : SetCall(t, d)
    BY <1>1, <1>2, <1>10 DEF WaitAssigns
  <2>3. call' \in [Threads -> GoodCalls] /\ call' \in [Threads -> CallRecord]
    BY <2>2, SetCallType
  <2>4. QED
    BY <1>10, <2>1, <2>3 DEF WaitAssigns, TypeInv, TypeOK, childVars
<1>11. CASE SignalEnter(t)
  <2>1. ASSUME c.pc = "signal"
        PROVE  [c EXCEPT !.pc = "kill"] \in GoodCalls
    <3> DEFINE d == [c EXCEPT !.pc = "kill"]
    <3>1. d \in CallRecord
      <4> HIDE DEF c
      <4>1. QED
        BY <1>1 DEF CallRecord
    <3>2. d.pc = "kill" /\ d.i # 4
      BY <1>1, <2>1 DEF CallRecord
    <3>3. d \in GoodCalls
      <4> HIDE DEF d
      <4>1. QED
        BY <3>1, <3>2, IsGood
    <3>4. QED
      BY <3>3
  <2>2. PICK d \in GoodCalls : Goto(t, d)
    BY <1>2, <1>11, <2>1 DEF SignalEnter
  <2>3. QED
    BY <2>2, GotoType
<1>12. CASE SendSignal(t)
  <2>1. PICK d \in GoodCalls : SetCall(t, d)
    BY <1>2, <1>12 DEF SendSignal
  <2>2. call' \in [Threads -> GoodCalls] /\ call' \in [Threads -> CallRecord]
    BY <2>1, SetCallType
  <2>3. SignalOf(call[t]) \in {SIGTERM, SIGKILL}
    BY DEF SignalOf
  <2>4. signals' \subseteq {SIGTERM, SIGKILL}
    BY <1>12, <2>3 DEF SendSignal, TypeInv, TypeOK
  <2>5. stray' \in BOOLEAN
    BY <1>12 DEF SendSignal, TypeInv, TypeOK
  <2>6. UNCHANGED <<handleVars, child, code, pid, writers>>
    BY <1>12 DEF SendSignal
  <2>7. QED
    BY <2>2, <2>4, <2>5, <2>6 DEF TypeInv, TypeOK, handleVars
<1>13. CASE StopLoop(t)
  <2>1. ASSUME c.i \in 1..3
        PROVE  [c EXCEPT !.i = c.i + 1, !.ret = 0] \in CallRecord
    <3> HIDE DEF c
    <3>1. c.i + 1 \in 1..4
      BY <2>1
    <3>2. QED
      BY <1>1, <3>1 DEF CallRecord
  <2>2. ASSUME c.i \in 1..3
        PROVE  [c EXCEPT !.pc = "wait", !.timeout = c.plan[c.i].timeout] \in CallRecord
    <3>1. c.plan[c.i].timeout \in Timeouts \cup {"deadline", "remaining"}
      BY <1>1, <2>2, TimeoutsAre
    <3> HIDE DEF c
    <3>2. QED
      BY <1>1, <3>1 DEF CallRecord
  <2>3. [c EXCEPT !.pc = "signal"] \in CallRecord
    <3> HIDE DEF c
    <3>1. QED
      BY <1>1 DEF CallRecord
  <2> DEFINE d1 == [c EXCEPT !.i = c.i + 1, !.ret = 0]
             d2 == [c EXCEPT !.pc = "wait", !.timeout = c.plan[c.i].timeout]
             d3 == [c EXCEPT !.pc = "signal"]
  <2>4. c.pc = "next"
    BY <1>13 DEF StopLoop
  <2>5. d1.pc = "next" /\ d2.pc = "wait" /\ d2.i = c.i /\ d3.pc = "signal" /\ d3.i = c.i
    BY <1>1, <2>4 DEF CallRecord
  <2>6. \/ Goto(t, StopEnds(c, c.ret))
        \/ c.i \in 1..3 /\ (Goto(t, d1) \/ Goto(t, d2) \/ Goto(t, d3))
    BY <1>1, <1>13 DEF StopLoop
  <2>7. c.i \in 1..3 => d1 \in GoodCalls /\ d2 \in GoodCalls /\ d3 \in GoodCalls
    <3>1. c.i \in 1..3 => d1 \in CallRecord /\ d2 \in CallRecord /\ d3 \in CallRecord
      BY <2>1, <2>2, <2>3
    <3> HIDE DEF d1, d2, d3
    <3>2. QED
      BY <2>5, <3>1 DEF GoodCalls
  <2>8. StopEnds(c, c.ret) \in GoodCalls
    BY <1>1, <1>3
  <2>9. QED
    <3> HIDE DEF d1, d2, d3
    <3>1. QED
      BY <2>6, <2>7, <2>8, GotoType
<1>14. CASE DestroyReleases(t)
  <2>1. PICK d \in GoodCalls : SetCall(t, d)
    BY <1>1, <1>3, <1>14 DEF DestroyReleases
  <2>2. call' \in [Threads -> GoodCalls] /\ call' \in [Threads -> CallRecord]
    BY <2>1, SetCallType
  <2>3. QED
    BY <1>14, <2>2 DEF DestroyReleases, TypeInv, TypeOK, childVars
<1>15. CASE PollExit(t) \/ PollTimesOut(t) \/ PollInterrupted(t)
  <2>1. ASSUME NEW r \in Results, NEW event \in {"none", "exit", "deadline"}
        PROVE  [Returned(c, r) EXCEPT !.event = event] \in GoodCalls
    <3> DEFINE e == Returned(c, r)
               d == [e EXCEPT !.event = event]
    <3>1. e \in CallRecord /\ e.pc = "idle" /\ e.i = 1
      <4>1. e \in GoodCalls
        BY <1>3
      <4>2. e.pc = "idle" /\ e.i = 1
        BY <1>1, ReturnedIs
      <4> HIDE DEF e
      <4>3. QED
        BY <4>1, <4>2 DEF GoodCalls
    <3>2. d \in CallRecord /\ d.pc = "idle" /\ d.i = 1
      <4> HIDE DEF e
      <4>1. d \in CallRecord
        BY <3>1 DEF CallRecord
      <4>2. d.pc = "idle" /\ d.i = 1
        BY <3>1 DEF CallRecord
      <4>3. QED
        BY <4>1, <4>2
    <3>3. d \in GoodCalls
      <4> HIDE DEF d
      <4>1. QED
        BY <3>2, IsGood
    <3>4. QED
      BY <3>3
  <2>2. PICK r \in Results, event \in {"none", "exit", "deadline"} : PollReturns(t, r, event)
    BY <1>15 DEF PollExit, PollTimesOut, PollInterrupted
  <2>3. QED
    BY <2>1, <2>2, GotoType DEF PollReturns
<1>16. QED
  BY <1>5, <1>6, <1>7, <1>8, <1>9, <1>10, <1>11, <1>12, <1>13, <1>14, <1>15
  DEF Step, BrokenOff

LEMMA EnvironmentType ==
    ASSUME TypeInv, Environment
    PROVE  TypeInv'
<1> USE DEF TypeInv, TypeOK, handleVars, childVars
<1>1. ASSUME NEW k \in 0..255, ChildEnds(k)
      PROVE  TypeInv'
  BY <1>1 DEF ChildEnds
<1>2. CASE ChildExits
  BY <1>1, <1>2, HandleAssumption DEF ChildExits
<1>3. CASE ChildSignalled
  <2>1. \A sig \in signals : SIGOFFSET + sig \in 0..255
    BY DEF SIGOFFSET, SIGTERM, SIGKILL
  <2>2. QED
    BY <1>1, <1>3, <2>1 DEF ChildSignalled
<1>4. CASE ForkedChildReturns \/ ChildClosesExit \/ ChildForks \/ DescendantExits
  <2>1. /\ writers' \subseteq {"child", "descendant"}
        /\ UNCHANGED <<handleVars, call, child, code, pid, signals, stray>>
    BY <1>4 DEF ForkedChildReturns, ChildClosesExit, ChildForks, DescendantExits
  <2>2. QED
    BY <2>1
<1>5. CASE PidReused
  BY <1>5 DEF PidReused
<1>6. CASE DeadlineExpires
  BY <1>6 DEF DeadlineExpires
<1>7. QED
  BY <1>2, <1>3, <1>4, <1>5, <1>6 DEF Environment

LEMMA InitType == Init => TypeInv
<1>1. NoCall \in GoodCalls /\ NoCall \in CallRecord
  BY NoCallGood DEF GoodCalls
<1>2. ASSUME Init
      PROVE  call \in [Threads -> GoodCalls] /\ call \in [Threads -> CallRecord]
  BY <1>1, <1>2 DEF Init
<1>3. ASSUME Init
      PROVE  stop \in [1..3 -> StopAction]
  BY <1>3, PlansAre DEF Init
<1>4. ASSUME Init
      PROVE  TypeOK
  <2>1. status \in {STATUS_NOT_STARTED, STATUS_IN_PROGRESS, STATUS_IN_CHILD} \cup 0..255
    BY <1>4 DEF Init
  <2>2. code \in 0..255
    BY <1>4 DEF Init
  <2>3. writers \subseteq {"child", "descendant"}
    BY <1>4 DEF Init
  <2>4. /\ exitPipe \in BOOLEAN /\ freed \in BOOLEAN
        /\ signals \subseteq {SIGTERM, SIGKILL} /\ stray \in BOOLEAN
    BY <1>4 DEF Init
  <2>5. /\ deadline \in {"none", "pending", "expired"}
        /\ child \in {"none", "running", "zombie", "reaped"}
        /\ pid \in {"free", "child", "other"}
    BY <1>4 DEF Init
  <2>6. QED
    BY <1>2, <1>3, <1>4, <2>1, <2>2, <2>3, <2>4, <2>5 DEF TypeOK
<1>5. QED
  BY <1>2, <1>4 DEF TypeInv

LEMMA TypeNext ==
    ASSUME TypeInv, [Next]_vars
    PROVE  TypeInv'
<1>1. CASE UNCHANGED vars
  BY <1>1 DEF vars, handleVars, childVars, TypeInv, TypeOK
<1>2. QED
  BY <1>1, BeginType, StepType, EnvironmentType DEF Next

LEMMA TypeInvariant == Spec => []TypeInv
<1>1. TypeInv /\ [Next]_vars => TypeInv'
  BY TypeNext
<1>2. QED
  BY <1>1, InitType, PTL DEF Spec

\* Types are kept by every behaviour, with no assumption on the callers.
THEOREM TypeCorrect == Spec => []TypeOK
<1>1. TypeInv => TypeOK
  BY DEF TypeInv
<1>2. QED
  BY <1>1, TypeInvariant, PTL
-----------------------------------------------------------------------------
(***************************************************************************)
(* Safety under SerialCallers.  SerialInv says which operation can be at   *)
(* which statement and what it can count on there; a thread that waits is  *)
(* alone in the library, so nothing is reaped under a thread that is about *)
(* to signal, and nobody polls a pipe that is being closed.                *)
(***************************************************************************)

\* A thread in an operation that waits is the only one in the library.
LEMMA Alone ==
    ASSUME SerialCallers, SerialInv, NEW t \in Threads, NEW u \in Threads,
           Busy(t), Busy(u), call[t].op \in Waiters
    PROVE  t = u
BY DEF SerialCallers, SerialInv, CallOK, Busy

\* A step that changes nothing but the call of one thread.
LEMMA GotoInv ==
    ASSUME TypeInv, SerialInv, NEW t \in Threads, NEW d, Goto(t, d), CallOK(d),
           d.pc # "idle" => \/ Busy(t) /\ d.op = call[t].op
                            \/ MayCall(t, d.op),
           call[t].pc \notin {"close", "assign"}
    PROVE  SerialInv'
<1>1. /\ call'[t] = d
      /\ \A u \in Threads \ {t} : call'[u] = call[u]
  BY DEF Goto, SetCall, TypeInv, TypeOK
<1>2. UNCHANGED <<handleVars, childVars, stray>>
  BY DEF Goto
<1>3. \A u \in Threads : CallOK(call[u])'
  BY <1>1, <1>2 DEF SerialInv, CallOK, Doomed, handleVars, childVars
<1>4. ASSUME NEW u \in Threads, NEW v \in Threads, u # v, Busy(u)', Busy(v)'
      PROVE  {call'[u].op, call'[v].op} \in Overlaps
  <2>1. CASE u # t /\ v # t
    BY <1>1, <1>4, <2>1 DEF SerialInv, Busy
  <2>2. CASE u = t
    BY <1>1, <1>4, <2>2 DEF SerialInv, Busy, MayCall
  <2>3. CASE v = t
    <3>1. {call'[v].op, call'[u].op} \in Overlaps
      BY <1>1, <1>4, <2>3 DEF SerialInv, Busy, MayCall
    <3>2. {call'[v].op, call'[u].op} = {call'[u].op, call'[v].op}
      OBVIOUS
    <3>3. QED
      BY <3>1, <3>2
  <2>4. QED
    BY <2>1, <2>2, <2>3
<1>5. ChildOK'
  <2>1. \A u \in Threads : call[u].pc \in {"close", "assign"} => call'[u].pc = call[u].pc
    BY <1>1
  <2>2. freed => d.pc = "idle"
    BY DEF SerialInv, ChildOK, MayCall
  <2>3. ASSUME freed, NEW u \in Threads
        PROVE  call'[u].pc = "idle"
    BY <1>1, <2>2, <2>3 DEF SerialInv, ChildOK, Busy
  <2>4. QED
    BY <1>2, <2>1, <2>3 DEF SerialInv, ChildOK, Busy, Reaping, handleVars, childVars
<1>6. QED
  BY <1>3, <1>4, <1>5 DEF SerialInv

LEMMA BeginInv ==
    ASSUME TypeInv, SerialInv, NEW t \in Threads, Begin(t)
    PROVE  SerialInv'
<1>1. ~Busy(t) /\ ~freed /\ call[t].pc \notin {"close", "assign"}
  BY DEF Begin, StartError, StartParent, StartInChild, CallWait, CallSignal, CallStop,
         CallPoll, CallDestroy, MayCall, Busy
<1>2. CASE StartError(t)
  <2>1. PICK r \in {ENOENT, EINVAL} : Goto(t, [NoCall EXCEPT !.op = "start", !.ret = r])
    BY <1>2 DEF StartError, StartReturns, Goto
  <2> DEFINE d == [NoCall EXCEPT !.op = "start", !.ret = r]
  <2>2. d.pc = "idle" /\ d.op = "start"
    BY DEF NoCall
  <2>3. QED
    <3> HIDE DEF d
    <3>1. CallOK(d)
      BY <2>2 DEF CallOK
    <3>2. QED
      BY <1>1, <2>1, <2>2, <3>1, GotoInv DEF d
<1>3. CASE StartParent(t) \/ StartInChild(t)
  <2> DEFINE d(r) == [NoCall EXCEPT !.op = "start", !.ret = r]
  <2>1. \A r : d(r).pc = "idle" /\ d(r).op = "start"
    BY DEF NoCall
  <2>2. PICK r : call' = [call EXCEPT ![t] = d(r)]
    BY <1>3 DEF StartParent, StartInChild, StartReturns, SetCall
  <2>3. /\ call'[t].pc = "idle" /\ call'[t].op = "start"
        /\ \A u \in Threads \ {t} : call'[u] = call[u]
    <3> HIDE DEF d
    <3>1. QED
      BY <2>1, <2>2 DEF TypeInv, TypeOK
  <2>4. status = STATUS_NOT_STARTED /\ child = "none"
    BY <1>3 DEF StartParent, StartInChild, Startable, SerialInv, ChildOK
  <2>5. \A u \in Threads : CallOK(call[u])'
    <3>1. ASSUME NEW u \in Threads \ {t}
          PROVE  /\ call[u].pc \notin {"poll", "waitpid", "close", "assign", "kill"}
                 /\ ~(call[u].pc = "idle" /\ call[u].op = "wait" /\ call[u].ret >= 0)
                 /\ ~(call[u].pc = "idle" /\ call[u].op = "kill" /\ call[u].ret = 0)
                 /\ CallOK(call[u])
                 /\ call[u].pc = "polling" => exitPipe
      BY <2>4 DEF SerialInv, CallOK, ChildOK, Doomed, STATUS_NOT_STARTED, STATUS_IN_PROGRESS
    <3>2. ASSUME NEW u \in Threads \ {t}
          PROVE  CallOK(call[u])'
      <4>1. call'[u] = call[u] /\ (exitPipe => exitPipe')
        BY <2>3, <1>3 DEF StartParent, StartInChild
      <4>2. QED
        BY <3>1, <4>1 DEF CallOK
    <3>3. CallOK(call[t])'
      BY <2>3 DEF CallOK
    <3>4. QED
      BY <3>2, <3>3
  <2>6. \A u, v \in Threads : u # v /\ Busy(u)' /\ Busy(v)' => {call'[u].op, call'[v].op} \in Overlaps
    BY <2>3 DEF SerialInv, Busy
  <2>7. ChildOK'
    BY <1>1, <1>3, <2>3, <2>4 DEF StartParent, StartInChild, SerialInv, ChildOK, childVars,
       STATUS_NOT_STARTED, STATUS_IN_PROGRESS, STATUS_IN_CHILD
  <2>8. QED
    BY <2>5, <2>6, <2>7 DEF SerialInv
<1>4. ASSUME NEW timeout, CallWait(t, timeout)
      PROVE  SerialInv'
  <2> DEFINE d == [NoCall EXCEPT !.op = "wait", !.pc = "wait", !.timeout = timeout]
  <2>1. d.pc = "wait" /\ d.op = "wait"
    BY DEF NoCall
  <2>2. Goto(t, d) /\ MayCall(t, "wait")
    BY <1>4 DEF CallWait
  <2>3. QED
    <3> HIDE DEF d
    <3>1. CallOK(d)
      BY <2>1 DEF CallOK, Ops, Waiters
    <3>2. QED
      BY <1>1, <2>1, <2>2, <3>1, GotoInv
<1>5. ASSUME NEW op \in {"terminate", "kill"}, CallSignal(t, op)
      PROVE  SerialInv'
  <2> DEFINE d == [NoCall EXCEPT !.op = op, !.pc = "signal"]
  <2>1. d.pc = "signal" /\ d.op = op
    BY DEF NoCall
  <2>2. Goto(t, d) /\ MayCall(t, op)
    BY <1>5 DEF CallSignal
  <2>3. QED
    <3> HIDE DEF d
    <3>1. CallOK(d)
      BY <2>1 DEF CallOK, Ops, Signallers
    <3>2. QED
      BY <1>1, <2>1, <2>2, <3>1, GotoInv
<1>6. ASSUME NEW plan, CallStop(t, plan)
      PROVE  SerialInv'
  <2> DEFINE c == [NoCall EXCEPT !.op = "stop", !.plan = ParseStopActions(plan)]
             d == IF NotStarted THEN Returned(c, EINVAL) ELSE [c EXCEPT !.pc = "next"]
  <2>1. d.op = "stop" /\ d.pc \in {"idle", "next"}
    BY DEF NoCall, Returned
  <2>2. Goto(t, d) /\ MayCall(t, "stop")
    BY <1>6 DEF CallStop
  <2>3. QED
    <3> HIDE DEF d
    <3>1. CallOK(d)
      BY <2>1 DEF CallOK, Ops
    <3>2. QED
      BY <1>1, <2>1, <2>2, <3>1, GotoInv
<1>7. ASSUME NEW timeout, CallPoll(t, timeout)
      PROVE  SerialInv'
  <2> DEFINE c == [NoCall EXCEPT !.op = "poll"]
             d(first) == IF first = "deadline" THEN [c EXCEPT !.ret = 1, !.event = "deadline"]
                         ELSE IF NoValidPipe THEN [c EXCEPT !.ret = EPIPE]
                         ELSE [c EXCEPT !.pc = "polling", !.timeout = first]
  <2>1. PICK first : Goto(t, d(first)) /\ MayCall(t, "poll")
    BY <1>7 DEF CallPoll
  <2>2. d(first).op = "poll" /\ d(first).pc \in {"idle", "polling"}
    BY DEF NoCall
  <2>3. d(first).pc = "polling" => exitPipe
    BY DEF NoCall, NoValidPipe
  <2>4. QED
    <3> HIDE DEF d
    <3>1. CallOK(d(first))
      BY <2>2, <2>3 DEF CallOK, Ops
    <3>2. QED
      BY <1>1, <2>1, <2>2, <3>1, GotoInv
<1>8. CASE CallDestroy(t)
  <2> DEFINE d == IF status = STATUS_IN_PROGRESS
                  THEN [NoCall EXCEPT !.op = "destroy", !.pc = "next",
                                      !.plan = ParseStopActions(DestroyPlan)]
                  ELSE [NoCall EXCEPT !.op = "destroy", !.pc = "release"]
  <2>1. d.op = "destroy" /\ d.pc \in {"next", "release"}
    BY DEF NoCall
  <2>2. Goto(t, d) /\ MayCall(t, "destroy")
    BY <1>8 DEF CallDestroy
  <2>3. QED
    <3> HIDE DEF d
    <3>1. CallOK(d)
      BY <2>1 DEF CallOK, Ops
    <3>2. QED
      BY <1>1, <2>1, <2>2, <3>1, GotoInv
<1>9. QED
  BY <1>2, <1>3, <1>4, <1>5, <1>6, <1>7, <1>8 DEF Begin

\* reproc_wait returns an error, or the status of a child that has been reaped.
LEMMA AfterWaitOK ==
    ASSUME NEW c \in CallRecord, c.op \in Waiters, c.i # 4, NEW r \in Results,
           r < 0 \/ (child = "reaped" /\ r = code)
    PROVE  CallOK(AfterWait(c, r)) /\ AfterWait(c, r).op = c.op
<1> DEFINE d == AfterWait(c, r)
<1>1. /\ d.op = c.op /\ d.ret = r
      /\ \/ d.pc = "idle"
         \/ d.pc = "next" /\ c.op # "wait"
         \/ d.pc = "release" /\ c.op = "destroy"
  BY AfterWaitIs
<1>2. r \in Int
  BY ResultsAre
<1> HIDE DEF d
<1>3. CallOK(d)
  BY <1>1, <1>2 DEF CallOK, Waiters, Ops
<1>4. QED
  BY <1>1, <1>3 DEF d

\* reproc_kill returns 0 only for a child that is over or has been sent SIGKILL.
LEMMA AfterSignalOK ==
    ASSUME NEW c \in CallRecord, c.op \in Signallers, c.i # 4, NEW r \in Results,
           c.op = "kill" /\ r = 0 => Doomed
    PROVE  CallOK(AfterSignal(c, r)) /\ AfterSignal(c, r).op = c.op
<1> DEFINE d == AfterSignal(c, r)
<1>1. /\ d.op = c.op /\ (c.op \in {"terminate", "kill"} => d.ret = r)
      /\ \/ d.pc = "idle"
         \/ d.pc = "wait" /\ c.op \notin {"terminate", "kill"}
         \/ d.pc = "release" /\ c.op = "destroy"
  BY AfterSignalIs
<1> HIDE DEF d
<1>2. CallOK(d)
  BY <1>1 DEF CallOK, Signallers, Waiters, Ops
<1>3. QED
  BY <1>1, <1>2 DEF d

\* Nothing has been reaped, and the exit pipe is open, while a call on a started
\* handle waits or signals before it reaps.
LEMMA Unreaped ==
    ASSUME SerialCallers, SerialInv, NEW t \in Threads,
           status = STATUS_IN_PROGRESS, Busy(t), call[t].pc \notin {"close", "assign"}
    PROVE  /\ child # "none"
           /\ call[t].op \in Waiters \cup Signallers => child # "reaped" /\ exitPipe
<1>1. ASSUME NEW u \in Threads, Reaping(u), call[t].op \in Waiters \cup Signallers
      PROVE  FALSE
  <2>1. Busy(u) /\ call[u].op \in Waiters /\ u # t
    BY <1>1 DEF Reaping, Busy, SerialInv, CallOK
  <2>2. QED
    BY <2>1, Alone
<1>2. ~freed
  BY DEF SerialInv, ChildOK
<1>3. child # "none"
  BY DEF SerialInv, ChildOK, STATUS_NOT_STARTED, STATUS_IN_PROGRESS, STATUS_IN_CHILD
<1>4. child = "reaped" => \E u \in Threads : Reaping(u)
  BY DEF SerialInv, ChildOK
<1>5. ~exitPipe => \E u \in Threads : Reaping(u)
  BY <1>2 DEF SerialInv, ChildOK, Reaping
<1>6. QED
  BY <1>1, <1>3, <1>4, <1>5

\* The steps of a call that change nothing but the call.
LEMMA QuietStepInv ==
    ASSUME SerialCallers, TypeInv, SerialInv, NEW t \in Threads,
           \/ WaitEnter(t) \/ WaitHangUp(t) \/ WaitTimesOut(t) \/ WaitNoChild(t)
           \/ WaitInterrupted(t) \/ SignalEnter(t) \/ StopLoop(t)
           \/ PollExit(t) \/ PollTimesOut(t) \/ PollInterrupted(t)
    PROVE  SerialInv'
<1> USE ResultsAre
<1> DEFINE c == call[t]
<1>1. /\ c \in CallRecord /\ c.i \in 1..4 /\ c.ret \in Results
      /\ c.pc \notin {"next", "release"} => c.i # 4
      /\ CallOK(c)
  BY CallsAre DEF SerialInv
<1>2. ASSUME NEW d, Goto(t, d), CallOK(d), d.op = c.op,
             c.pc \notin {"idle", "close", "assign"}
      PROVE  SerialInv'
  BY <1>2, GotoInv DEF Busy
<1>3. ASSUME NEW r \in Results, Goto(t, AfterWait(c, r)),
             c.pc \in {"wait", "poll", "waitpid"},
             r < 0 \/ (child = "reaped" /\ r = code)
      PROVE  SerialInv'
  <2>1. c.op \in Waiters
    BY <1>1, <1>3 DEF CallOK
  <2>2. CallOK(AfterWait(c, r)) /\ AfterWait(c, r).op = c.op
    BY <1>1, <1>3, <2>1, AfterWaitOK
  <2>3. QED
    BY <1>2, <1>3, <2>2
<1>4. status \in Int /\ code \in Int /\ (status >= 0 => status \in Results)
  BY DEF TypeInv, TypeOK, STATUS_NOT_STARTED, STATUS_IN_PROGRESS, STATUS_IN_CHILD
<1>5. /\ EINVAL \in Results /\ EINVAL < 0 /\ ETIMEDOUT \in Results /\ ETIMEDOUT < 0
      /\ ECHILD \in Results /\ ECHILD < 0 /\ EINTR \in Results /\ EINTR < 0
  BY DEF EINVAL, ETIMEDOUT, ECHILD, EINTR
<1>6. status \in {STATUS_NOT_STARTED, STATUS_IN_PROGRESS, STATUS_IN_CHILD} \cup 0..255
  BY DEF TypeInv, TypeOK
<1>7. CASE WaitEnter(t)
  <2>1. c.pc = "wait" /\ c.op \in Waiters /\ Busy(t)
    BY <1>1, <1>7 DEF WaitEnter, CallOK, Busy
  <2>2. CASE Goto(t, AfterWait(c, EINVAL))
    BY <1>3, <1>5, <2>1, <2>2
  <2>3. CASE Exited /\ Goto(t, AfterWait(c, status))
    <3>1. child = "reaped" /\ status = code /\ status \in Results
      BY <1>4, <2>3 DEF Exited, SerialInv, ChildOK
    <3>2. QED
      BY <1>3, <2>1, <2>3, <3>1
  <2>4. ASSUME NEW timeout, ~NotStarted, ~Exited,
               Goto(t, [c EXCEPT !.pc = "poll", !.timeout = timeout])
        PROVE  SerialInv'
    <3> DEFINE d == [c EXCEPT !.pc = "poll", !.timeout = timeout]
    <3>1. status = STATUS_IN_PROGRESS
      BY <1>6, <2>4 DEF NotStarted, Exited
    <3>2. exitPipe
      BY <2>1, <3>1, Unreaped
    <3>3. d.op = c.op /\ d.pc = "poll"
      BY <1>1 DEF CallRecord
    <3>4. Goto(t, d)
      BY <2>4
    <3>5. QED
      <4> HIDE DEF d
      <4>1. CallOK(d)
        BY <2>1, <3>1, <3>2, <3>3 DEF CallOK, Waiters, Ops
      <4>2. QED
        BY <1>2, <2>1, <3>3, <3>4, <4>1
  <2>5. QED
    BY <1>7, <2>2, <2>3, <2>4 DEF WaitEnter
<1>8. CASE WaitHangUp(t)
  <2> DEFINE d == [c EXCEPT !.pc = "waitpid", !.timeout = "zero"]
  <2>1. c.pc = "poll" /\ c.op \in Waiters /\ Busy(t) /\ status = STATUS_IN_PROGRESS
    BY <1>1, <1>8 DEF WaitHangUp, CallOK, Busy
  <2>2. exitPipe /\ child # "reaped"
    BY <2>1, Unreaped
  <2>3. d.op = c.op /\ d.pc = "waitpid"
    BY <1>1 DEF CallRecord
  <2>4. Goto(t, d)
    BY <1>8 DEF WaitHangUp
  <2>5. QED
    <3> HIDE DEF d
    <3>1. CallOK(d)
      BY <2>1, <2>2, <2>3 DEF CallOK, Waiters, Ops
    <3>2. QED
      BY <1>2, <2>1, <2>3, <2>4, <3>1
<1>9. CASE WaitTimesOut(t) \/ WaitNoChild(t) \/ WaitInterrupted(t)
  <2>1. PICK r \in {ETIMEDOUT, ECHILD, EINTR} :
          c.pc \in {"poll", "waitpid"} /\ Goto(t, AfterWait(c, r))
    BY <1>9 DEF WaitTimesOut, WaitNoChild, WaitInterrupted
  <2>2. QED
    BY <1>3, <1>5, <2>1
<1>10. CASE SignalEnter(t)
  <2>1. c.pc = "signal" /\ c.op \in Signallers /\ Busy(t)
    BY <1>1, <1>10 DEF SignalEnter, CallOK, Busy
  <2>2. ASSUME NEW r \in Results, Goto(t, AfterSignal(c, r)),
               r < 0 \/ child = "reaped"
        PROVE  SerialInv'
    <3>1. c.op = "kill" /\ r = 0 => Doomed
      BY <2>2 DEF Doomed
    <3>2. CallOK(AfterSignal(c, r)) /\ AfterSignal(c, r).op = c.op
      <4> HIDE DEF c
      <4>1. QED
        BY <1>1, <2>1, <3>1, AfterSignalOK
    <3>3. QED
      BY <1>2, <2>1, <2>2, <3>2
  <2>3. CASE Goto(t, AfterSignal(c, EINVAL))
    BY <1>5, <2>2, <2>3
  <2>4. CASE Exited /\ Goto(t, AfterSignal(c, 0))
    BY <1>4, <2>2, <2>4 DEF Exited, SerialInv, ChildOK
  <2>5. CASE ~NotStarted /\ ~Exited /\ Goto(t, [c EXCEPT !.pc = "kill"])
    <3> DEFINE d == [c EXCEPT !.pc = "kill"]
    <3>1. status = STATUS_IN_PROGRESS
      BY <1>6, <2>5 DEF NotStarted, Exited
    <3>2. d.op = c.op /\ d.pc = "kill"
      BY <1>1 DEF CallRecord
    <3>3. Goto(t, d)
      BY <2>5
    <3>4. QED
      <4> HIDE DEF d
      <4>1. CallOK(d)
        BY <2>1, <3>1, <3>2 DEF CallOK, Signallers, Ops
      <4>2. QED
        BY <1>2, <2>1, <3>2, <3>3, <4>1
  <2>6. QED
    BY <1>10, <2>3, <2>4, <2>5 DEF SignalEnter
<1>11. CASE StopLoop(t)
  <2> DEFINE d1 == [c EXCEPT !.i = c.i + 1, !.ret = 0]
             d2 == [c EXCEPT !.pc = "wait", !.timeout = c.plan[c.i].timeout]
             d3 == [c EXCEPT !.pc = "signal"]
             d4 == StopEnds(c, c.ret)
  <2>1. c.pc = "next" /\ c.op \in {"stop", "destroy"}
    BY <1>1, <1>11 DEF StopLoop, CallOK
  <2>2. /\ d1.op = c.op /\ d1.pc = "next"
        /\ d2.op = c.op /\ d2.pc = "wait"
        /\ d3.op = c.op /\ d3.pc = "signal"
    BY <1>1, <2>1 DEF CallRecord
  <2>3. d4.op = c.op /\ d4.pc = IF c.op = "destroy" THEN "release" ELSE "idle"
    BY <1>1, StopEndsIs
  <2>4. Goto(t, d1) \/ Goto(t, d2) \/ Goto(t, d3) \/ Goto(t, d4)
    BY <1>11 DEF StopLoop
  <2>5. QED
    <3> HIDE DEF d1, d2, d3, d4
    <3>1. CallOK(d1) /\ CallOK(d2) /\ CallOK(d3) /\ CallOK(d4)
      BY <2>1, <2>2, <2>3 DEF CallOK, Waiters, Signallers, Ops
    <3>2. QED
      BY <1>2, <2>1, <2>2, <2>3, <2>4, <3>1
<1>12. CASE PollExit(t) \/ PollTimesOut(t) \/ PollInterrupted(t)
  <2>1. PICK r \in Results, event \in {"none", "exit", "deadline"} : c.pc = "polling" /\ PollReturns(t, r, event)
    BY <1>12, <1>5 DEF PollExit, PollTimesOut, PollInterrupted
  <2> DEFINE e == Returned(c, r)
             d == [e EXCEPT !.event = event]
  <2>2. c.op = "poll"
    BY <1>1, <2>1 DEF CallOK
  <2>3. d.op = "poll" /\ d.pc = "idle"
    BY <1>1, <2>2 DEF Returned, CallRecord
  <2>4. Goto(t, d)
    BY <2>1 DEF PollReturns
  <2>5. QED
    <3> HIDE DEF d
    <3>1. CallOK(d)
      BY <2>3 DEF CallOK
    <3>2. QED
      BY <1>2, <2>1, <2>2, <2>3, <2>4, <3>1
<1>13. QED
  BY <1>7, <1>8, <1>9, <1>10, <1>11, <1>12

\* A step of a thread in an operation that waits: every other thread is idle.
LEMMA AloneInv ==
    ASSUME SerialCallers, TypeInv, SerialInv, NEW t \in Threads, NEW d,
           Busy(t), call[t].op \in Waiters, call' = [call EXCEPT ![t] = d],
           d.op = call[t].op, CallOK(call[t])', ChildOK',
           child' # child => child' = "reaped", code' = code, signals' = signals
    PROVE  SerialInv'
<1>1. /\ call'[t] = d
      /\ \A u \in Threads \ {t} : call'[u] = call[u]
  BY DEF TypeInv, TypeOK
<1>2. \A u \in Threads \ {t} : call[u].pc = "idle"
  BY Alone DEF Busy
<1>3. \A u \in Threads : CallOK(call[u])'
  <2>1. ASSUME NEW u \in Threads \ {t}
        PROVE  CallOK(call[u])'
    BY <1>1, <1>2 DEF SerialInv, CallOK, Doomed
  <2>2. QED
    BY <2>1
<1>4. \A u, v \in Threads : u # v => ~(Busy(u)' /\ Busy(v)')
  BY <1>1, <1>2 DEF Busy
<1>5. QED
  BY <1>3, <1>4 DEF SerialInv

\* The steps that reap the child and record its exit status.
LEMMA ReapInv ==
    ASSUME SerialCallers, TypeInv, SerialInv, NEW t \in Threads,
           WaitReaps(t) \/ WaitClosesExit(t) \/ WaitAssigns(t)
    PROVE  SerialInv'
<1> DEFINE c == call[t]
<1>1. /\ c \in CallRecord /\ c.i # 4 /\ c.ret \in Results /\ CallOK(c)
      /\ c.pc \in {"waitpid", "close", "assign"}
  BY CallsAre DEF SerialInv, WaitReaps, WaitClosesExit, WaitAssigns
<1>2. c.op \in Waiters /\ Busy(t) /\ status = STATUS_IN_PROGRESS
  BY <1>1 DEF CallOK, Busy
<1>3. ~freed /\ child # "none" /\ ~stray
  BY <1>2 DEF SerialInv, ChildOK, STATUS_IN_PROGRESS, STATUS_NOT_STARTED, STATUS_IN_CHILD
<1>4. CASE WaitReaps(t)
  <2> DEFINE d == [c EXCEPT !.pc = "close", !.ret = code]
  <2>1. d.op = c.op /\ d.pc = "close" /\ d.ret = code
    BY <1>1 DEF CallRecord
  <2>2. /\ call' = [call EXCEPT ![t] = d] /\ child' = "reaped"
        /\ UNCHANGED <<status, exitPipe, freed, code, signals, stray>>
    BY <1>4 DEF WaitReaps, SetCall, handleVars
  <2>3. exitPipe
    BY <1>1, <1>4 DEF CallOK, WaitReaps
  <2>4. QED
    <3> HIDE DEF d
    <3>1. call'[t] = d
      BY <2>2 DEF TypeInv, TypeOK
    <3>2. CallOK(call[t])'
      BY <1>2, <2>1, <2>2, <2>3, <3>1 DEF CallOK, Waiters, Ops
    <3>3. ChildOK'
      BY <1>2, <1>3, <2>1, <2>2, <2>3, <3>1
      DEF ChildOK, Reaping, STATUS_IN_PROGRESS, STATUS_NOT_STARTED, STATUS_IN_CHILD
    <3>4. QED
      BY <1>2, <2>1, <2>2, <3>2, <3>3, AloneInv
<1>5. CASE WaitClosesExit(t)
  <2> DEFINE d == [c EXCEPT !.pc = "assign"]
  <2>1. d.op = c.op /\ d.pc = "assign" /\ d.ret = c.ret
    BY <1>1 DEF CallRecord
  <2>2. /\ call' = [call EXCEPT ![t] = d]
        /\ UNCHANGED <<status, freed, child, code, pid, signals, stray>>
    BY <1>5 DEF WaitClosesExit, SetCall, childVars
  <2>3. child = "reaped" /\ c.ret = code
    BY <1>1, <1>5 DEF CallOK, WaitClosesExit
  <2>4. QED
    <3> HIDE DEF d
    <3>1. call'[t] = d
      BY <2>2 DEF TypeInv, TypeOK
    <3>2. CallOK(call[t])'
      BY <1>2, <2>1, <2>2, <2>3, <3>1 DEF CallOK, Waiters, Ops
    <3>3. ChildOK'
      BY <1>2, <1>3, <2>1, <2>2, <2>3, <3>1
      DEF ChildOK, Reaping, STATUS_IN_PROGRESS, STATUS_NOT_STARTED, STATUS_IN_CHILD
    <3>4. QED
      BY <1>2, <2>1, <2>2, <3>2, <3>3, AloneInv
<1>6. CASE WaitAssigns(t)
  <2> DEFINE d == AfterWait(c, c.ret)
  <2>1. c.pc = "assign" /\ child = "reaped" /\ c.ret = code /\ c.ret \in 0..255
    BY <1>1, <1>6, CallsAre DEF CallOK, WaitAssigns, GoodCalls
  <2>2. /\ d.op = c.op /\ d.ret = code
        /\ d.pc = "idle" \/ (d.pc = "release" /\ d.op = "destroy")
    <3> HIDE DEF c
    <3>1. c.ret # ETIMEDOUT
      BY <2>1 DEF ETIMEDOUT
    <3>2. QED
      BY <1>1, <2>1, <3>1, AfterWaitIs
  <2>3. /\ call' = [call EXCEPT ![t] = d] /\ status' = code
        /\ UNCHANGED <<exitPipe, freed, child, code, pid, signals, stray>>
    BY <1>6, <2>1 DEF WaitAssigns, SetCall, childVars
  <2>4. QED
    <3> HIDE DEF d
    <3>1. call'[t] = d
      BY <2>3 DEF TypeInv, TypeOK
    <3>2. CallOK(call[t])'
      BY <1>2, <2>1, <2>2, <2>3, <3>1 DEF CallOK, Waiters, Ops
    <3>3. ChildOK'
      BY <1>2, <1>3, <2>1, <2>3
      DEF ChildOK, STATUS_IN_PROGRESS, STATUS_NOT_STARTED, STATUS_IN_CHILD
    <3>4. QED
      BY <1>2, <2>1, <2>2, <2>3, <3>2, <3>3, AloneInv
<1>7. QED
  BY <1>4, <1>5, <1>6

\* A signal goes to a child that has not been reaped.
LEMMA SendSignalInv ==
    ASSUME SerialCallers, TypeInv, SerialInv, NEW t \in Threads, SendSignal(t)
    PROVE  SerialInv'
<1> DEFINE c == call[t]
           d == AfterSignal(c, 0)
<1>1. /\ c \in CallRecord /\ c.i # 4 /\ CallOK(c) /\ c.pc = "kill"
  BY CallsAre DEF SerialInv, SendSignal
<1>2. c.op \in Signallers /\ Busy(t) /\ status = STATUS_IN_PROGRESS
  BY <1>1 DEF CallOK, Busy
<1>3. child \in {"running", "zombie"} /\ exitPipe
  BY <1>1, <1>2, Unreaped DEF TypeInv, TypeOK
<1>4. pid = "child" /\ ~freed /\ ~stray
  BY <1>2, <1>3 DEF SerialInv, ChildOK
<1>5. /\ d.op = c.op
      /\ c.op \in {"terminate", "kill"} => d.pc = "idle" /\ d.ret = 0
      /\ c.op \in {"stop", "destroy"} => d.pc = "wait"
  <2>1. 0 \in Results /\ 0 >= 0
    BY ResultsAre
  <2>2. QED
    <3> HIDE DEF c
    <3>1. QED
      BY <1>1, <2>1, AfterSignalIs
<1>6. /\ call' = [call EXCEPT ![t] = d] /\ ~stray'
      /\ UNCHANGED <<status, exitPipe, freed, pid, child, code>>
  BY <1>4, <1>1 DEF SendSignal, SetCall, handleVars
<1>7. (Doomed => Doomed') /\ (c.op = "kill" => Doomed')
  BY <1>1, <1>3, <1>4 DEF SendSignal, SignalOf, Doomed
<1>8. /\ call'[t] = d
      /\ \A u \in Threads \ {t} : call'[u] = call[u]
  BY <1>6 DEF TypeInv, TypeOK
<1> HIDE DEF d
<1>9. \A u \in Threads : CallOK(call[u])'
  <2>1. CallOK(call[t])'
    BY <1>2, <1>5, <1>6, <1>7, <1>8 DEF CallOK, Waiters, Signallers, Ops
  <2>2. ASSUME NEW u \in Threads \ {t}
        PROVE  CallOK(call[u])'
    BY <1>3, <1>6, <1>7, <1>8 DEF SerialInv, CallOK
  <2>3. QED
    BY <2>1, <2>2
<1>10. ASSUME NEW u \in Threads, NEW v \in Threads, u # v, Busy(u)', Busy(v)'
       PROVE  {call'[u].op, call'[v].op} \in Overlaps
  <2>1. Busy(u) /\ Busy(v) /\ call'[u].op = call[u].op /\ call'[v].op = call[v].op
    BY <1>2, <1>5, <1>8, <1>10 DEF Busy
  <2>2. QED
    BY <1>10, <2>1 DEF SerialInv
<1>11. ChildOK'
  <2>1. status # STATUS_NOT_STARTED /\ status # STATUS_IN_CHILD /\ ~(status >= 0)
    BY <1>2 DEF STATUS_IN_PROGRESS, STATUS_NOT_STARTED, STATUS_IN_CHILD
  <2>2. QED
    BY <1>3, <1>4, <1>6, <1>7, <2>1 DEF ChildOK
<1>12. QED
  BY <1>9, <1>10, <1>11 DEF SerialInv

LEMMA DestroyReleasesInv ==
    ASSUME SerialCallers, TypeInv, SerialInv, NEW t \in Threads, DestroyReleases(t)
    PROVE  SerialInv'
<1> DEFINE c == call[t]
           d == Returned(c, c.ret)
<1>1. c \in CallRecord /\ c.ret \in Results /\ CallOK(c) /\ c.pc = "release"
  BY CallsAre DEF SerialInv, DestroyReleases
<1>2. c.op = "destroy" /\ c.op \in Waiters /\ Busy(t)
  BY <1>1 DEF CallOK, Busy, Waiters
<1>3. d.op = "destroy" /\ d.pc = "idle"
  <2> HIDE DEF c
  <2>1. QED
    BY <1>1, <1>2, ReturnedIs
<1>4. /\ call' = [call EXCEPT ![t] = d] /\ freed'
      /\ UNCHANGED <<status, child, code, pid, signals, stray>>
  BY <1>1 DEF DestroyReleases, SetCall, childVars
<1>5. /\ call'[t] = d
      /\ \A u \in Threads \ {t} : call'[u] = call[u]
  BY <1>4 DEF TypeInv, TypeOK
<1>6. \A u \in Threads \ {t} : call[u].pc = "idle"
  BY <1>2, Alone DEF Busy
<1>7. \A u \in Threads : ~Reaping(u)
  BY <1>1, <1>6 DEF Reaping
<1> HIDE DEF d
<1>8. CallOK(call[t])'
  BY <1>3, <1>5 DEF CallOK
<1>9. ChildOK'
  <2>1. \A u \in Threads : ~Busy(u)'
    BY <1>3, <1>5, <1>6 DEF Busy
  <2>2. ~(child = "reaped" /\ status = STATUS_IN_PROGRESS)
    BY <1>7 DEF SerialInv, ChildOK
  <2>3. QED
    BY <1>4, <2>1, <2>2 DEF SerialInv, ChildOK
<1>10. QED
  BY <1>2, <1>3, <1>4, <1>8, <1>9, AloneInv

LEMMA EnvironmentInv ==
    ASSUME TypeInv, SerialInv, Environment
    PROVE  SerialInv'
<1>1. UNCHANGED <<status, exitPipe, freed, call, stray>>
  BY DEF Environment, ChildExits, ChildSignalled, ChildEnds, ForkedChildReturns, ChildClosesExit,
         ChildForks, DescendantExits, PidReused, DeadlineExpires, handleVars
<1>2. /\ signals' = signals
      /\ \/ child = "running" /\ child' = "zombie" /\ pid' = pid
         \/ UNCHANGED <<child, code>> /\ (pid' = pid \/ child = "reaped")
  BY DEF Environment, ChildExits, ChildSignalled, ChildEnds, ForkedChildReturns, ChildClosesExit,
         ChildForks, DescendantExits, PidReused, DeadlineExpires, childVars
<1>3. \A t \in Threads : CallOK(call[t])'
  BY <1>1, <1>2 DEF SerialInv, CallOK, Doomed
<1>4. ChildOK'
  BY <1>1, <1>2 DEF SerialInv, ChildOK, Reaping, Busy
<1>5. QED
  BY <1>1, <1>3, <1>4 DEF SerialInv, Busy

\* The inductive invariant is one: callers that run the operations that wait
\* apart from every other operation stay within it.
THEOREM SerialInvariant ==
    ASSUME SerialCallers
    PROVE  Spec => []SerialInv
<1>1. Init => SerialInv
  <2>1. NoCall.pc = "idle" /\ NoCall.op = "none"
    BY DEF NoCall
  <2>2. ASSUME Init, NEW t \in Threads
        PROVE  call[t].pc = "idle" /\ call[t].op = "none"
    BY <2>1, <2>2 DEF Init
  <2>3. ASSUME Init
        PROVE  (\A t \in Threads : CallOK(call[t])) /\ ChildOK
    <3>1. \A t \in Threads : CallOK(call[t])
      BY <2>2, <2>3 DEF CallOK
    <3>2. ChildOK
      BY <2>3 DEF Init, ChildOK, STATUS_NOT_STARTED, STATUS_IN_PROGRESS
    <3>3. QED
      BY <3>1, <3>2
  <2>4. QED
    BY <2>2, <2>3 DEF SerialInv, Busy
<1>2. TypeInv /\ SerialInv /\ [Next]_vars => SerialInv'
  <2>1. ASSUME TypeInv, SerialInv, NEW t \in Threads, Step(t) \/ BrokenOff(t)
        PROVE  SerialInv'
    BY <2>1, QuietStepInv, ReapInv, SendSignalInv, DestroyReleasesInv DEF Step, BrokenOff
  <2>2. ASSUME SerialInv, UNCHANGED vars
        PROVE  SerialInv'
    BY <2>2 DEF vars, handleVars, childVars, SerialInv, CallOK, Doomed, ChildOK, Reaping, Busy
  <2>3. QED
    BY <2>1, <2>2, BeginInv, EnvironmentInv DEF Next
<1>3. QED
  BY <1>1, <1>2, TypeInvariant, PTL DEF Spec

\* No signal of reproc_terminate, reproc_kill or reproc_stop reaches a process
\* other than the child.
THEOREM SignalsOnlyTheChild ==
    ASSUME SerialCallers
    PROVE  Spec => []NoStraySignal
<1>1. SerialInv => NoStraySignal
  BY DEF SerialInv, ChildOK, NoStraySignal
<1>2. QED
  BY <1>1, SerialInvariant, PTL

\* The assertion of reproc_wait that the exit pipe is valid never fails, and
\* reproc_poll polls no descriptor that has been closed meanwhile.
THEOREM PipesOutliveCalls ==
    ASSUME SerialCallers
    PROVE  Spec => []ExitPipeValid
<1>1. SerialInv => ExitPipeValid
  <2>1. ASSUME SerialInv, NEW t \in Threads,
               \/ call[t].pc = "poll"
               \/ call[t].pc = "wait" /\ status = STATUS_IN_PROGRESS
        PROVE  exitPipe
    <3>1. /\ status = STATUS_IN_PROGRESS /\ Busy(t) /\ call[t].op \in Waiters
          /\ call[t].pc \notin {"close", "assign"}
      BY <2>1 DEF SerialInv, CallOK, Busy
    <3>2. QED
      BY <2>1, <3>1, Unreaped
  <2>2. ASSUME SerialInv, NEW t \in Threads, call[t].pc = "polling"
        PROVE  exitPipe
    BY <2>2 DEF SerialInv, CallOK
  <2>3. QED
    BY <2>1, <2>2 DEF ExitPipeValid
<1>2. QED
  BY <1>1, SerialInvariant, PTL

\* The child is reaped by one call, and no other call waits for it afterwards.
THEOREM ReapedByOneCall ==
    ASSUME SerialCallers
    PROVE  Spec => []ReapedOnce
<1>1. TypeInv /\ SerialInv => ReapedOnce
  <2>1. ASSUME TypeInv, SerialInv, NEW t \in Threads, call[t].pc = "waitpid"
        PROVE  child \in {"running", "zombie"}
    BY <2>1, Unreaped DEF SerialInv, CallOK, Busy, TypeInv, TypeOK
  <2>2. QED
    BY <2>1 DEF ReapedOnce
<1>2. QED
  BY <1>1, SerialInvariant, TypeInvariant, PTL

\* When reproc_kill has returned 0 the child is over or has been sent SIGKILL.
THEOREM KillReaches ==
    ASSUME SerialCallers
    PROVE  Spec => []KillReachesChild
<1>1. SerialInv => KillReachesChild
  BY DEF SerialInv, CallOK, KillReachesChild, Last
<1>2. QED
  BY <1>1, SerialInvariant, PTL
-----------------------------------------------------------------------------
(***************************************************************************)
(* The exit status is the child's own, whatever calls run at the same time *)
(* and whatever the child does: no assumption on Overlaps, Traits, fork or *)
(* interruptions.  Threads may race for waitpid and for the assignment, but *)
(* what they race to write is the same.                                    *)
(***************************************************************************)

\* Which operation can be at which statement.
OpAt(c) ==
    /\ c.pc \in {"wait", "poll", "waitpid", "close", "assign"} => c.op \in Waiters
    /\ c.pc \in {"signal", "kill"} => c.op \in Signallers
    /\ c.pc = "next" => c.op \in {"stop", "destroy"}
    /\ c.pc = "release" => c.op = "destroy"
    /\ c.pc = "polling" => c.op = "poll"

\* What reproc_wait is about to assign, or has returned, is the exit status.
TrueRet(c) ==
    \/ c.pc \in {"close", "assign"}
    \/ c.pc = "idle" /\ c.op = "wait" /\ c.ret >= 0
    => child = "reaped" /\ c.ret = code

TruthInv ==
    /\ \A t \in Threads : OpAt(call[t]) /\ TrueRet(call[t])
    /\ child = "none" <=> status \in {STATUS_NOT_STARTED, STATUS_IN_CHILD}
    /\ status >= 0 => child = "reaped" /\ status = code

\* A step of thread t that leaves the status and a reaped child alone.
LEMMA TruthStep ==
    ASSUME TypeInv, TruthInv, NEW t \in Threads, NEW d,
           call' = [call EXCEPT ![t] = d], OpAt(d), TrueRet(call[t])',
           status' = status, child = "none" <=> child' = "none",
           child = "reaped" => child' = "reaped" /\ code' = code
    PROVE  TruthInv'
<1>1. /\ call'[t] = d
      /\ \A u \in Threads \ {t} : call'[u] = call[u]
  BY DEF TypeInv, TypeOK
<1>2. \A u \in Threads : OpAt(call[u])'
  BY <1>1 DEF TruthInv, OpAt
<1>3. \A u \in Threads \ {t} : TrueRet(call[u])'
  BY <1>1 DEF TruthInv, TrueRet
<1>4. QED
  BY <1>2, <1>3 DEF TruthInv

\* In particular, one that changes nothing but the call.
LEMMA TruthGoto ==
    ASSUME TypeInv, TruthInv, NEW t \in Threads, NEW d, Goto(t, d), OpAt(d), TrueRet(d)
    PROVE  TruthInv'
<1>1. call' = [call EXCEPT ![t] = d] /\ UNCHANGED <<status, child, code>>
  BY DEF Goto, SetCall, handleVars, childVars
<1>2. TrueRet(call[t])'
  BY <1>1 DEF TrueRet, TypeInv, TypeOK
<1>3. QED
  BY <1>1, <1>2, TruthStep

LEMMA BeginTruth ==
    ASSUME TypeInv, TruthInv, NEW t \in Threads, Begin(t)
    PROVE  TruthInv'
<1>1. ASSUME NEW d, Goto(t, d),
             \/ d.pc = "idle" /\ d.op # "wait"
             \/ d.pc = "wait" /\ d.op = "wait"
             \/ d.pc = "signal" /\ d.op \in Signallers
             \/ d.pc = "next" /\ d.op \in {"stop", "destroy"}
             \/ d.pc = "release" /\ d.op = "destroy"
             \/ d.pc = "polling" /\ d.op = "poll"
      PROVE  TruthInv'
  <2>1. OpAt(d) /\ TrueRet(d)
    BY <1>1 DEF OpAt, TrueRet, Waiters
  <2>2. QED
    BY <1>1, <2>1, TruthGoto
<1>2. CASE StartError(t)
  <2>1. PICK r : Goto(t, [NoCall EXCEPT !.op = "start", !.ret = r])
    BY <1>2 DEF StartError, StartReturns, Goto
  <2> DEFINE d == [NoCall EXCEPT !.op = "start", !.ret = r]
  <2>2. d.pc = "idle" /\ d.op = "start"
    BY DEF NoCall
  <2>3. QED
    BY <1>1, <2>1, <2>2
<1>3. CASE StartParent(t) \/ StartInChild(t)
  <2> DEFINE d(r) == [NoCall EXCEPT !.op = "start", !.ret = r]
  <2>1. \A r : d(r).pc = "idle" /\ d(r).op = "start"
    BY DEF NoCall
  <2>2. PICK r : call' = [call EXCEPT ![t] = d(r)]
    BY <1>3 DEF StartParent, StartInChild, StartReturns, SetCall
  <2>3. /\ call'[t].pc = "idle" /\ call'[t].op = "start"
        /\ \A u \in Threads \ {t} : call'[u] = call[u]
    <3> HIDE DEF d
    <3>1. QED
      BY <2>1, <2>2 DEF TypeInv, TypeOK
  <2>4. child = "none"
    BY <1>3 DEF StartParent, StartInChild, Startable, TruthInv
  <2>5. \A u \in Threads : OpAt(call[u])'
    BY <2>3 DEF TruthInv, OpAt
  <2>6. \A u \in Threads : TrueRet(call[u])'
    BY <2>3, <2>4 DEF TruthInv, TrueRet
  <2>7. /\ ~(status' >= 0)
        /\ child' = "none" <=> status' \in {STATUS_NOT_STARTED, STATUS_IN_CHILD}
    BY <1>3, <2>4 DEF StartParent, StartInChild, childVars,
       STATUS_NOT_STARTED, STATUS_IN_PROGRESS, STATUS_IN_CHILD
  <2>8. QED
    BY <2>5, <2>6, <2>7 DEF TruthInv
<1>4. ASSUME NEW timeout, CallWait(t, timeout)
      PROVE  TruthInv'
  <2> DEFINE d == [NoCall EXCEPT !.op = "wait", !.pc = "wait", !.timeout = timeout]
  <2>1. d.pc = "wait" /\ d.op = "wait"
    BY DEF NoCall
  <2>2. QED
    BY <1>1, <1>4, <2>1 DEF CallWait
<1>5. ASSUME NEW op \in {"terminate", "kill"}, CallSignal(t, op)
      PROVE  TruthInv'
  <2> DEFINE d == [NoCall EXCEPT !.op = op, !.pc = "signal"]
  <2>1. d.pc = "signal" /\ d.op \in Signallers
    BY DEF NoCall, Signallers
  <2>2. QED
    BY <1>1, <1>5, <2>1 DEF CallSignal
<1>6. ASSUME NEW plan, CallStop(t, plan)
      PROVE  TruthInv'
  <2> DEFINE c == [NoCall EXCEPT !.op = "stop", !.plan = ParseStopActions(plan)]
             d == IF NotStarted THEN Returned(c, EINVAL) ELSE [c EXCEPT !.pc = "next"]
  <2>1. d.op = "stop" /\ d.pc \in {"idle", "next"}
    BY DEF NoCall, Returned
  <2>2. Goto(t, d)
    BY <1>6 DEF CallStop
  <2>3. QED
    <3> HIDE DEF d
    <3>1. QED
      BY <1>1, <2>1, <2>2
<1>7. ASSUME NEW timeout, CallPoll(t, timeout)
      PROVE  TruthInv'
  <2> DEFINE c == [NoCall EXCEPT !.op = "poll"]
             d(first) == IF first = "deadline" THEN [c EXCEPT !.ret = 1, !.event = "deadline"]
                         ELSE IF NoValidPipe THEN [c EXCEPT !.ret = EPIPE]
                         ELSE [c EXCEPT !.pc = "polling", !.timeout = first]
  <2>1. PICK first : Goto(t, d(first))
    BY <1>7 DEF CallPoll
  <2>2. d(first).op = "poll" /\ d(first).pc \in {"idle", "polling"}
    BY DEF NoCall
  <2>3. QED
    <3> HIDE DEF d
    <3>1. QED
      BY <1>1, <2>1, <2>2
<1>8. CASE CallDestroy(t)
  <2> DEFINE d == IF status = STATUS_IN_PROGRESS
                  THEN [NoCall EXCEPT !.op = "destroy", !.pc = "next",
                                      !.plan = ParseStopActions(DestroyPlan)]
                  ELSE [NoCall EXCEPT !.op = "destroy", !.pc = "release"]
  <2>1. d.op = "destroy" /\ d.pc \in {"next", "release"}
    BY DEF NoCall
  <2>2. Goto(t, d)
    BY <1>8 DEF CallDestroy
  <2>3. QED
    <3> HIDE DEF d
    <3>1. QED
      BY <1>1, <2>1, <2>2
<1>9. QED
  BY <1>2, <1>3, <1>4, <1>5, <1>6, <1>7, <1>8 DEF Begin

\* Where AfterWait and AfterSignal lead.
LEMMA AfterWaitTruth ==
    ASSUME NEW c \in CallRecord, c.op \in Waiters, c.i # 4, NEW r \in Results,
           r < 0 \/ (child = "reaped" /\ r = code)
    PROVE  OpAt(AfterWait(c, r)) /\ TrueRet(AfterWait(c, r))
<1> DEFINE d == AfterWait(c, r)
<1>1. /\ d.op = c.op /\ d.ret = r
      /\ \/ d.pc = "idle"
         \/ d.pc = "next" /\ c.op # "wait"
         \/ d.pc = "release" /\ c.op = "destroy"
  BY AfterWaitIs
<1>2. r \in Int
  BY ResultsAre
<1> HIDE DEF d
<1>3. OpAt(d) /\ TrueRet(d)
  BY <1>1, <1>2 DEF OpAt, TrueRet, Waiters
<1>4. QED
  BY <1>3 DEF d

LEMMA AfterSignalTruth ==
    ASSUME NEW c \in CallRecord, c.op \in Signallers, c.i # 4, NEW r \in Results
    PROVE  /\ OpAt(AfterSignal(c, r)) /\ AfterSignal(c, r).pc \notin {"close", "assign"}
           /\ AfterSignal(c, r).op # "wait"
<1> DEFINE d == AfterSignal(c, r)
<1>1. /\ d.op = c.op
      /\ \/ d.pc = "idle"
         \/ d.pc = "wait" /\ c.op \notin {"terminate", "kill"}
         \/ d.pc = "release" /\ c.op = "destroy"
  BY AfterSignalIs
<1> HIDE DEF d
<1>2. OpAt(d) /\ d.pc \notin {"close", "assign"} /\ d.op # "wait"
  BY <1>1 DEF OpAt, Signallers, Waiters
<1>3. QED
  BY <1>2 DEF d

LEMMA WaitTruth ==
    ASSUME TypeInv, TruthInv, NEW t \in Threads,
           \/ WaitEnter(t) \/ WaitHangUp(t) \/ WaitTimesOut(t) \/ WaitNoChild(t)
           \/ WaitInterrupted(t) \/ WaitReaps(t) \/ WaitClosesExit(t) \/ WaitAssigns(t)
    PROVE  TruthInv'
<1> DEFINE c == call[t]
<1>1. /\ c \in CallRecord /\ c.i # 4 /\ c.ret \in Results /\ OpAt(c) /\ TrueRet(c)
      /\ c.pc \in {"wait", "poll", "waitpid", "close", "assign"}
  BY CallsAre DEF TruthInv, WaitEnter, WaitHangUp, WaitTimesOut, WaitNoChild,
     WaitInterrupted, WaitReaps, WaitClosesExit, WaitAssigns
<1>2. c.op \in Waiters
  BY <1>1 DEF OpAt
<1>3. ASSUME NEW r \in Results, Goto(t, AfterWait(c, r)),
             r < 0 \/ (child = "reaped" /\ r = code)
      PROVE  TruthInv'
  <2> HIDE DEF c
  <2>1. OpAt(AfterWait(c, r)) /\ TrueRet(AfterWait(c, r))
    BY <1>1, <1>2, <1>3, AfterWaitTruth
  <2>2. QED
    BY <1>3, <2>1, TruthGoto
<1>4. ASSUME NEW d, Goto(t, d), d.op = c.op, d.pc \in {"poll", "waitpid"}
      PROVE  TruthInv'
  <2>1. OpAt(d) /\ TrueRet(d)
    BY <1>2, <1>4 DEF OpAt, TrueRet
  <2>2. QED
    BY <1>4, <2>1, TruthGoto
<1>5. CASE WaitEnter(t)
  <2>1. EINVAL \in Results /\ EINVAL < 0
    BY ResultsAre DEF EINVAL
  <2>2. CASE Exited /\ Goto(t, AfterWait(c, status))
    <3>1. status \in Results /\ child = "reaped" /\ status = code
      BY <2>2, ResultsAre DEF Exited, TruthInv, TypeInv, TypeOK
    <3>2. QED
      BY <1>3, <2>2, <3>1
  <2>3. ASSUME NEW timeout, Goto(t, [c EXCEPT !.pc = "poll", !.timeout = timeout])
        PROVE  TruthInv'
    <3> DEFINE d == [c EXCEPT !.pc = "poll", !.timeout = timeout]
    <3>1. d.op = c.op /\ d.pc = "poll"
      BY <1>1 DEF CallRecord
    <3>2. QED
      BY <1>4, <2>3, <3>1
  <2>4. QED
    BY <1>3, <1>5, <2>1, <2>2, <2>3 DEF WaitEnter
<1>6. CASE WaitHangUp(t)
  <2> DEFINE d == [c EXCEPT !.pc = "waitpid", !.timeout = "zero"]
  <2>1. d.op = c.op /\ d.pc = "waitpid"
    BY <1>1 DEF CallRecord
  <2>2. Goto(t, d)
    BY <1>6 DEF WaitHangUp
  <2>3. QED
    BY <1>4, <2>1, <2>2
<1>7. CASE WaitTimesOut(t) \/ WaitNoChild(t) \/ WaitInterrupted(t)
  <2>1. PICK r \in {ETIMEDOUT, ECHILD, EINTR} : Goto(t, AfterWait(c, r))
    BY <1>7 DEF WaitTimesOut, WaitNoChild, WaitInterrupted
  <2>2. r \in Results /\ r < 0
    BY ResultsAre DEF ETIMEDOUT, ECHILD, EINTR
  <2>3. QED
    BY <1>3, <2>1, <2>2
<1>8. CASE WaitReaps(t) \/ WaitClosesExit(t)
  <2> DEFINE d == IF c.pc = "waitpid" THEN [c EXCEPT !.pc = "close", !.ret = code]
                  ELSE [c EXCEPT !.pc = "assign"]
  <2>1. /\ call' = [call EXCEPT ![t] = d] /\ child' = "reaped"
        /\ UNCHANGED <<status, code>> /\ child # "none"
        /\ c.pc \in {"waitpid", "close"} /\ (c.pc = "close" => c.ret = code)
    BY <1>1, <1>8 DEF WaitReaps, WaitClosesExit, SetCall, handleVars, childVars, TrueRet
  <2>2. d.op = c.op /\ d.pc \in {"close", "assign"} /\ d.ret = code
    BY <1>1, <2>1 DEF CallRecord
  <2>3. QED
    <3> HIDE DEF d
    <3>1. OpAt(d)
      BY <1>2, <2>2 DEF OpAt
    <3>2. TrueRet(call[t])'
      BY <2>1, <2>2 DEF TrueRet, TypeInv, TypeOK
    <3>3. QED
      BY <2>1, <3>1, <3>2, TruthStep
<1>9. CASE WaitAssigns(t)
  <2> DEFINE d == AfterWait(c, c.ret)
  <2>1. child = "reaped" /\ c.ret = code /\ c.ret \in 0..255
    BY <1>1, <1>9, CallsAre DEF TrueRet, WaitAssigns, GoodCalls
  <2>2. OpAt(d) /\ TrueRet(d)
    <3> HIDE DEF c
    <3>1. QED
      BY <1>1, <1>2, <2>1, AfterWaitTruth
  <2>3. /\ call' = [call EXCEPT ![t] = d] /\ status' = code
        /\ UNCHANGED <<child, code>>
    BY <1>9, <2>1 DEF WaitAssigns, SetCall, childVars
  <2>4. QED
    <3> HIDE DEF d
    <3>1. /\ call'[t] = d
          /\ \A u \in Threads \ {t} : call'[u] = call[u]
      BY <2>3 DEF TypeInv, TypeOK
    <3>2. \A u \in Threads : OpAt(call[u])' /\ TrueRet(call[u])'
      BY <2>2, <2>3, <3>1 DEF TruthInv, OpAt, TrueRet
    <3>3. QED
      BY <2>1, <2>3, <3>2 DEF TruthInv, STATUS_NOT_STARTED, STATUS_IN_CHILD
<1>10. QED
  BY <1>5, <1>6, <1>7, <1>8, <1>9

LEMMA SignalTruth ==
    ASSUME TypeInv, TruthInv, NEW t \in Threads, SignalEnter(t) \/ SendSignal(t)
    PROVE  TruthInv'
<1> DEFINE c == call[t]
<1>1. /\ c \in CallRecord /\ c.i # 4 /\ c.op \in Signallers
  BY CallsAre DEF TruthInv, OpAt, SignalEnter, SendSignal
<1>2. ASSUME NEW d, call' = [call EXCEPT ![t] = d], OpAt(d),
             d.pc \notin {"close", "assign"}, d.op # "wait",
             status' = status, child = "none" <=> child' = "none",
             child = "reaped" => child' = "reaped" /\ code' = code
      PROVE  TruthInv'
  <2>1. TrueRet(call[t])'
    BY <1>2 DEF TrueRet, TypeInv, TypeOK
  <2>2. QED
    BY <1>2, <2>1, TruthStep
<1>3. /\ status' = status /\ (child = "none" <=> child' = "none")
      /\ child = "reaped" => child' = "reaped" /\ code' = code
  BY DEF SignalEnter, SendSignal, Goto, handleVars, childVars
<1>4. ASSUME NEW r \in Results, call' = [call EXCEPT ![t] = AfterSignal(c, r)]
      PROVE  TruthInv'
  <2>1. /\ OpAt(AfterSignal(c, r)) /\ AfterSignal(c, r).pc \notin {"close", "assign"}
        /\ AfterSignal(c, r).op # "wait"
    <3> HIDE DEF c
    <3>1. QED
      BY <1>1, <1>4, AfterSignalTruth
  <2>2. QED
    BY <1>2, <1>3, <1>4, <2>1
<1>5. CASE call' = [call EXCEPT ![t] = [c EXCEPT !.pc = "kill"]]
  <2> DEFINE d == [c EXCEPT !.pc = "kill"]
  <2>1. d.op = c.op /\ d.pc = "kill"
    BY <1>1 DEF CallRecord
  <2>2. call' = [call EXCEPT ![t] = d]
    BY <1>5
  <2>3. QED
    <3> HIDE DEF d
    <3>1. OpAt(d) /\ d.op # "wait"
      BY <1>1, <2>1 DEF OpAt, Signallers
    <3>2. QED
      BY <1>2, <1>3, <2>1, <2>2, <3>1
<1>6. CASE SignalEnter(t)
  BY <1>4, <1>5, <1>6, ResultsAre DEF SignalEnter, Goto, SetCall
<1>7. CASE SendSignal(t)
  BY <1>4, <1>7, ResultsAre DEF SendSignal, SetCall
<1>8. QED
  BY <1>6, <1>7

LEMMA StopAndPollTruth ==
    ASSUME TypeInv, TruthInv, NEW t \in Threads,
           \/ StopLoop(t) \/ DestroyReleases(t)
           \/ PollExit(t) \/ PollTimesOut(t) \/ PollInterrupted(t)
    PROVE  TruthInv'
<1> DEFINE c == call[t]
<1>1. c \in CallRecord /\ c.ret \in Results /\ OpAt(c)
  BY CallsAre DEF TruthInv
<1>2. ASSUME NEW d, call' = [call EXCEPT ![t] = d], UNCHANGED <<status, child, code>>,
             \/ d.pc = "idle" /\ d.op # "wait"
             \/ d.pc \in {"next", "wait", "signal"} /\ d.op \in {"stop", "destroy"}
             \/ d.pc = "release" /\ d.op = "destroy"
      PROVE  TruthInv'
  <2>1. OpAt(d)
    BY <1>2 DEF OpAt, Waiters, Signallers
  <2>2. TrueRet(call[t])'
    BY <1>2 DEF TrueRet, TypeInv, TypeOK
  <2>3. QED
    BY <1>2, <2>1, <2>2, TruthStep
<1>3. CASE StopLoop(t)
  <2> DEFINE d1 == [c EXCEPT !.i = c.i + 1, !.ret = 0]
             d2 == [c EXCEPT !.pc = "wait", !.timeout = c.plan[c.i].timeout]
             d3 == [c EXCEPT !.pc = "signal"]
             d4 == StopEnds(c, c.ret)
  <2>1. c.pc = "next" /\ c.op \in {"stop", "destroy"}
    BY <1>1, <1>3 DEF StopLoop, OpAt
  <2>2. /\ d1.op = c.op /\ d1.pc = "next"
        /\ d2.op = c.op /\ d2.pc = "wait"
        /\ d3.op = c.op /\ d3.pc = "signal"
    BY <1>1, <2>1 DEF CallRecord
  <2>3. d4.op = c.op /\ d4.pc = IF c.op = "destroy" THEN "release" ELSE "idle"
    BY <1>1, StopEndsIs
  <2>4. /\ UNCHANGED <<status, child, code>>
        /\ \E d \in {d1, d2, d3, d4} : call' = [call EXCEPT ![t] = d]
    BY <1>3 DEF StopLoop, Goto, SetCall, handleVars, childVars
  <2>5. QED
    <3> HIDE DEF d1, d2, d3, d4
    <3>1. PICK d \in {d1, d2, d3, d4} : call' = [call EXCEPT ![t] = d]
      BY <2>4
    <3>2. d.op = c.op /\ d.pc \in {"next", "wait", "signal", "release", "idle"}
          /\ (d.pc = "release" => d.op = "destroy")
      BY <2>1, <2>2, <2>3, <3>1
    <3>3. QED
      BY <1>2, <2>1, <2>4, <3>1, <3>2
<1>4. CASE DestroyReleases(t)
  <2>1. c.op = "destroy"
    BY <1>1, <1>4 DEF OpAt, DestroyReleases
  <2> DEFINE d == Returned(c, c.ret)
  <2>2. d.op = c.op /\ d.pc = "idle"
    BY <1>1, ReturnedIs
  <2>3. call' = [call EXCEPT ![t] = d] /\ UNCHANGED <<status, child, code>>
    BY <1>4 DEF DestroyReleases, SetCall, childVars
  <2>4. QED
    <3> HIDE DEF d
    <3>1. QED
      BY <1>2, <2>1, <2>2, <2>3
<1>5. CASE PollExit(t) \/ PollTimesOut(t) \/ PollInterrupted(t)
  <2>1. PICK r, event : c.pc = "polling" /\ PollReturns(t, r, event)
    BY <1>5 DEF PollExit, PollTimesOut, PollInterrupted
  <2> DEFINE e == Returned(c, r)
             d == [e EXCEPT !.event = event]
  <2>2. c.op = "poll"
    BY <1>1, <2>1 DEF OpAt
  <2>3. d.op = "poll" /\ d.pc = "idle"
    BY <1>1, <2>2 DEF Returned, CallRecord
  <2>4. call' = [call EXCEPT ![t] = d] /\ UNCHANGED <<status, child, code>>
    BY <2>1 DEF PollReturns, Goto, SetCall, handleVars, childVars
  <2>5. QED
    <3> HIDE DEF d
    <3>1. QED
      BY <1>2, <2>3, <2>4
<1>6. QED
  BY <1>3, <1>4, <1>5

LEMMA EnvironmentTruth ==
    ASSUME TruthInv, Environment
    PROVE  TruthInv'
<1>1. UNCHANGED <<status, call>>
  BY DEF Environment, ChildExits, ChildSignalled, ChildEnds, ForkedChildReturns, ChildClosesExit,
         ChildForks, DescendantExits, PidReused, DeadlineExpires, handleVars
<1>2. \/ child = "running" /\ child' = "zombie"
      \/ UNCHANGED <<child, code>>
  BY DEF Environment, ChildExits, ChildSignalled, ChildEnds, ForkedChildReturns, ChildClosesExit,
         ChildForks, DescendantExits, PidReused, DeadlineExpires, childVars
<1>3. QED
  BY <1>1, <1>2 DEF TruthInv, OpAt, TrueRet

LEMMA TruthInvariant == Spec => []TruthInv
<1>1. Init => TruthInv
  <2>1. NoCall.pc = "idle" /\ NoCall.op = "none"
    BY DEF NoCall
  <2>2. ASSUME Init, NEW t \in Threads
        PROVE  call[t].pc = "idle" /\ call[t].op = "none"
    BY <2>1, <2>2 DEF Init
  <2>3. ASSUME Init, NEW t \in Threads
        PROVE  OpAt(call[t]) /\ TrueRet(call[t])
    BY <2>2, <2>3 DEF OpAt, TrueRet
  <2>4. ASSUME Init
        PROVE  child = "none" /\ status = STATUS_NOT_STARTED /\ ~(status >= 0)
    BY <2>4 DEF Init, STATUS_NOT_STARTED
  <2>5. QED
    BY <2>3, <2>4 DEF TruthInv
<1>2. TypeInv /\ TruthInv /\ [Next]_vars => TruthInv'
  <2>1. ASSUME TypeInv, TruthInv, NEW t \in Threads, Step(t) \/ BrokenOff(t)
        PROVE  TruthInv'
    BY <2>1, WaitTruth, SignalTruth, StopAndPollTruth DEF Step, BrokenOff
  <2>2. ASSUME TruthInv, UNCHANGED vars
        PROVE  TruthInv'
    BY <2>2 DEF vars, childVars, handleVars, TruthInv, OpAt, TrueRet
  <2>3. QED
    BY <2>1, <2>2, BeginTruth, EnvironmentTruth DEF Next
<1>3. QED
  BY <1>1, <1>2, TypeInvariant, PTL DEF Spec

\* The status in the handle and the results of reproc_wait are the exit status
\* of a child that has been reaped, however calls overlap.
THEOREM ExitStatusIsTrue == Spec => []ExitStatusTrue
<1>1. TruthInv => ExitStatusTrue
  BY DEF TruthInv, TrueRet, ExitStatusTrue, Last
<1>2. QED
  BY <1>1, TruthInvariant, PTL
=============================================================================
