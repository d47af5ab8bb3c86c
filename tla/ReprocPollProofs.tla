---------------------------- MODULE ReprocPollProofs ----------------------------
(***************************************************************************)
(* Theorems about ReprocPoll, for any number of sources, any deadlines and *)
(* timeouts, and any speed of the clock.                                   *)
(***************************************************************************)
EXTENDS ReprocPoll, FiniteSetTheorems, TLAPS

USE PollAssumption

Times == Nat \cup {REPROC_INFINITE}

LEMMA ExpiryType ==
    ASSUME NEW t \in Times, NEW d \in Times, NEW n \in Nat
    PROVE  /\ Expiry(t, d, n) \in Times \cup {REPROC_DEADLINE}
           /\ Expiry(t, d, n) = REPROC_DEADLINE <=> d # REPROC_INFINITE /\ n >= d
           /\ Expiry(t, d, n) # REPROC_DEADLINE /\ d # REPROC_INFINITE =>
                Expiry(t, d, n) # REPROC_INFINITE /\ n + Expiry(t, d, n) <= d
  BY DEF Expiry, Times, MinOf, REPROC_INFINITE, REPROC_DEADLINE

LEMMA FindExpiry ==
    ASSUME NEW d \in Times, NEW n \in Nat
    PROVE  /\ d = REPROC_INFINITE => Expiry(REPROC_INFINITE, d, n) = REPROC_INFINITE
           /\ d # REPROC_INFINITE /\ n < d => Expiry(REPROC_INFINITE, d, n) = d - n
  BY DEF Expiry, Times, REPROC_INFINITE, REPROC_DEADLINE
-----------------------------------------------------------------------------
(* Type correctness. *)

LEMMA CountType ==
    ASSUME NEW ev \in [Sources -> SUBSET (Pipes \cup {"deadline"})]
    PROVE  CountSources(ev) \in 0..N
<1>1. IsFiniteSet(Sources) /\ Cardinality(Sources) = N
  BY FS_Interval DEF Sources
<1>2. {s \in Sources : ev[s] # {}} \in SUBSET Sources
  OBVIOUS
<1>3. /\ IsFiniteSet({s \in Sources : ev[s] # {}})
      /\ Cardinality({s \in Sources : ev[s] # {}}) <= N
  BY <1>1, <1>2, FS_Subset
<1>4. Cardinality({s \in Sources : ev[s] # {}}) \in Nat
  BY <1>3, FS_CardinalityType
<1>5. QED
  BY <1>3, <1>4 DEF CountSources

LEMMA ReturnTypes ==
    ASSUME TypeOK,
           NEW r \in 0..N \cup {EINTR, EPIPE, 1},
           NEW ev \in [Sources -> SUBSET (Pipes \cup {"deadline"})],
           Return(r, ev)
    PROVE  TypeOK'
  BY DEF Return, Forgotten, TypeOK, processVars, NoEvents, Sources, REPROC_INFINITE

LEMMA CallTypes == TypeOK /\ Call => TypeOK'
  BY DEF TypeOK, Call, processVars, NoEvents, Sources, REPROC_INFINITE

LEMMA FindTypes ==
    ASSUME TypeOK, Find
    PROVE  TypeOK'
<1>1. i \in Sources /\ i + 1 \in 0..N
  BY DEF Find, TypeOK, Sources
<1>2. DEFINE current == Expiry(REPROC_INFINITE, deadline[i], clock)
<1>3. current \in Times \cup {REPROC_DEADLINE}
  BY <1>1, ExpiryType DEF TypeOK, Times
<1>4. /\ i' \in 0..N /\ earliest' \in Sources /\ min' \in Times
      /\ pc' \in {"find", "expiry"}
  <2>1. CASE i \in null
    BY <1>1, <2>1 DEF Find, TypeOK, Times
  <2>2. CASE i \notin null /\ current = REPROC_DEADLINE
    BY <1>1, <2>2 DEF Find, TypeOK, Times
  <2>3. CASE i \notin null /\ current # REPROC_DEADLINE
    BY <1>1, <1>3, <2>3 DEF Find, TypeOK, Times
  <2>4. QED
    BY <2>1, <2>2, <2>3
<1>5. UNCHANGED <<processVars, clock, timeout, interests, first, began, slept, events, ret>>
  BY DEF Find
<1>6. QED
  BY <1>4, <1>5 DEF TypeOK, Times, processVars

LEMMA ExpiryStepTypes ==
    ASSUME TypeOK, ReturnDeadline \/ ReturnEPIPE \/ EnterPoll
    PROVE  TypeOK'
<1>1. CASE ReturnDeadline
  <2>1. [NoEvents EXCEPT ![earliest] = {"deadline"}] \in [Sources -> SUBSET (Pipes \cup {"deadline"})]
    BY DEF NoEvents
  <2>2. QED
    BY <1>1, <2>1, ReturnTypes DEF ReturnDeadline
<1>2. CASE ReturnEPIPE
  BY <1>2, ReturnTypes DEF ReturnEPIPE, TypeOK
<1>3. CASE EnterPoll
  <2>1. Deadline(earliest) \in Times /\ timeout \in Times /\ clock \in Nat
    BY DEF Deadline, TypeOK, Times
  <2>2. first' \in Times
    <3>1. Expiry(timeout, Deadline(earliest), clock) \in Times \cup {REPROC_DEADLINE}
      BY <2>1, ExpiryType
    <3>2. QED
      BY <1>3, <3>1 DEF EnterPoll
  <2>3. QED
    BY <1>3, <2>2 DEF EnterPoll, TypeOK, Times, processVars
<1>4. QED
  BY <1>1, <1>2, <1>3

LEMMA PollStepTypes ==
    ASSUME TypeOK, PollEvents \/ PollTimesOut \/ PollInterrupted
    PROVE  TypeOK'
<1>1. CASE PollEvents
  <2>1. PICK ev : /\ ev = [s \in Sources |->
                            {IndexPipe(j) : j \in {k \in Indices : PipeEvents(k) /\ IndexSource(k) = s}}]
                  /\ Return(CountSources(ev), ev)
    BY <1>1 DEF PollEvents
  <2>2. \A j \in Indices : IndexPipe(j) \in Pipes
    <3>1. \A j \in Indices : j % PIPES_PER_SOURCE \in 0..3
      <4>1. \A j \in Int : j % 4 \in 0..3
        OBVIOUS
      <4>2. Indices \subseteq Int
        BY DEF Indices
      <4>3. QED
        BY <4>1, <4>2 DEF PIPES_PER_SOURCE
    <3>2. QED
      BY <3>1 DEF IndexPipe, Pipes
  <2>3. ev \in [Sources -> SUBSET (Pipes \cup {"deadline"})]
    BY <2>1, <2>2
  <2>4. QED
    BY <2>1, <2>3, CountType, ReturnTypes
<1>2. CASE PollTimesOut
  <2>1. /\ [NoEvents EXCEPT ![earliest] = {"deadline"}] \in [Sources -> SUBSET (Pipes \cup {"deadline"})]
        /\ NoEvents \in [Sources -> SUBSET (Pipes \cup {"deadline"})]
    BY DEF NoEvents
  <2>2. \/ Return(1, [NoEvents EXCEPT ![earliest] = {"deadline"}])
        \/ Return(0, NoEvents)
    BY <1>2 DEF PollTimesOut
  <2>3. 0 \in 0..N
    OBVIOUS
  <2>4. QED
    BY <2>1, <2>2, <2>3, ReturnTypes
<1>3. CASE PollInterrupted
  BY <1>3, ReturnTypes DEF PollInterrupted, TypeOK
<1>4. QED
  BY <1>1, <1>2, <1>3

LEMMA OutsideTypes ==
    ASSUME TypeOK, FindEnds \/ BecomesReady \/ Consume \/ Close \/ Reaped \/ Tick \/ UNCHANGED vars
    PROVE  TypeOK'
<1>1. CASE FindEnds
  BY <1>1 DEF FindEnds, TypeOK, processVars, localVars
<1>2. CASE BecomesReady
  BY <1>2 DEF BecomesReady, TypeOK, localVars
<1>3. CASE Consume \/ Close
  BY <1>3 DEF Consume, Close, TypeOK, localVars
<1>4. CASE Reaped
  BY <1>4 DEF Reaped, TypeOK, localVars
<1>5. CASE Tick
  BY <1>5 DEF Tick, TypeOK, processVars, localVars
<1>6. CASE UNCHANGED vars
  BY <1>6 DEF vars, TypeOK, processVars, localVars
<1>7. QED
  BY <1>1, <1>2, <1>3, <1>4, <1>5, <1>6

LEMMA InitType == Init => TypeOK
<1>1. SUFFICES ASSUME Init PROVE TypeOK
  OBVIOUS
<1>2. null \subseteq Sources /\ deadline \in [Sources -> Nat \cup {REPROC_INFINITE}]
  BY <1>1 DEF Init
<1>3. valid \in [Sources -> SUBSET Pipes]
  BY <1>1 DEF Init
<1>4. kept \in [Sources -> SUBSET Pipes]
  <2>1. PICK platform \in {"posix", "windows"} :
          kept = [s \in Sources |->
                    IF platform = "windows" /\ s \notin null THEN valid[s] \cap {"out", "err"} ELSE {}]
    BY <1>1 DEF Init
  <2>2. QED
    BY <1>3, <2>1 DEF Pipes
<1>5. ready \in [Sources -> SUBSET Pipes] /\ interests \in [Sources -> SUBSET Pipes]
      /\ events \in [Sources -> SUBSET (Pipes \cup {"deadline"})]
  BY <1>1 DEF Init, NoEvents
<1>6. i \in 0..N /\ earliest \in Sources /\ ret \in 0..N
  BY <1>1 DEF Init, Sources
<1>7. QED
  BY <1>1, <1>2, <1>3, <1>4, <1>5, <1>6 DEF Init, TypeOK

\* Every variable of ReprocPoll keeps its type: in particular the result counts
\* no more sources than there are, and the timeout handed to poll(2) is a number
\* of milliseconds or infinite, never REPROC_DEADLINE.
THEOREM PollTypeCorrect == Spec => []TypeOK
<1>1. Init => TypeOK
  BY InitType
<1>2. TypeOK /\ [Next]_vars => TypeOK'
  BY CallTypes, FindTypes, ExpiryStepTypes, PollStepTypes, OutsideTypes DEF Next, Step
<1>3. QED
  BY <1>1, <1>2, PTL DEF Spec
-----------------------------------------------------------------------------
(* poll(2) does not sleep past a deadline. *)

\* What find_earliest_deadline knows of the first n sources: none of them has a
\* deadline, or `min` is what was left until the deadline of `earliest` at some
\* moment since the call began, and no other was closer when the call began.
Searched(n) ==
    \/ min = REPROC_INFINITE /\ \A s \in 0..n - 1 : Deadline(s) = REPROC_INFINITE
    \/ /\ min # REPROC_INFINITE
       /\ Deadline(earliest) # REPROC_INFINITE
       /\ began <= Deadline(earliest) - min /\ Deadline(earliest) - min <= clock
       /\ \A s \in 0..n - 1 : Deadline(s) # REPROC_INFINITE => min <= Deadline(s) - began

EarliestExpired == Deadline(earliest) # REPROC_INFINITE /\ clock >= Deadline(earliest)

SearchInv ==
    /\ TypeOK
    /\ pc # "idle" => began <= clock
    /\ pc = "find" /\ ~Mixed => Searched(i)
    /\ pc = "expiry" /\ ~Mixed => EarliestExpired \/ Searched(N)
    /\ SleepsWithinDeadlines

\* Deadlines stay what they are; a search that stands still survives the clock.
LEMMA StandsStill ==
    ASSUME SearchInv, TypeOK',
           UNCHANGED <<null, deadline>>,
           clock <= clock',
           \/ pc' = "idle"
           \/ UNCHANGED <<pc, timeout, interests, i, earliest, min, first, began, slept>>
    PROVE  SearchInv'
<1>1. (Mixed' <=> Mixed) /\ \A s : Deadline(s)' = Deadline(s)
  BY DEF Mixed, Deadline
<1>2. CASE pc' = "idle"
  BY <1>2 DEF SearchInv, SleepsWithinDeadlines
<1>3. CASE UNCHANGED <<pc, timeout, interests, i, earliest, min, first, began, slept>>
  <2>1. clock \in Nat /\ clock' \in Nat /\ began \in Nat /\ min \in Int /\ Deadline(earliest) \in Int
    BY DEF SearchInv, TypeOK, Deadline, REPROC_INFINITE
  <2>2. \A n : Searched(n) => Searched(n)'
    BY <1>1, <1>3, <2>1 DEF Searched
  <2>3. EarliestExpired => EarliestExpired'
    BY <1>1, <1>3, <2>1 DEF EarliestExpired
  <2>4. SleepsWithinDeadlines'
    BY <1>1, <1>3 DEF SearchInv, SleepsWithinDeadlines
  <2>5. pc' # "idle" => began' <= clock'
    BY <1>3, <2>1 DEF SearchInv
  <2>6. QED
    BY <1>1, <1>3, <2>2, <2>3, <2>4, <2>5 DEF SearchInv
<1>4. QED
  BY <1>2, <1>3

LEMMA CallSearches == SearchInv /\ TypeOK' /\ Call => SearchInv'
  BY DEF SearchInv, Call, TypeOK, Searched, SleepsWithinDeadlines, processVars

\* One iteration of the search.
LEMMA FindSearches ==
    ASSUME SearchInv, TypeOK', Find
    PROVE  SearchInv'
<1> DEFINE current == Expiry(REPROC_INFINITE, deadline[i], clock)
<1>1. /\ i \in Sources /\ i \in Nat /\ clock \in Nat /\ began \in Nat /\ began <= clock
      /\ deadline[i] \in Times /\ min \in Times
  BY DEF Find, SearchInv, TypeOK, Sources, Times
<1>2. /\ UNCHANGED <<null, deadline, clock, began, timeout>>
      /\ (Mixed' <=> Mixed) /\ \A s : Deadline(s)' = Deadline(s)
  BY DEF Find, processVars, Mixed, Deadline
<1>3. pc' \in {"find", "expiry"}
  BY DEF Find
<1>4. ASSUME ~Mixed
      PROVE  (pc' = "find" => Searched(i)') /\ (pc' = "expiry" => EarliestExpired' \/ Searched(N)')
  <2>1. Searched(i)
    BY <1>4 DEF Find, SearchInv
  <2>2. CASE i \in null
    <3>1. Deadline(i) = REPROC_INFINITE
      BY <2>2 DEF Deadline
    <3>2. pc' = "find" /\ i' = i + 1 /\ UNCHANGED <<earliest, min>>
      BY <2>2 DEF Find
    <3>3. \A s \in 0..i' - 1 : s \in 0..i - 1 \/ s = i
      BY <1>1, <3>2
    <3>4. Searched(i)'
      BY <1>2, <2>1, <3>1, <3>2, <3>3 DEF Searched
    <3>5. QED
      BY <3>2, <3>4
  <2>3. CASE i \notin null /\ current = REPROC_DEADLINE
    <3>1. Deadline(i) # REPROC_INFINITE /\ clock >= Deadline(i)
      BY <1>1, <2>3, ExpiryType DEF Deadline, Times
    <3>2. pc' = "expiry" /\ earliest' = i
      BY <2>3 DEF Find
    <3>3. QED
      BY <1>2, <3>1, <3>2 DEF EarliestExpired
  <2>4. CASE i \notin null /\ current # REPROC_DEADLINE
    <3>1. /\ pc' = "find" /\ i' = i + 1
          /\ earliest' = IF Closer(current) THEN i ELSE earliest
          /\ min' = IF Closer(current) THEN current ELSE min
      BY <2>4 DEF Find
    <3>2. \A s \in 0..i' - 1 : s \in 0..i - 1 \/ s = i
      BY <1>1, <3>1
    <3>3. Deadline(i) = deadline[i]
      BY <2>4 DEF Deadline
    <3>4. CASE deadline[i] = REPROC_INFINITE
      <4>1. \A s \in Sources : Deadline(s) = REPROC_INFINITE
        BY <1>1, <1>4, <2>4, <3>4 DEF Mixed, Deadline
      <4>2. min = REPROC_INFINITE
        BY <2>1, <4>1 DEF Searched, SearchInv, TypeOK
      <4>3. current = REPROC_INFINITE
        BY <1>1, <3>4, FindExpiry
      <4>4. min' = REPROC_INFINITE
        BY <3>1, <4>2, <4>3 DEF Closer
      <4>5. \A s \in 0..i' - 1 : Deadline(s) = REPROC_INFINITE
        BY <2>1, <3>2, <3>3, <3>4, <4>2 DEF Searched
      <4>6. QED
        BY <1>2, <3>1, <4>4, <4>5 DEF Searched
    <3>5. CASE deadline[i] # REPROC_INFINITE
      <4>1. clock < deadline[i] /\ current = deadline[i] - clock /\ deadline[i] \in Nat
        <5>1. REPROC_INFINITE \in Times /\ deadline[i] \in Nat
          BY <1>1, <3>5 DEF Times
        <5>2. ~(clock >= deadline[i])
          BY <1>1, <2>4, <3>5, <5>1, ExpiryType
        <5>3. clock < deadline[i]
          BY <1>1, <5>1, <5>2
        <5>4. QED
          BY <1>1, <3>5, <5>1, <5>3, FindExpiry
      <4>2. current # REPROC_INFINITE /\ current \in Int
        BY <1>1, <4>1 DEF REPROC_INFINITE
      <4>3. CASE Closer(current)
        <5>1. earliest' = i /\ min' = current
          BY <3>1, <4>3
        <5>2. \A s \in 0..i - 1 : Deadline(s) # REPROC_INFINITE => current <= Deadline(s) - began
          <6>1. SUFFICES ASSUME NEW s \in 0..i - 1, Deadline(s) # REPROC_INFINITE
                         PROVE  current <= Deadline(s) - began
            OBVIOUS
          <6>2. min # REPROC_INFINITE /\ min <= Deadline(s) - began
            BY <2>1, <6>1 DEF Searched
          <6>3. Deadline(s) \in Int
            BY <1>1, <6>1 DEF SearchInv, TypeOK, Sources, Deadline, REPROC_INFINITE
          <6>4. current < min /\ min \in Int
            BY <1>1, <4>3, <6>2 DEF Closer, Times
          <6>5. QED
            BY <1>1, <4>2, <6>2, <6>3, <6>4
        <5>3. current <= Deadline(i) - began /\ began <= Deadline(i) - current /\ Deadline(i) - current <= clock
          BY <1>1, <3>3, <4>1
        <5>4. QED
          BY <1>2, <3>1, <3>2, <3>3, <3>5, <4>2, <5>1, <5>2, <5>3 DEF Searched
      <4>4. CASE ~Closer(current)
        <5>1. earliest' = earliest /\ min' = min /\ min # REPROC_INFINITE /\ min \in Int
          BY <1>1, <3>1, <4>4 DEF Closer, Times
        <5>2. min <= Deadline(i) - began
          BY <1>1, <3>3, <4>1, <4>4, <5>1 DEF Closer
        <5>3. QED
          BY <1>2, <2>1, <3>1, <3>2, <5>1, <5>2 DEF Searched
      <4>5. QED
        BY <4>3, <4>4
    <3>6. QED
      BY <3>4, <3>5
  <2>5. QED
    BY <2>2, <2>3, <2>4
<1>5. QED
  BY <1>1, <1>2, <1>3, <1>4 DEF SearchInv, SleepsWithinDeadlines

LEMMA FindEndsSearched == SearchInv /\ TypeOK' /\ FindEnds => SearchInv'
<1> SUFFICES ASSUME SearchInv, TypeOK', FindEnds PROVE SearchInv'
  OBVIOUS
<1>1. pc' = "expiry" /\ i = N /\ UNCHANGED <<null, deadline, clock, earliest, min, began>>
  BY DEF FindEnds, processVars, localVars
<1>2. (Mixed' <=> Mixed) /\ \A s : Deadline(s)' = Deadline(s)
  BY <1>1 DEF Mixed, Deadline
<1>3. ~Mixed' => Searched(N)'
  BY <1>1, <1>2 DEF FindEnds, SearchInv, Searched
<1>4. QED
  BY <1>1, <1>3 DEF FindEnds, SearchInv, SleepsWithinDeadlines

LEMMA EnterPollSleeps ==
    ASSUME SearchInv, TypeOK', EnterPoll
    PROVE  SearchInv'
<1>1. pc' = "poll" /\ slept' = clock /\ UNCHANGED <<null, deadline, clock, began>>
  BY DEF EnterPoll, processVars
<1>2. (Mixed' <=> Mixed) /\ \A s : Deadline(s)' = Deadline(s)
  BY <1>1 DEF Mixed, Deadline
<1>3. /\ clock \in Nat /\ began \in Nat /\ min \in Int /\ timeout \in Times
      /\ \A s \in Sources : Deadline(s) \in Times
      /\ earliest \in Sources
  BY DEF SearchInv, TypeOK, Deadline, Times, REPROC_INFINITE
<1>4. ASSUME ~Mixed, NEW s \in Sources, Deadline(s) # REPROC_INFINITE
      PROVE  first' # REPROC_INFINITE /\ clock + first' <= Deadline(s) + (clock - began)
  <2>1. first' = Expiry(timeout, Deadline(earliest), clock) /\ first' # REPROC_DEADLINE
    BY DEF EnterPoll
  <2>2. ~EarliestExpired
    BY <1>3, <2>1, ExpiryType DEF EarliestExpired
  <2>3. Searched(N)
    BY <1>4, <2>2 DEF EnterPoll, SearchInv
  <2>4. s \in 0..N - 1
    BY DEF Sources
  <2>5. /\ Deadline(earliest) # REPROC_INFINITE
        /\ Deadline(earliest) - min <= clock
        /\ min <= Deadline(s) - began
    BY <1>4, <2>3, <2>4 DEF Searched
  <2>6. first' # REPROC_INFINITE /\ clock + first' <= Deadline(earliest)
    BY <1>3, <2>1, <2>5, ExpiryType
  <2>7. first' \in Int /\ Deadline(earliest) \in Int /\ Deadline(s) \in Int
    BY <1>3 DEF TypeOK, Times, REPROC_INFINITE
  <2>8. QED
    BY <1>3, <2>5, <2>6, <2>7
<1>5. SleepsWithinDeadlines'
  BY <1>1, <1>2, <1>4 DEF SleepsWithinDeadlines
<1>6. began' <= clock'
  BY <1>1 DEF EnterPoll, SearchInv
<1>7. QED
  BY <1>1, <1>5, <1>6 DEF SearchInv

LEMMA OtherSteps ==
    ASSUME SearchInv, TypeOK',
           \/ ReturnDeadline \/ ReturnEPIPE \/ PollEvents \/ PollTimesOut \/ PollInterrupted
           \/ BecomesReady \/ Consume \/ Close \/ Reaped \/ Tick \/ UNCHANGED vars
    PROVE  SearchInv'
<1>1. clock \in Nat
  BY DEF SearchInv, TypeOK
<1>2. CASE ReturnDeadline \/ ReturnEPIPE \/ PollEvents \/ PollTimesOut \/ PollInterrupted
  <2>1. pc' = "idle" /\ UNCHANGED <<null, deadline, clock>>
    BY <1>2 DEF ReturnDeadline, ReturnEPIPE, PollEvents, PollTimesOut, PollInterrupted, Return, processVars
  <2>2. QED
    BY <1>1, <2>1, StandsStill
<1>3. CASE BecomesReady \/ Consume \/ Close \/ Reaped \/ UNCHANGED vars
  <2>1. UNCHANGED <<null, deadline, clock, pc, localVars>>
    BY <1>3 DEF BecomesReady, Consume, Close, Reaped, vars, processVars
  <2>2. QED
    BY <1>1, <2>1, StandsStill DEF localVars
<1>4. CASE Tick
  <2>1. UNCHANGED <<null, deadline, pc, localVars>> /\ clock' = clock + 1
    BY <1>4 DEF Tick, processVars
  <2>2. QED
    BY <1>1, <2>1, StandsStill DEF localVars
<1>5. QED
  BY <1>2, <1>3, <1>4

\* However long the search takes and however the clock moves during it, poll(2)
\* is never told to sleep past any of the deadlines by more than that time,
\* provided that all processes have a deadline, or none.
THEOREM PollSleepsWithinDeadlines == Spec => []SleepsWithinDeadlines
<1>1. Init => SearchInv
  <2>1. Init => TypeOK /\ pc = "idle"
    BY InitType DEF Init
  <2>2. QED
    BY <2>1 DEF SearchInv, SleepsWithinDeadlines
<1>2. SearchInv /\ TypeOK' /\ [Next]_vars => SearchInv'
  BY CallSearches, FindSearches, FindEndsSearched, EnterPollSleeps, OtherSteps DEF Next, Step
<1>3. SearchInv => SleepsWithinDeadlines
  BY DEF SearchInv
<1>4. QED
  BY <1>1, <1>2, <1>3, PollTypeCorrect, PTL DEF Spec
-----------------------------------------------------------------------------
(* Deadlines and timeouts are told apart. *)

LEMMA ExpiryCases ==
    ASSUME NEW t \in Times, NEW d \in Times, NEW n \in Nat,
           Expiry(t, d, n) # REPROC_DEADLINE
    PROVE  Expiry(t, d, n) = t \/ (d # REPROC_INFINITE /\ Expiry(t, d, n) = d - n)
  BY DEF Expiry, Times, MinOf, REPROC_INFINITE, REPROC_DEADLINE

\* What a call in poll(2) sleeps for is the first of its timeout and the deadline
\* of `earliest`, as they were when it entered poll(2).
PollInv ==
    /\ TypeOK
    /\ pc # "idle" => began <= clock
    /\ pc = "poll" => /\ began <= slept
                      /\ first # REPROC_DEADLINE
                      /\ first = Expiry(timeout, Deadline(earliest), slept)

LEMMA PollInvStep ==
    ASSUME PollInv, TypeOK', [Next]_vars
    PROVE  PollInv'
<1>1. clock \in Nat /\ began \in Nat
  BY DEF PollInv, TypeOK
<1>2. CASE Call
  BY <1>1, <1>2 DEF Call, PollInv
<1>3. CASE Find \/ FindEnds
  BY <1>3 DEF Find, FindEnds, PollInv, processVars, localVars
<1>4. CASE EnterPoll
  BY <1>4 DEF EnterPoll, PollInv, Deadline, processVars
<1>5. CASE ReturnDeadline \/ ReturnEPIPE \/ PollEvents \/ PollTimesOut \/ PollInterrupted
  <2>1. pc' = "idle"
    BY <1>5 DEF ReturnDeadline, ReturnEPIPE, PollEvents, PollTimesOut, PollInterrupted, Return
  <2>2. QED
    BY <2>1 DEF PollInv
<1>6. CASE BecomesReady \/ Consume \/ Close \/ Reaped \/ Tick \/ UNCHANGED vars
  <2>1. UNCHANGED <<null, deadline, pc, localVars>> /\ clock <= clock'
    BY <1>1, <1>6 DEF BecomesReady, Consume, Close, Reaped, Tick, vars, processVars
  <2>2. /\ began' = began /\ slept' = slept /\ first' = first /\ pc' = pc
        /\ timeout' = timeout /\ earliest' = earliest /\ Deadline(earliest)' = Deadline(earliest)
    BY <2>1 DEF localVars, Deadline
  <2>3. clock' \in Nat
    BY DEF TypeOK
  <2>4. QED
    BY <1>1, <2>1, <2>2, <2>3 DEF PollInv
<1>7. QED
  BY <1>2, <1>3, <1>4, <1>5, <1>6 DEF Next, Step

\* The invariant holds in every state, with the type of the next one.
LEMMA PollInvariant == Spec => []PollInv
<1>1. Init => PollInv
  BY InitType DEF Init, PollInv
<1>2. PollInv /\ TypeOK' /\ [Next]_vars => PollInv'
  BY PollInvStep
<1>3. QED
  BY <1>1, <1>2, PollTypeCorrect, PTL DEF Spec

\* The array of pipes: every index is one pipe of one source.
LEMMA Layout ==
    ASSUME NEW j \in Indices
    PROVE  /\ IndexSource(j) \in Sources
           /\ IndexPipe(j) \in Pipes
           /\ PipeAt(j) = IF Polled(IndexSource(j), IndexPipe(j))
                          THEN {<<IndexSource(j), IndexPipe(j)>>} ELSE {}
<1>1. j \in Int /\ 0 <= j /\ j <= N * 4 - 1
  BY DEF Indices, PIPES_PER_SOURCE
<1>2. j \div 4 \in 0..N - 1
  BY <1>1
<1>3. j % 4 = 0 \/ j % 4 = 1 \/ j % 4 = 2 \/ j % 4 = 3
  BY <1>1
<1>4. IndexSource(j) \in Sources
  BY <1>2 DEF IndexSource, Sources, PIPES_PER_SOURCE
<1> DEFINE q == CASE j % PIPES_PER_SOURCE = 0 -> "in"
                  [] j % PIPES_PER_SOURCE = 1 -> "out"
                  [] j % PIPES_PER_SOURCE = 2 -> "err"
                  [] OTHER -> "exit"
<1>5. PipeAt(j) = IF Polled(IndexSource(j), q) THEN {<<IndexSource(j), q>>} ELSE {}
  BY Zenon DEF PipeAt
<1>6. q = IndexPipe(j) /\ q \in Pipes
  <2>1. CASE j % 4 = 0
    <3>1. j % PIPES_PER_SOURCE = 0
      BY <2>1 DEF PIPES_PER_SOURCE
    <3>2. q = "in" /\ IndexPipe(j) = "in"
      BY <3>1 DEF IndexPipe
    <3>3. QED
      BY <3>2 DEF Pipes
  <2>2. CASE j % 4 = 1
    <3>1. j % PIPES_PER_SOURCE = 1
      BY <2>2 DEF PIPES_PER_SOURCE
    <3>2. q = "out" /\ IndexPipe(j) = "out"
      BY <3>1 DEF IndexPipe
    <3>3. QED
      BY <3>2 DEF Pipes
  <2>3. CASE j % 4 = 2
    <3>1. j % PIPES_PER_SOURCE = 2
      BY <2>3 DEF PIPES_PER_SOURCE
    <3>2. q = "err" /\ IndexPipe(j) = "err"
      BY <3>1 DEF IndexPipe
    <3>3. QED
      BY <3>2 DEF Pipes
  <2>4. CASE j % 4 = 3
    <3>1. j % PIPES_PER_SOURCE = 3
      BY <2>4 DEF PIPES_PER_SOURCE
    <3>2. q = "exit" /\ IndexPipe(j) = "exit"
      BY <3>1 DEF IndexPipe
    <3>3. QED
      BY <3>2 DEF Pipes
  <2>5. QED
    BY <1>3, <2>1, <2>2, <2>3, <2>4
<1>7. QED
  BY <1>4, <1>5, <1>6

LEMMA PipeEventsAt ==
    ASSUME NEW j \in Indices
    PROVE  PipeEvents(j) <=> /\ Polled(IndexSource(j), IndexPipe(j))
                             /\ IndexPipe(j) \in ready[IndexSource(j)]
<1>1. CASE Polled(IndexSource(j), IndexPipe(j))
  <2>1. PipeAt(j) = {<<IndexSource(j), IndexPipe(j)>>}
    BY <1>1, Layout
  <2>2. QED
    BY <1>1, <2>1 DEF PipeEvents
<1>2. CASE ~Polled(IndexSource(j), IndexPipe(j))
  <2>1. PipeAt(j) = {}
    BY <1>2, Layout
  <2>2. QED
    BY <1>2, <2>1 DEF PipeEvents
<1>3. QED
  BY <1>1, <1>2

\* Every pipe of every source has its index.
LEMMA IndexOf ==
    ASSUME NEW s \in Sources, NEW p \in Pipes
    PROVE  \E j \in Indices : IndexSource(j) = s /\ IndexPipe(j) = p
<1>1. s \in Int /\ 0 <= s /\ s <= N - 1
  BY DEF Sources
<1>2. \A o \in 0..3 : /\ 4 * s + o \in 0..N * 4 - 1
                      /\ (4 * s + o) % 4 = o
                      /\ (4 * s + o) \div 4 = s
  BY <1>1
<1>3. \A o \in 0..3 : /\ 4 * s + o \in Indices
                      /\ IndexSource(4 * s + o) = s
                      /\ IndexPipe(4 * s + o) = <<"in", "out", "err", "exit">>[o + 1]
  BY <1>2 DEF Indices, IndexSource, IndexPipe, PIPES_PER_SOURCE
<1>4. \E o \in 0..3 : <<"in", "out", "err", "exit">>[o + 1] = p
  <2>1. CASE p = "in"
    BY <2>1, <<"in", "out", "err", "exit">>[0 + 1] = p, 0 \in 0..3
  <2>2. CASE p = "out"
    BY <2>2, <<"in", "out", "err", "exit">>[1 + 1] = p, 1 \in 0..3
  <2>3. CASE p = "err"
    BY <2>3, <<"in", "out", "err", "exit">>[2 + 1] = p, 2 \in 0..3
  <2>4. CASE p = "exit"
    BY <2>4, <<"in", "out", "err", "exit">>[3 + 1] = p, 3 \in 0..3
  <2>5. QED
    BY <2>1, <2>2, <2>3, <2>4 DEF Pipes
<1>5. QED
  BY <1>3, <1>4

\* The events that a call in poll(2) reports.
Reported ==
    [s \in Sources |-> {IndexPipe(j) : j \in {k \in Indices : PipeEvents(k) /\ IndexSource(k) = s}}]

LEMMA ReportedTrue ==
    ASSUME NEW s \in Sources
    PROVE  Reported[s] = {p \in Pipes : Polled(s, p) /\ p \in ready[s]}
<1>1. ASSUME NEW p \in Reported[s]
      PROVE  p \in Pipes /\ Polled(s, p) /\ p \in ready[s]
  <2>1. PICK j \in Indices : PipeEvents(j) /\ IndexSource(j) = s /\ p = IndexPipe(j)
    BY <1>1 DEF Reported
  <2>2. QED
    BY <2>1, Layout, PipeEventsAt
<1>2. ASSUME NEW p \in Pipes, Polled(s, p), p \in ready[s]
      PROVE  p \in Reported[s]
  <2>1. PICK j \in Indices : IndexSource(j) = s /\ IndexPipe(j) = p
    BY IndexOf
  <2>2. PipeEvents(j)
    BY <1>2, <2>1, PipeEventsAt
  <2>3. QED
    BY <2>1, <2>2 DEF Reported
<1>3. QED
  BY <1>1, <1>2

LEMMA ReportedType == Reported \in [Sources -> SUBSET Pipes]
  BY Layout DEF Reported

LEMMA PollReports ==
    ASSUME PollEvents
    PROVE  Return(CountSources(Reported), Reported)
  BY DEF PollEvents, Reported

\* Where poll(2) reports something, some source is counted.
LEMMA SomeCounted ==
    ASSUME AnyEvent
    PROVE  CountSources(Reported) # 0
<1>1. PICK j \in Indices : PipeEvents(j)
  BY DEF AnyEvent
<1>2. IndexSource(j) \in Sources /\ IndexPipe(j) \in Reported[IndexSource(j)]
  BY <1>1, Layout DEF Reported
<1>3. IsFiniteSet(Sources)
  BY FS_Interval DEF Sources
<1>4. IsFiniteSet({s \in Sources : Reported[s] # {}})
  <2>1. {s \in Sources : Reported[s] # {}} \in SUBSET Sources
    OBVIOUS
  <2>2. QED
    BY <1>3, <2>1, FS_Subset
<1>5. {s \in Sources : Reported[s] # {}} # {}
  BY <1>2
<1>6. QED
  BY <1>4, <1>5, FS_EmptySet DEF CountSources

\* A process is reported to have reached its deadline only when it has, and 0
\* is returned only when the caller's whole timeout has passed and no pipe that
\* was asked for is ready.
THEOREM PollExpiryTrue == Spec => ExpiryTrue
<1> DEFINE True == /\ \A s \in Sources : "deadline" \in events'[s] /\ ret' > 0
                        => Deadline(s) # REPROC_INFINITE /\ clock >= Deadline(s)
                   /\ ret' = 0 => /\ timeout # REPROC_INFINITE
                                  /\ clock >= began + timeout
                                  /\ ~AnyEvent
                                  /\ events' = NoEvents
<1>1. ASSUME PollInv, Next, Returns
      PROVE  True
  <2>1. /\ clock \in Nat /\ began \in Nat /\ slept \in Nat /\ earliest \in Sources
        /\ timeout \in Times /\ first \in Times /\ Deadline(earliest) \in Times
    BY <1>1 DEF PollInv, TypeOK, Times, Deadline
  <2>2. \A s \in Sources : "deadline" \in [NoEvents EXCEPT ![earliest] = {"deadline"}][s] => s = earliest
    BY <2>1 DEF NoEvents
  <2>3. CASE ReturnDeadline
    <3>1. Deadline(earliest) # REPROC_INFINITE /\ clock >= Deadline(earliest)
      BY <2>1, <2>3, ExpiryType DEF ReturnDeadline
    <3>2. ret' = 1 /\ events' = [NoEvents EXCEPT ![earliest] = {"deadline"}]
      BY <2>3 DEF ReturnDeadline, Return
    <3>3. QED
      BY <2>2, <3>1, <3>2
  <2>4. CASE ReturnEPIPE \/ PollInterrupted
    <3>1. ret' = EPIPE \/ ret' = EINTR
      BY <2>4 DEF ReturnEPIPE, PollInterrupted, Return
    <3>2. QED
      BY <3>1 DEF EPIPE, EINTR
  <2>5. CASE PollEvents
    <3>1. ret' = CountSources(Reported) /\ events' = Reported
      BY <2>5, PollReports DEF Return
    <3>2. ret' # 0
      BY <2>5, <3>1, SomeCounted DEF PollEvents
    <3>3. \A s \in Sources : "deadline" \notin events'[s]
      BY <3>1, ReportedType DEF Pipes
    <3>4. QED
      BY <3>2, <3>3
  <2>6. CASE PollTimesOut
    <3>1. /\ first = Expiry(timeout, Deadline(earliest), slept) /\ first # REPROC_DEADLINE
          /\ began <= slept
      BY <1>1, <2>6 DEF PollInv, PollTimesOut
    <3>2. first = timeout \/ (Deadline(earliest) # REPROC_INFINITE /\ first = Deadline(earliest) - slept)
      BY <2>1, <3>1, ExpiryCases
    <3>3. first # REPROC_INFINITE /\ clock >= slept + first /\ ~AnyEvent
      BY <2>6 DEF PollTimesOut
    <3>4. first \in Nat
      BY <2>1, <3>3 DEF Times
    <3>5. CASE first # timeout
      <4>1. Deadline(earliest) # REPROC_INFINITE /\ clock >= Deadline(earliest)
        <5>1. Deadline(earliest) # REPROC_INFINITE /\ first = Deadline(earliest) - slept
          BY <3>2, <3>5
        <5>2. Deadline(earliest) \in Nat
          BY <2>1, <5>1 DEF Times
        <5>3. QED
          BY <2>1, <3>3, <5>1, <5>2
      <4>2. ret' = 1 /\ events' = [NoEvents EXCEPT ![earliest] = {"deadline"}]
        BY <2>6, <3>5 DEF PollTimesOut, DeadlineWaited, Return
      <4>3. QED
        BY <2>2, <4>1, <4>2
    <3>6. CASE first = timeout
      <4>1. ret' = 0 /\ events' = NoEvents
        BY <2>6, <3>6 DEF PollTimesOut, DeadlineWaited, Return
      <4>2. timeout # REPROC_INFINITE /\ clock >= began + timeout
        BY <2>1, <3>1, <3>3, <3>4, <3>6
      <4>3. QED
        BY <3>3, <4>1, <4>2
    <3>7. QED
      BY <3>5, <3>6
  <2>7. CASE Call \/ Find \/ FindEnds \/ EnterPoll
    BY <1>1, <2>7 DEF Call, Find, FindEnds, EnterPoll, Returns
  <2>8. CASE BecomesReady \/ Consume \/ Close \/ Reaped \/ Tick
    BY <1>1, <2>8 DEF BecomesReady, Consume, Close, Reaped, Tick, Returns
  <2>9. QED
    BY <1>1, <2>3, <2>4, <2>5, <2>6, <2>7, <2>8 DEF Next, Step
<1>2. PollInv /\ [Next]_vars => [Returns => True]_vars
  BY <1>1
<1>3. QED
  BY <1>2, PollInvariant, PTL DEF Spec, ExpiryTrue

\* Whatever the layout of the array of pipes, the events of every pipe reach the
\* source that owns it, no source is given an event it did not ask for, and the
\* result is the number of sources that have one.
THEOREM PollEventsTrue == Spec => EventsTrue
<1> DEFINE Told == /\ \A s \in Sources :
                         \/ events'[s] = {p \in Pipes : Polled(s, p) /\ p \in ready[s]}
                         \/ events'[s] = {"deadline"} /\ ~AnyEvent
                   /\ ret' = Cardinality({s \in Sources : events'[s] # {}})
<1>1. ASSUME PollInv, Next, pc = "poll", Returns, ret' > 0
      PROVE  Told
  <2>1. earliest \in Sources
    BY <1>1 DEF PollInv, TypeOK
  <2>2. CASE PollEvents
    <3>1. ret' = CountSources(Reported) /\ events' = Reported
      BY <2>2, PollReports DEF Return
    <3>2. QED
      BY <3>1, ReportedTrue DEF CountSources
  <2>3. CASE PollTimesOut
    <3>1. ret' = 1 /\ events' = [NoEvents EXCEPT ![earliest] = {"deadline"}] /\ ~AnyEvent
      BY <1>1, <2>3 DEF PollTimesOut, Return
    <3>2. \A s \in Sources : {p \in Pipes : Polled(s, p) /\ p \in ready[s]} = {}
      <4>1. ASSUME NEW s \in Sources, NEW p \in Pipes, Polled(s, p), p \in ready[s]
            PROVE  FALSE
        <5>1. PICK j \in Indices : IndexSource(j) = s /\ IndexPipe(j) = p
          BY IndexOf
        <5>2. QED
          BY <3>1, <4>1, <5>1, PipeEventsAt DEF AnyEvent
      <4>2. QED
        BY <4>1
    <3>3. \A s \in Sources : events'[s] = IF s = earliest THEN {"deadline"} ELSE {}
      BY <2>1, <3>1 DEF NoEvents
    <3>4. {s \in Sources : events'[s] # {}} = {earliest}
      BY <2>1, <3>3
    <3>5. QED
      BY <3>1, <3>2, <3>3, <3>4, FS_Singleton
  <2>4. CASE PollInterrupted
    BY <1>1, <2>4 DEF PollInterrupted, Return, EINTR
  <2>5. CASE Call \/ Find \/ FindEnds \/ ReturnDeadline \/ ReturnEPIPE \/ EnterPoll
    BY <1>1, <2>5 DEF Call, Find, FindEnds, ReturnDeadline, ReturnEPIPE, EnterPoll
  <2>6. CASE BecomesReady \/ Consume \/ Close \/ Reaped \/ Tick
    BY <1>1, <2>6 DEF BecomesReady, Consume, Close, Reaped, Tick, Returns
  <2>7. QED
    BY <1>1, <2>2, <2>3, <2>4, <2>5, <2>6 DEF Next, Step
<1>2. PollInv /\ [Next]_vars => [pc = "poll" /\ Returns /\ ret' > 0 => Told]_vars
  BY <1>1
<1>3. QED
  BY <1>2, PollInvariant, PTL DEF Spec, EventsTrue
=============================================================================
