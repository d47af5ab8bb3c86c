------------------------ MODULE ReprocWindowsProofs ------------------------
(***************************************************************************)
(* Theorems about ReprocWindows, for any number of threads, any options,   *)
(* failures, error codes and exit codes.                                   *)
(***************************************************************************)
EXTENDS ReprocWindows, FiniteSetTheorems, TLAPS

-----------------------------------------------------------------------------
(* The inductive invariants. *)

\* The statements of reproc_start up to process_start, of process_start, and of
\* the rest.
Redirecting == {"init", "options", "in", "out", "err", "exit", "input", "once"}
Spawning == {"initialize", "published", "spin", "strings", "env", "inherit",
             "attributes", "mode", "create"}
Undoing == {"restore", "clear", "cleanup"}
Starting == Redirecting \cup Spawning \cup Undoing \cup {"finish"}
Waiting == {"poll", "object"}
InCall == Waiting \cup {"signal", "stop"}
Pcs == Starting \cup InCall \cup {"failed", "idle", "release", "freed"}

Handles == (Threads \cup {"app"}) \X (Roles \cup {"none", "process", "thread"})
             \X {"none", "std", "read", "write", "file", "handle"}
Modes == {"caller's", "quiet"}

CallType == [pc : Pcs, r : Int, i : Nat \ {0},
             op : {"start", "wait", "terminate", "kill", "destroy"},
             end : [Roles -> Handles], previous : Modes \cup {"none"},
             timeout : Timeouts \cup {"none"}]
ProcType == [process : BOOLEAN, pipe : SUBSET Roles, kept : SUBSET {"out", "err"},
             status : Nat \cup {NOT_STARTED, IN_PROGRESS}]
ChildType == [state : {"none", "running", "exiting", "ended"}, code : Int,
              inherits : SUBSET Handles, mode : Modes \cup {"none"}, ctrl : BOOLEAN]
FaultType == [step : Fallible \cup {"none", "race"}, errno : Nat]

CallsTyped ==
    /\ options \in [Threads -> Options]
    /\ call \in [Threads -> CallType]
    /\ fault \in [Threads -> FaultType]
    /\ overlap \in [Threads -> BOOLEAN]

TypeOK ==
    /\ once \in 0..2
    /\ ready \in BOOLEAN
    /\ errorMode \in Modes
    /\ inherit \in SUBSET Handles
    /\ open \in SUBSET Handles
    /\ winsock \in Int
    /\ proc \in [Threads -> ProcType]
    /\ child \in [Threads -> ChildType]
    /\ CallsTyped

\* Which operation a statement belongs to, and how far its loop has got.
PlaceOK(t) ==
    /\ call[t].pc \in Starting \cup {"failed"} => call[t].op = "start"
    /\ call[t].pc \in {"stop", "release", "freed"} => call[t].op = "destroy"
    /\ call[t].pc \in Waiting => call[t].op \in {"wait", "destroy"}
    /\ call[t].pc = "signal" => call[t].op \in {"terminate", "kill", "destroy"}
    /\ call[t].pc \in Starting => IF call[t].pc \in {"inherit", "clear"}
                                  THEN call[t].i <= NumHandles(t) ELSE call[t].i = 1
    /\ call[t].pc \in {"create", "restore"} => call[t].previous \in Modes
    /\ options[t] \in Configs[t]

\* The functions of the attribute list are there once reproc_call_once is over.
OnceAt(t) ==
    /\ call[t].pc \in {"initialize", "published", "spin"} => once # 0
    /\ call[t].pc \in {"published", "strings", "env", "inherit", "attributes"} => ready
OnceOK == (once = 2 => ready) /\ \A t \in Threads : OnceAt(t)

\* The child's end for role p, and when it is made.
EndMade(t, p) ==
    IF p = "exit" \/ options[t][p] = "pipe" THEN Theirs(t, p)
    ELSE IF options[t][p] = "parent" /\ options[t].std THEN Std(p) ELSE File(t, p)
EndOf(t, p) == IF p = "err" /\ options[t].err = "stdout" THEN EndMade(t, "out") ELSE EndMade(t, p)
Before == [in |-> {"init", "options", "in"}, out |-> {"init", "options", "in", "out"},
           err |-> {"init", "options", "in", "out", "err"},
           exit |-> {"init", "options", "in", "out", "err", "exit"}]

EndsOK(t) ==
    /\ call[t].pc \in Starting =>
        /\ \A p \in Roles : call[t].end[p] \in {None, EndOf(t, p)}
        /\ \A p \in Roles : call[t].pc \in Before[p] => call[t].end[p] = None
        /\ \A p \in Roles : call[t].end[p] = None =>
                \/ call[t].pc \in Before[p]
                \/ call[t].pc = "finish" /\ call[t].r < 0
        /\ call[t].end["err"] # None => call[t].end["out"] # None
    /\ call[t].pc \notin Starting => call[t].end = [p \in Roles |-> None]

\* Two threads that are in process_start know of each other; one that is alone
\* has the error mode to itself.
Exclusive ==
    \A t, u \in Threads : (t # u /\ InProcessStart(t) /\ InProcessStart(u)) => overlap[t]
ModeAt(t) ==
    ~overlap[t] =>
        /\ call[t].pc \in {"create", "restore"} => errorMode = "quiet"
        /\ child[t].mode \in {"none", "quiet"}
ModeKept ==
    (\A t \in Threads : ~overlap[t]) =>
        /\ \A t \in Threads : call[t].pc \in {"create", "restore"} => call[t].previous = "caller's"
        /\ (\A t \in Threads : call[t].pc \notin {"create", "restore"}) => errorMode = "caller's"
ModeOK == Exclusive /\ ModeKept /\ \A t \in Threads : ModeAt(t)

\* A handle that SetHandleInformation has made inheritable still is, unless it is
\* the caller's and another thread has been in process_start.
Flagged(t) == IF call[t].pc = "inherit" THEN call[t].i - 1 ELSE NumHandles(t)
FlagsOK(t) ==
    call[t].pc \in {"inherit", "attributes", "mode", "create"} =>
        \A j \in 1..Flagged(t) :
            \/ HandleAt(t, j) \in inherit
            \/ overlap[t] /\ HandleAt(t, j)[1] = "app"

RaceTrue(t) ==
    fault[t].step = "race" =>
        overlap[t] /\ options[t].std /\ \E s \in Streams : options[t][s] = "parent"

\* What reproc_start has found when it begins to undo things.
Outcome(t) ==
    \/ /\ call[t].r >= 0
       /\ fault[t].errno = 0
       /\ fault[t].step # "env" => child[t].state # "none"
    \/ /\ call[t].r < 0
       /\ call[t].r = -fault[t].errno
       /\ child[t].state = "none"
       /\ RaceTrue(t)

StartOK(t) ==
    /\ call[t].pc \in Redirecting \cup Spawning =>
        fault[t].step = "none" /\ fault[t].errno = 0 /\ child[t].state = "none"
    /\ call[t].pc \in Undoing \cup {"finish"} => Outcome(t)
    /\ call[t].pc = "failed" =>
        call[t].r = -fault[t].errno /\ child[t].state = "none" /\ RaceTrue(t)
    /\ call[t].pc \in InCall \cup {"idle"} =>
        fault[t].errno = 0 /\ (fault[t].step # "env" => child[t].state # "none")

StatusOK(t) ==
    /\ call[t].pc \in Starting \cup {"failed"} => proc[t].status = NOT_STARTED
    /\ call[t].pc \in InCall \cup {"idle"} => proc[t].status # NOT_STARTED
    /\ proc[t].status >= 0 =>
        /\ child[t].state # "running"
        /\ \/ child[t].state = "ended" /\ proc[t].status = ExitStatus(child[t].code)
           \/ child[t].code = REPROC_SIGKILL /\ proc[t].status = 0

\* While the child runs, the loop of reproc_stop has its kill ahead of it.
DestroyOK(t) ==
    child[t].state = "running" =>
        /\ call[t].pc = "stop" => call[t].i <= 3
        /\ call[t].op = "destroy" /\ call[t].pc \in Waiting => call[t].i <= 2
        /\ call[t].op = "destroy" /\ call[t].pc = "signal" => call[t].i \in {2, 3}
        /\ call[t].pc \in {"release", "freed"} =>
            /\ Fails(t, "console") \/ Fails(t, "wait")
            /\ call[t].r < 0 /\ call[t].r # REPROC_ETIMEDOUT

Owned(t) == {h \in open : h[1] = t}
EndsOwned(t) == {h \in {call[t].end[p] : p \in Roles} : h[1] = t}

\* Until reproc_start is over its locals hold handles too: the child's ends and
\* the handle of the child's main thread.
Locals(t) ==
    EndsOwned(t) \cup (IF call[t].pc \in Undoing /\ proc[t].process THEN {MainThread(t)} ELSE {})
OwnedOK(t) ==
    /\ call[t].pc \in Starting =>
        /\ proc[t].kept = {}
        /\ call[t].pc = "init" => proc[t].pipe = {}
        /\ call[t].pc \in Redirecting \cup Spawning => ~proc[t].process
        /\ Owned(t) = Holds(t) \cup Locals(t)
    /\ call[t].pc \notin Starting => Owned(t) \ Leaks(t) = Holds(t)
    /\ call[t].pc \in {"failed", "freed"} => Holds(t) = {}

\* The handles of thread t that can be inherited are those it is about to pass on.
Passing(t) ==
    IF call[t].pc \in {"inherit", "attributes", "mode", "create", "restore"} THEN 1..NumHandles(t)
    ELSE IF call[t].pc = "clear" THEN call[t].i..NumHandles(t) ELSE {}
InheritOK(t) == {h \in inherit : h[1] = t} \subseteq {HandleAt(t, j) : j \in Passing(t)}

References(t) ==
    /\ call[t].pc \notin {"init", "failed", "freed"}
    /\ call[t].op = "start" \/ proc[t].status # NOT_STARTED
Referencing == {t \in Threads : References(t)}
WinsockOK == winsock = Cardinality(Referencing)

-----------------------------------------------------------------------------
(* Type correctness. *)

LEMMA InitTypes == Init => TypeOK /\ \A t \in Threads : PlaceOK(t)
<1> SUFFICES ASSUME Init PROVE TypeOK /\ \A t \in Threads : PlaceOK(t)
  OBVIOUS
<1>1. inherit \in SUBSET Handles /\ None \in Handles
  BY DEF Init, Handles, Std, Streams, Roles, None
<1>2. options \in [Threads -> Options]
  BY WindowsAssumption DEF Init
<1>3. call \in [Threads -> CallType]
  <2>1. DEFINE ends == [p \in Roles |-> None]
  <2>2. ends \in [Roles -> Handles]
    BY <1>1
  <2>3. DEFINE c == [pc |-> "init", r |-> -1, i |-> 1, op |-> "start", end |-> ends,
                     previous |-> "none", timeout |-> "none"]
  <2>4. call = [t \in Threads |-> c]
    BY DEF Init
  <2>5. HIDE DEF ends
  <2>6. "init" \in Pcs
    BY DEF Pcs, Starting, Redirecting
  <2>7. c \in CallType
    BY <2>2, <2>6 DEF CallType
  <2>8. HIDE DEF c
  <2>9. QED
    BY <2>4, <2>7
<1>4. proc \in [Threads -> ProcType] /\ child \in [Threads -> ChildType]
  BY DEF Init, ProcType, ChildType
<1>5. fault \in [Threads -> FaultType] /\ overlap \in [Threads -> BOOLEAN]
  BY DEF Init, FaultType
<1>6. once \in 0..2 /\ errorMode \in Modes /\ open \in SUBSET Handles /\ winsock \in Int
  BY DEF Init, Modes
<1>7. ready \in BOOLEAN
  BY Zenon DEF Init
<1>8. TypeOK
  BY <1>7, <1>1, <1>2, <1>3, <1>4, <1>5, <1>6 DEF TypeOK, CallsTyped
<1>9. QED
  BY <1>8 DEF Init, PlaceOK, Starting, Redirecting, Spawning, Undoing, Waiting

\* A statement that changes the call of thread t, and no history.
LEMMA CallUpdate ==
    ASSUME TypeOK, NEW t \in Threads, NEW c \in CallType,
           call' = [call EXCEPT ![t] = c], UNCHANGED <<options, history>>
    PROVE  CallsTyped'
  BY DEF TypeOK, CallsTyped, history

LEMMA GotoTypes ==
    ASSUME TypeOK, NEW t \in Threads, NEW where \in Pcs, NEW r \in Int,
           Goto(t, where, r)
    PROVE  call' \in [Threads -> CallType] /\ options' = options
<1>1. call \in [Threads -> CallType] /\ call[t] \in CallType
  BY DEF TypeOK, CallsTyped
<1>2. DEFINE c == [call[t] EXCEPT !.pc = where, !.r = r]
<1>3. call' = [call EXCEPT ![t] = c] /\ options' = options
  BY <1>1 DEF Goto
<1>4. c \in CallType
  BY <1>1 DEF CallType
<1>5. HIDE DEF c
<1>6. QED
  BY <1>1, <1>3, <1>4

LEMMA GotoTyped ==
    ASSUME TypeOK, NEW t \in Threads, NEW where \in Pcs, NEW r \in Int,
           Goto(t, where, r), UNCHANGED history
    PROVE  CallsTyped'
  BY GotoTypes DEF TypeOK, CallsTyped, history

LEMMA FailedWithTyped ==
    ASSUME TypeOK, NEW t \in Threads, NEW where \in Pcs, NEW e \in Nat,
           NEW step \in Fallible \cup {"race"}, FailedWith(t, step, e, where)
    PROVE  CallsTyped'
<1>1. -e \in Int /\ Goto(t, where, -e)
  BY DEF FailedWith
<1>2. call' \in [Threads -> CallType] /\ options' = options
  BY <1>1, GotoTypes
<1>3. DEFINE f == [step |-> step, errno |-> e]
<1>4. f \in FaultType
  BY DEF FaultType
<1>5. fault' = [fault EXCEPT ![t] = f] /\ overlap' = overlap
  BY DEF FailedWith
<1>6. HIDE DEF f
<1>7. QED
  BY <1>2, <1>4, <1>5 DEF TypeOK, CallsTyped

LEMMA FailedTyped ==
    ASSUME TypeOK, NEW t \in Threads, NEW where \in Pcs, NEW step \in Fallible,
           Failed(t, step, where)
    PROVE  CallsTyped'
<1>1. PICK e \in Errnos : FailedWith(t, step, e, where)
  BY DEF Failed
<1>2. e \in Nat
  BY WindowsAssumption
<1>3. QED
  BY <1>1, <1>2, FailedWithTyped

LEMMA Targets ==
    /\ Starting \subseteq Pcs /\ InCall \subseteq Pcs
    /\ Redirecting \subseteq Starting /\ Spawning \subseteq Starting /\ Undoing \subseteq Starting
    /\ {"failed", "idle", "release", "freed"} \subseteq Pcs /\ "finish" \in Starting
  BY DEF Pcs, Starting

LEMMA InitWinsockTypes ==
    ASSUME TypeOK, NEW t \in Threads, InitWinsock(t)
    PROVE  TypeOK'
<1>1. CASE Failed(t, "init", "failed") /\ UNCHANGED winsock
  <2>1. CallsTyped'
    BY <1>1, FailedTyped, Targets DEF Fallible
  <2>2. QED
    BY <1>1, <2>1 DEF InitWinsock, TypeOK
<1>2. CASE winsock' = winsock + 1 /\ Goto(t, "options", 0) /\ UNCHANGED history
  <2>1. CallsTyped'
    BY <1>2, GotoTyped, Targets DEF Redirecting
  <2>2. QED
    BY <1>2, <2>1 DEF InitWinsock, TypeOK
<1>3. QED
  BY <1>1, <1>2 DEF InitWinsock

LEMMA ParseOptionsTypes ==
    ASSUME TypeOK, NEW t \in Threads, ParseOptions(t)
    PROVE  TypeOK'
<1>1. CASE FailedWith(t, "options", ERROR_INVALID_PARAMETER, "finish")
  <2>1. "finish" \in Pcs /\ "options" \in Fallible \cup {"race"} /\ ERROR_INVALID_PARAMETER \in Nat
    BY Targets DEF Fallible, ERROR_INVALID_PARAMETER
  <2>2. CallsTyped'
    BY <1>1, <2>1, FailedWithTyped
  <2>3. QED
    BY <2>2 DEF ParseOptions, TypeOK, shared
<1>2. CASE Goto(t, "in", 0) /\ UNCHANGED history
  <2>1. CallsTyped'
    BY <1>2, GotoTyped, Targets DEF Redirecting
  <2>2. QED
    BY <2>1 DEF ParseOptions, TypeOK, shared
<1>3. QED
  BY <1>1, <1>2 DEF ParseOptions

\* An error of redirect_pipe leaves no socket behind, whichever call has failed.
LEMMA RedirectPipeAllOrNothing ==
    ASSUME NEW n \in Calls, NEW stale
    PROVE  RedirectPipe(n, stale) = IF n = 0 /\ ~stale THEN {"read", "write"} ELSE {}
<1>1. CASE n = 0
  <2>1. SocketPair(n) = {"read", "write"}
    BY <1>1 DEF SocketPair, Opened, Made
  <2>2. QED
    BY <1>1, <2>1 DEF RedirectPipe, PipeInit
<1>2. CASE n \in 1..5
  <2>1. SocketPair(n) = {}
    BY <1>2 DEF SocketPair, Opened, Made
  <2>2. QED
    BY <1>2, <2>1 DEF RedirectPipe, PipeInit
<1>3. CASE n \in 6..8
  <2>1. SocketPair(n) = {"read", "write"}
    BY <1>3 DEF SocketPair, Opened, Made
  <2>2. QED
    BY <1>3, <2>1 DEF RedirectPipe, PipeInit
<1>4. QED
  BY <1>1, <1>2, <1>3 DEF Calls

LEMMA MakePipeEffect ==
    ASSUME NEW t \in Threads, NEW p \in Roles, NEW next, MakePipe(t, p, next)
    PROVE  \/ /\ UNCHANGED <<open, proc>>
              /\ \/ Failed(t, "pipe", "finish")
                 \/ FailedWith(t, "stale", WSAEWOULDBLOCK, "finish")
           \/ /\ open' = open \cup {Ours(t, p), Theirs(t, p)}
              /\ proc' = [proc EXCEPT ![t].pipe = @ \cup {p}]
              /\ call' = [call EXCEPT ![t].pc = next, ![t].r = 0, ![t].end[p] = Theirs(t, p)]
              /\ UNCHANGED <<options, history>>
<1>1. PICK n \in Calls \ (IF p = "exit" THEN {8} ELSE {}), stale \in {FALSE, Fails(t, "stale")} :
        /\ open' = open \cup {<<t, p, e>> : e \in RedirectPipe(n, stale)}
        /\ \/ /\ n # 0 /\ ~stale
              /\ Failed(t, "pipe", "finish")
              /\ UNCHANGED proc
           \/ /\ n = 0 /\ stale
              /\ FailedWith(t, "stale", WSAEWOULDBLOCK, "finish")
              /\ UNCHANGED proc
           \/ /\ n = 0 /\ ~stale
              /\ proc' = [proc EXCEPT ![t].pipe = @ \cup {p}]
              /\ call' = [call EXCEPT ![t].pc = next, ![t].r = 0, ![t].end[p] = Theirs(t, p)]
              /\ UNCHANGED <<options, history>>
  BY Zenon DEF MakePipe
<1>. n \in Calls
  OBVIOUS
<1>2. CASE n # 0 \/ stale
  <2>1. RedirectPipe(n, stale) = {}
    BY <1>2, RedirectPipeAllOrNothing
  <2>2. open' = open
    BY <1>1, <2>1
  <2>3. QED
    BY <1>1, <1>2, <2>2
<1>3. CASE n = 0 /\ ~stale
  <2>1. RedirectPipe(n, stale) = {"read", "write"}
    BY <1>3, RedirectPipeAllOrNothing
  <2>2. {<<t, p, e>> : e \in {"read", "write"}} = {Ours(t, p), Theirs(t, p)}
    BY DEF Ours, Theirs, Read, Write
  <2>3. open' = open \cup {Ours(t, p), Theirs(t, p)}
    BY <1>1, <2>1, <2>2
  <2>4. QED
    BY <1>1, <1>3, <2>3
<1>4. QED
  BY <1>2, <1>3

LEMMA HandleTypes ==
    ASSUME NEW t \in Threads
    PROVE  /\ \A p \in Roles : Ours(t, p) \in Handles /\ Theirs(t, p) \in Handles
           /\ \A s \in Streams : File(t, s) \in Handles /\ Std(s) \in Handles
           /\ Process(t) \in Handles /\ MainThread(t) \in Handles /\ None \in Handles
  BY DEF Handles, Ours, Theirs, Read, Write, File, Std, Process, MainThread, None, Roles, Streams

LEMMA CallWithEnd ==
    ASSUME NEW c \in CallType, NEW next \in Pcs, NEW r \in Int, NEW e \in [Roles -> Handles]
    PROVE  [c EXCEPT !.pc = next, !.r = r, !.end = e] \in CallType
  BY DEF CallType

\* A statement that sets the child's end for role p.
LEMMA EndTyped ==
    ASSUME TypeOK, NEW t \in Threads, NEW p \in Roles, NEW h \in Handles, NEW next \in Pcs,
           call' = [call EXCEPT ![t].pc = next, ![t].r = 0, ![t].end[p] = h],
           UNCHANGED <<options, history>>
    PROVE  CallsTyped'
<1>1. call \in [Threads -> CallType] /\ call[t] \in CallType
  BY DEF TypeOK, CallsTyped
<1>2. DEFINE e == [call[t].end EXCEPT ![p] = h]
             c == [call[t] EXCEPT !.pc = next, !.r = 0, !.end = e]
<1>3. e \in [Roles -> Handles]
  BY <1>1 DEF CallType
<1>4. call' = [call EXCEPT ![t] = c]
  BY <1>1 DEF CallType
<1>5. HIDE DEF e
<1>6. c \in CallType
  BY <1>1, <1>3, 0 \in Int, CallWithEnd
<1>7. HIDE DEF c
<1>8. QED
  BY <1>4, <1>6, CallUpdate

\* A statement that changes the reproc_t of thread t.
LEMMA ProcTyped ==
    ASSUME TypeOK, NEW t \in Threads, NEW P \in SUBSET Roles,
           proc' = [proc EXCEPT ![t].pipe = P]
    PROVE  proc' \in [Threads -> ProcType]
<1>1. proc \in [Threads -> ProcType] /\ proc[t] \in ProcType
  BY DEF TypeOK
<1>2. DEFINE v == [proc[t] EXCEPT !.pipe = P]
<1>3. v \in ProcType
  BY <1>1 DEF ProcType
<1>4. proc' = [proc EXCEPT ![t] = v]
  BY <1>1
<1>5. HIDE DEF v
<1>6. QED
  BY <1>1, <1>3, <1>4

LEMMA MakePipeTypes ==
    ASSUME TypeOK, NEW t \in Threads, NEW p \in Roles, NEW next \in Pcs, MakePipe(t, p, next)
    PROVE  CallsTyped' /\ open' \in SUBSET Handles /\ proc' \in [Threads -> ProcType]
<1>1. CASE UNCHANGED <<open, proc>> /\ Failed(t, "pipe", "finish")
  BY <1>1, FailedTyped, Targets DEF Fallible, TypeOK
<1>2. CASE UNCHANGED <<open, proc>> /\ FailedWith(t, "stale", WSAEWOULDBLOCK, "finish")
  <2>1. "finish" \in Pcs /\ "stale" \in Fallible \cup {"race"} /\ WSAEWOULDBLOCK \in Nat
    BY Targets DEF Fallible, WSAEWOULDBLOCK
  <2>2. CallsTyped'
    BY <1>2, <2>1, FailedWithTyped
  <2>3. QED
    BY <1>2, <2>2 DEF TypeOK
<1>3. CASE /\ open' = open \cup {Ours(t, p), Theirs(t, p)}
           /\ proc' = [proc EXCEPT ![t].pipe = @ \cup {p}]
           /\ call' = [call EXCEPT ![t].pc = next, ![t].r = 0, ![t].end[p] = Theirs(t, p)]
           /\ UNCHANGED <<options, history>>
  <2>1. CallsTyped'
    BY <1>3, EndTyped, HandleTypes
  <2>2. DEFINE P == proc[t].pipe \cup {p}
  <2>3. P \in SUBSET Roles /\ proc' = [proc EXCEPT ![t].pipe = P]
    BY <1>3 DEF TypeOK, ProcType
  <2>4. HIDE DEF P
  <2>5. proc' \in [Threads -> ProcType]
    BY <2>3, ProcTyped
  <2>6. QED
    BY <1>3, <2>1, <2>5, HandleTypes DEF TypeOK
<1>4. \/ /\ UNCHANGED <<open, proc>>
         /\ \/ Failed(t, "pipe", "finish")
            \/ FailedWith(t, "stale", WSAEWOULDBLOCK, "finish")
      \/ /\ open' = open \cup {Ours(t, p), Theirs(t, p)}
         /\ proc' = [proc EXCEPT ![t].pipe = @ \cup {p}]
         /\ call' = [call EXCEPT ![t].pc = next, ![t].r = 0, ![t].end[p] = Theirs(t, p)]
         /\ UNCHANGED <<options, history>>
  BY MakePipeEffect
<1>5. QED
  BY <1>1, <1>2, <1>3, <1>4

LEMMA AfterTypes ==
    \A s \in Streams : After[s] \in {"out", "err", "exit"} /\ After[s] \in Pcs /\ s \in Roles
  BY DEF After, Streams, Roles, Pcs, Starting, Redirecting

\* What Redirect does, by the kind of redirect.
LEMMA RedirectEffect ==
    ASSUME TypeOK, NEW t \in Threads, NEW s \in Streams, Redirect(t, s)
    PROVE  /\ call[t].pc = s
           /\ UNCHANGED <<once, ready, errorMode, inherit, winsock, child>>
           /\ \/ options[t][s] = "pipe" /\ MakePipe(t, s, After[s])
              \/ /\ options[t][s] = "stdout"
                 /\ Redirected(t, s, After[s], call[t].end["out"]) /\ UNCHANGED proc
              \/ /\ options[t][s] = "parent" /\ options[t].std
                 /\ Redirected(t, s, After[s], Std(s)) /\ UNCHANGED proc
              \/ /\ options[t][s] \notin {"pipe", "stdout"}
                 /\ ~(options[t][s] = "parent" /\ options[t].std)
                 /\ Redirected(t, s, After[s], File(t, s)) /\ UNCHANGED proc
              \/ /\ options[t][s] \notin {"pipe", "stdout"}
                 /\ Failed(t, s, "finish") /\ UNCHANGED <<open, proc>>
<1>1. call[t].pc = s /\ UNCHANGED <<once, ready, errorMode, inherit, winsock, child>>
  BY DEF Redirect
<1>2. CASE options[t][s] = "stdout"
  BY <1>2 DEF Redirect
<1>3. CASE options[t][s] = "pipe"
  BY <1>3 DEF Redirect
<1>4. CASE options[t][s] = "parent" /\ options[t].std
  BY <1>4 DEF Redirect
<1>5. CASE options[t][s] \notin {"pipe", "stdout"} /\ ~(options[t][s] = "parent" /\ options[t].std)
  BY <1>5 DEF Redirect
<1>6. QED
  BY <1>1, <1>2, <1>3, <1>4, <1>5

LEMMA RedirectTypes ==
    ASSUME TypeOK, NEW t \in Threads, NEW s \in Streams, Redirect(t, s)
    PROVE  TypeOK'
<1>1. s \in Roles /\ After[s] \in Pcs /\ "finish" \in Pcs /\ s \in Fallible
  BY AfterTypes, Targets DEF Streams, Fallible
<1>2. UNCHANGED <<once, ready, errorMode, inherit, winsock, child>>
  BY RedirectEffect
<1>3. ASSUME NEW h \in Handles, Redirected(t, s, After[s], h), UNCHANGED proc
      PROVE  TypeOK'
  <2>1. call' = [call EXCEPT ![t].pc = After[s], ![t].r = 0, ![t].end[s] = h]
        /\ UNCHANGED <<options, history>>
    BY <1>3 DEF Redirected
  <2>2. CallsTyped'
    BY <1>1, <2>1, EndTyped
  <2>3. open' \in SUBSET Handles
    BY <1>3 DEF Redirected, TypeOK
  <2>4. QED
    BY <1>2, <1>3, <2>2, <2>3 DEF TypeOK
<1>4. CASE MakePipe(t, s, After[s])
  <2>1. CallsTyped' /\ open' \in SUBSET Handles /\ proc' \in [Threads -> ProcType]
    BY <1>1, <1>4, MakePipeTypes
  <2>2. QED
    BY <1>2, <2>1 DEF TypeOK
<1>5. CASE Failed(t, s, "finish") /\ UNCHANGED <<open, proc>>
  <2>1. CallsTyped'
    BY <1>1, <1>5, FailedTyped
  <2>2. QED
    BY <1>2, <1>5, <2>1 DEF TypeOK
<1>6. call[t].end["out"] \in Handles /\ Std(s) \in Handles /\ File(t, s) \in Handles
  BY HandleTypes DEF TypeOK, CallsTyped, CallType, Roles, Streams
<1>7. QED
  BY <1>3, <1>4, <1>5, <1>6, RedirectEffect

LEMMA InitExitPipeTypes ==
    ASSUME TypeOK, NEW t \in Threads, InitExitPipe(t)
    PROVE  TypeOK'
<1>1. "exit" \in Roles /\ "input" \in Pcs /\ MakePipe(t, "exit", "input")
  BY Targets DEF InitExitPipe, Roles, Redirecting
<1>2. CallsTyped' /\ open' \in SUBSET Handles /\ proc' \in [Threads -> ProcType]
  BY <1>1, MakePipeTypes
<1>3. QED
  BY <1>2 DEF InitExitPipe, TypeOK

LEMMA SetupInputTypes ==
    ASSUME TypeOK, NEW t \in Threads, SetupInput(t)
    PROVE  TypeOK'
<1>1. CASE Failed(t, "input", "finish") /\ UNCHANGED <<open, proc>>
  <2>1. CallsTyped'
    BY <1>1, FailedTyped, Targets DEF Fallible
  <2>2. QED
    BY <1>1, <2>1 DEF SetupInput, TypeOK
<1>2. CASE Goto(t, "once", 0) /\ UNCHANGED history
  <2>1. CallsTyped'
    BY <1>2, GotoTyped, Targets DEF Redirecting
  <2>2. open' \in SUBSET Handles /\ proc' \in [Threads -> ProcType]
    <3>1. CASE UNCHANGED <<open, proc>>
      BY <3>1 DEF TypeOK
    <3>2. CASE open' = open \ {Ours(t, "in")} /\ proc' = [proc EXCEPT ![t].pipe = @ \ {"in"}]
      <4>1. DEFINE P == proc[t].pipe \ {"in"}
      <4>2. P \in SUBSET Roles /\ proc' = [proc EXCEPT ![t].pipe = P]
        BY <3>2 DEF TypeOK, ProcType
      <4>3. HIDE DEF P
      <4>4. proc' \in [Threads -> ProcType]
        BY <4>2, ProcTyped
      <4>5. QED
        BY <3>2, <4>4 DEF TypeOK
    <3>3. CASE options[t].input
      BY <1>2, <3>1, <3>2, <3>3 DEF SetupInput
    <3>4. CASE ~options[t].input
      BY <1>2, <3>1, <3>2, <3>4 DEF SetupInput
    <3>5. QED
      BY <3>3, <3>4
  <2>3. QED
    BY <2>1, <2>2 DEF SetupInput, TypeOK
<1>3. QED
  BY <1>1, <1>2 DEF SetupInput

LEMMA EnterTypes ==
    ASSUME TypeOK, NEW t \in Threads, EnterProcessStart(t)
    PROVE  TypeOK'
<1>1. UNCHANGED <<ready, errorMode, inherit, open, winsock, proc, child>>
  BY DEF EnterProcessStart
<1>2. ASSUME NEW e \in Nat, FailedWith(t, "once", e, "finish"), UNCHANGED once
      PROVE  TypeOK'
  <2>1. "finish" \in Pcs /\ "once" \in Fallible \cup {"race"}
    BY Targets DEF Fallible
  <2>2. CallsTyped'
    BY <1>2, <2>1, FailedWithTyped
  <2>3. QED
    BY <1>1, <1>2, <2>2 DEF TypeOK
<1>3. ASSUME once' = IF once = 0 THEN 1 ELSE once,
             Goto(t, IF once = 0 THEN "initialize" ELSE "spin", 0),
             overlap' = [u \in Threads |->
                  \/ overlap[u]
                  \/ u = t /\ \E v \in Threads \ {t} : InProcessStart(v)
                  \/ u # t /\ InProcessStart(u)],
             UNCHANGED fault
      PROVE  TypeOK'
  <2>1. (IF once = 0 THEN "initialize" ELSE "spin") \in Pcs
    BY DEF Pcs, Starting, Spawning
  <2>2. call' \in [Threads -> CallType] /\ options' = options
    <3>1. CASE once = 0
      <4>1. Goto(t, "initialize", 0)
        BY <1>3, <3>1
      <4>2. QED
        BY <4>1, GotoTypes, Targets DEF Spawning
    <3>2. CASE once # 0
      <4>1. Goto(t, "spin", 0)
        BY <1>3, <3>2
      <4>2. QED
        BY <4>1, GotoTypes, Targets DEF Spawning
    <3>3. QED
      BY <3>1, <3>2
  <2>3. once' \in 0..2
    BY <1>3 DEF TypeOK
  <2>4. overlap' \in [Threads -> BOOLEAN]
    BY Zenon, <1>3
  <2>5. CallsTyped'
    BY <1>3, <2>2, <2>4 DEF TypeOK, CallsTyped
  <2>6. QED
    BY <1>1, <2>3, <2>5 DEF TypeOK
<1>4. ERROR_CALL_NOT_IMPLEMENTED \in Nat /\ ERROR_NOT_ENOUGH_SERVER_MEMORY \in Nat
  BY DEF ERROR_CALL_NOT_IMPLEMENTED, ERROR_NOT_ENOUGH_SERVER_MEMORY
<1>5. QED
  BY <1>2, <1>3, <1>4 DEF EnterProcessStart

LEMMA OnceTypes ==
    ASSUME TypeOK, NEW t \in Threads, InitOnce(t) \/ PublishOnce(t) \/ SpinOnce(t)
    PROVE  TypeOK'
<1>1. CASE InitOnce(t)
  <2>1. CallsTyped'
    BY <1>1, GotoTyped, Targets DEF InitOnce, Spawning, history
  <2>2. ready' \in BOOLEAN
    BY Zenon, <1>1 DEF InitOnce
  <2>3. QED
    BY <1>1, <2>1, <2>2 DEF InitOnce, TypeOK
<1>2. CASE PublishOnce(t)
  <2>1. CallsTyped'
    BY <1>2, GotoTyped, Targets DEF PublishOnce, Spawning, history
  <2>2. QED
    BY <1>2, <2>1 DEF PublishOnce, OnceDone, TypeOK
<1>3. CASE SpinOnce(t)
  <2>1. CallsTyped'
    BY <1>3, GotoTyped, Targets DEF SpinOnce, Spawning, history
  <2>2. QED
    BY <1>3, <2>1 DEF SpinOnce, shared, TypeOK
<1>4. QED
  BY <1>1, <1>2, <1>3

LEMMA MakeStringsTypes ==
    ASSUME TypeOK, NEW t \in Threads, MakeStrings(t)
    PROVE  TypeOK'
<1>1. "clear" \in Pcs /\ "env" \in Pcs /\ "inherit" \in Pcs
      /\ "strings" \in Fallible /\ "env" \in Fallible
  BY Targets DEF Spawning, Undoing, Fallible
<1>2. CASE Failed(t, "strings", "clear") \/ Failed(t, "env", "clear")
  BY <1>1, <1>2, FailedTyped DEF MakeStrings, TypeOK, shared
<1>3. CASE FailedWith(t, "env", 0, "clear")
  <2>1. CallsTyped'
    BY <1>1, <1>3, FailedWithTyped, 0 \in Nat
  <2>2. QED
    BY <2>1 DEF MakeStrings, TypeOK, shared
<1>4. CASE (Goto(t, "env", 0) \/ Goto(t, "inherit", 0)) /\ UNCHANGED history
  <2>1. CallsTyped'
    BY <1>1, <1>4, GotoTyped
  <2>2. QED
    BY <2>1 DEF MakeStrings, TypeOK, shared
<1>5. QED
  BY <1>2, <1>3, <1>4 DEF MakeStrings

LEMMA OneType == 1 \in Nat \ {0}
  OBVIOUS

\* Where the loops over the child's handles are.
LEMMA RoundTyped ==
    ASSUME TypeOK, NEW t \in Threads, NEW at, NEW next \in Pcs, Round(t, at, next)
    PROVE  CallsTyped'
<1>1. call \in [Threads -> CallType] /\ call[t] \in CallType
  BY DEF TypeOK, CallsTyped
<1>2. CASE call[t].i = NumHandles(t)
  <2>1. DEFINE c == [call[t] EXCEPT !.i = 1, !.pc = next]
  <2>2. \A i \in Nat \ {0} : [call[t] EXCEPT !.i = i, !.pc = next] \in CallType
    BY <1>1 DEF CallType
  <2>3. c \in CallType
    BY <2>2, OneType
  <2>4. call' = [call EXCEPT ![t] = c] /\ UNCHANGED <<options, history>>
    BY <1>1, <1>2 DEF Round
  <2>5. HIDE DEF c
  <2>6. QED
    BY <2>3, <2>4, CallUpdate
<1>3. CASE call[t].i # NumHandles(t)
  <2>1. DEFINE c == [call[t] EXCEPT !.i = call[t].i + 1]
  <2>2. call[t].i + 1 \in Nat \ {0}
    BY <1>1 DEF CallType
  <2>3. c \in CallType
    BY <1>1, <2>2 DEF CallType
  <2>4. call' = [call EXCEPT ![t] = c] /\ UNCHANGED <<options, history>>
    BY <1>1, <1>3 DEF Round
  <2>5. HIDE DEF c
  <2>6. QED
    BY <2>3, <2>4, CallUpdate
<1>4. QED
  BY <1>2, <1>3

LEMMA HandleAtType ==
    ASSUME TypeOK, NEW t \in Threads, NEW j \in 1..4
    PROVE  HandleAt(t, j) \in Handles
<1>1. call[t].end \in [Roles -> Handles]
  BY DEF TypeOK, CallsTyped, CallType
<1>2. (CASE j = 1 -> "exit" [] j = 2 -> "in" [] j = 3 -> "out" [] j = 4 -> "err") \in Roles
  BY DEF Roles, Streams
<1>3. QED
  BY <1>1, <1>2 DEF HandleAt

LEMMA ListedTypes ==
    ASSUME TypeOK, NEW t \in Threads
    PROVE  NumHandles(t) \in {3, 4} /\ Listed(t) \in SUBSET Handles
<1>1. NumHandles(t) \in {3, 4}
  BY DEF NumHandles
<1>2. QED
  BY <1>1, HandleAtType DEF Listed

LEMMA IndexRange ==
    ASSUME TypeOK, NEW t \in Threads, PlaceOK(t), call[t].pc \in {"inherit", "clear"}
    PROVE  call[t].i \in 1..NumHandles(t) /\ call[t].i \in 1..4
<1>1. call[t].pc \in Starting
  BY Targets DEF Spawning, Undoing
<1>2. call[t].i <= NumHandles(t)
  BY <1>1 DEF PlaceOK
<1>3. call[t].i \in Nat \ {0}
  BY DEF TypeOK, CallsTyped, CallType
<1>4. QED
  BY <1>2, <1>3, ListedTypes

LEMMA SetInheritTypes ==
    ASSUME TypeOK, NEW t \in Threads, PlaceOK(t), SetInherit(t)
    PROVE  TypeOK'
<1>1. call \in [Threads -> CallType] /\ call[t] \in CallType
  BY DEF TypeOK, CallsTyped
<1>2. CASE UNCHANGED <<inherit, options, overlap>> /\
           \E e \in Errnos :
                /\ fault' = [fault EXCEPT ![t] = [step |-> "inherit", errno |-> e]]
                /\ call' = [call EXCEPT ![t].pc = "clear", ![t].r = -e, ![t].i = 1]
  <2>1. PICK e \in Errnos :
                /\ fault' = [fault EXCEPT ![t] = [step |-> "inherit", errno |-> e]]
                /\ call' = [call EXCEPT ![t].pc = "clear", ![t].r = -e, ![t].i = 1]
    BY <1>2
  <2>2. e \in Nat /\ -e \in Int
    BY WindowsAssumption
  <2>3. DEFINE f == [step |-> "inherit", errno |-> e]
               c == [call[t] EXCEPT !.pc = "clear", !.r = -e, !.i = 1]
  <2>4. f \in FaultType
    BY <2>2 DEF FaultType, Fallible
  <2>5. \A pc \in Pcs, r \in Int, i \in Nat \ {0} :
            [call[t] EXCEPT !.pc = pc, !.r = r, !.i = i] \in CallType
    BY <1>1 DEF CallType
  <2>6. c \in CallType
    BY <2>2, <2>5, OneType, Targets DEF Undoing
  <2>7. call' = [call EXCEPT ![t] = c] /\ fault' = [fault EXCEPT ![t] = f]
    BY <1>1, <2>1
  <2>8. HIDE DEF f, c
  <2>9. CallsTyped'
    BY <1>2, <2>4, <2>6, <2>7 DEF TypeOK, CallsTyped
  <2>10. QED
    BY <1>2, <2>9 DEF SetInherit, TypeOK
<1>3. CASE inherit' = inherit \cup {HandleAt(t, call[t].i)} /\ Round(t, "inherit", "attributes")
  <2>1. CallsTyped'
    BY <1>3, RoundTyped, Targets DEF Spawning
  <2>2. call[t].pc = "inherit" /\ call[t].pc \in Starting
    BY Targets DEF SetInherit, Spawning
  <2>3. call[t].i \in 1..4
    BY <2>2, IndexRange
  <2>4. inherit' \in SUBSET Handles
    BY <1>3, <2>3, HandleAtType DEF TypeOK
  <2>5. QED
    BY <2>1, <2>4 DEF SetInherit, TypeOK
<1>4. QED
  BY <1>2, <1>3 DEF SetInherit

LEMMA AttributeTypes ==
    ASSUME TypeOK, NEW t \in Threads, SetupAttributeList(t)
    PROVE  TypeOK'
<1>1. "clear" \in Pcs /\ "mode" \in Pcs /\ "attributes" \in Fallible
  BY Targets DEF Spawning, Undoing, Fallible
<1>2. CASE Failed(t, "attributes", "clear")
  BY <1>1, <1>2, FailedTyped DEF SetupAttributeList, TypeOK, shared
<1>3. CASE FailedWith(t, "attributes", 0, "clear")
  <2>1. CallsTyped'
    BY <1>1, <1>3, FailedWithTyped, 0 \in Nat
  <2>2. QED
    BY <2>1 DEF SetupAttributeList, TypeOK, shared
<1>4. CASE Goto(t, "mode", 0) /\ UNCHANGED history
  <2>1. CallsTyped'
    BY <1>1, <1>4, GotoTyped
  <2>2. QED
    BY <2>1 DEF SetupAttributeList, TypeOK, shared
<1>5. QED
  BY <1>2, <1>3, <1>4 DEF SetupAttributeList

LEMMA CallWithPrevious ==
    ASSUME TypeOK, NEW t \in Threads, NEW next \in Pcs, NEW m \in Modes \cup {"none"},
           call' = [call EXCEPT ![t].pc = next, ![t].previous = m],
           UNCHANGED <<options, history>>
    PROVE  CallsTyped'
<1>1. call \in [Threads -> CallType] /\ call[t] \in CallType
  BY DEF TypeOK, CallsTyped
<1>2. DEFINE c == [call[t] EXCEPT !.pc = next, !.previous = m]
<1>3. c \in CallType
  BY <1>1 DEF CallType
<1>4. call' = [call EXCEPT ![t] = c]
  BY <1>1
<1>5. HIDE DEF c
<1>6. QED
  BY <1>3, <1>4, CallUpdate

LEMMA ErrorModeTypes ==
    ASSUME TypeOK, NEW t \in Threads, SetErrorMode(t)
    PROVE  TypeOK'
<1>1. "create" \in Pcs /\ errorMode \in Modes \cup {"none"}
  BY Targets DEF Spawning, TypeOK
<1>2. CallsTyped'
  BY <1>1, CallWithPrevious DEF SetErrorMode, history
<1>3. QED
  BY <1>2 DEF SetErrorMode, TypeOK, Modes

\* A thread that restores the error mode has one to restore.
LEMMA RestoreTypes ==
    ASSUME TypeOK, NEW t \in Threads, PlaceOK(t), RestoreErrorMode(t)
    PROVE  TypeOK'
<1>1. "clear" \in Pcs /\ "none" \in Modes \cup {"none"}
  BY Targets DEF Undoing
<1>2. CallsTyped'
  BY <1>1, CallWithPrevious DEF RestoreErrorMode, history
<1>3. call[t].previous \in Modes
  BY DEF RestoreErrorMode, PlaceOK
<1>4. QED
  BY <1>2, <1>3 DEF RestoreErrorMode, RestoredMode, TypeOK

LEMMA CreateTypes ==
    ASSUME TypeOK, NEW t \in Threads, CreateProcess(t)
    PROVE  TypeOK'
<1>1. UNCHANGED <<once, ready, errorMode, inherit, winsock>>
  BY DEF CreateProcess
<1>2. "restore" \in Pcs /\ "create" \in Fallible
  BY Targets DEF Undoing, Fallible
<1>3. CASE Failed(t, "create", "restore") /\ UNCHANGED <<open, proc, child>>
  <2>1. CallsTyped'
    BY <1>2, <1>3, FailedTyped
  <2>2. QED
    BY <1>1, <1>3, <2>1 DEF TypeOK
<1>4. CASE FailedWith(t, "race", ERROR_INVALID_PARAMETER, "restore") /\ UNCHANGED <<open, proc, child>>
  <2>1. ERROR_INVALID_PARAMETER \in Nat /\ "race" \in Fallible \cup {"race"}
    BY DEF ERROR_INVALID_PARAMETER
  <2>2. CallsTyped'
    BY <1>2, <1>4, <2>1, FailedWithTyped
  <2>3. QED
    BY <1>1, <1>4, <2>2 DEF TypeOK
<1>5. CASE /\ open' = open \cup {Process(t), MainThread(t)}
           /\ proc' = [proc EXCEPT ![t].process = TRUE]
           /\ child' = [child EXCEPT ![t] = [@ EXCEPT !.state = "running", !.mode = errorMode,
                                                     !.inherits = Listed(t)]]
           /\ Goto(t, "restore", 0)
           /\ UNCHANGED history
  <2>1. CallsTyped'
    BY <1>2, <1>5, GotoTyped
  <2>2. proc \in [Threads -> ProcType] /\ proc[t] \in ProcType
        /\ child \in [Threads -> ChildType] /\ child[t] \in ChildType
    BY DEF TypeOK
  <2>3. DEFINE v == [proc[t] EXCEPT !.process = TRUE]
               c == [child[t] EXCEPT !.state = "running", !.mode = errorMode,
                                     !.inherits = Listed(t)]
  <2>4. v \in ProcType
    BY <2>2 DEF ProcType
  <2>5. c \in ChildType
    BY <2>2, ListedTypes DEF ChildType, TypeOK
  <2>6. proc' = [proc EXCEPT ![t] = v] /\ child' = [child EXCEPT ![t] = c]
    BY <1>5, <2>2
  <2>7. HIDE DEF v, c
  <2>8. proc' \in [Threads -> ProcType] /\ child' \in [Threads -> ChildType]
    BY <2>2, <2>4, <2>5, <2>6
  <2>9. open' \in SUBSET Handles
    BY <1>5, HandleTypes DEF TypeOK
  <2>10. QED
    BY <1>1, <2>1, <2>8, <2>9 DEF TypeOK
<1>6. QED
  BY <1>3, <1>4, <1>5 DEF CreateProcess

LEMMA ClearTypes ==
    ASSUME TypeOK, NEW t \in Threads, ClearInherit(t)
    PROVE  TypeOK'
<1>1. CallsTyped'
  BY RoundTyped, Targets DEF ClearInherit, Undoing
<1>2. inherit' \in SUBSET Handles
  BY DEF ClearInherit, TypeOK
<1>3. QED
  BY <1>1, <1>2 DEF ClearInherit, TypeOK

LEMMA CleanupTypes ==
    ASSUME TypeOK, NEW t \in Threads, Cleanup(t)
    PROVE  TypeOK'
<1>1. DEFINE r == IF call[t].r < 0 THEN call[t].r ELSE 1
<1>2. r \in Int
  BY DEF TypeOK, CallsTyped, CallType
<1>3. call' \in [Threads -> CallType] /\ options' = options
  <2>1. CASE call[t].r < 0
    <3>1. call \in [Threads -> CallType] /\ call[t] \in CallType
      BY DEF TypeOK, CallsTyped
    <3>2. DEFINE c == [call[t] EXCEPT !.pc = "finish", !.r = call[t].r]
    <3>3. c \in CallType
      BY <3>1, Targets DEF CallType
    <3>4. call' = [call EXCEPT ![t] = c] /\ options' = options
      BY <2>1, <3>1 DEF Cleanup, Goto
    <3>5. HIDE DEF c
    <3>6. QED
      BY <3>1, <3>3, <3>4
  <2>2. CASE ~(call[t].r < 0)
    <3>1. Goto(t, "finish", 1) /\ 1 \in Int
      BY <2>2 DEF Cleanup
    <3>2. QED
      BY <3>1, GotoTypes, Targets
  <2>3. QED
    BY <2>1, <2>2
<1>4. CallsTyped'
  BY <1>3 DEF Cleanup, TypeOK, CallsTyped, history
<1>5. QED
  BY <1>4 DEF Cleanup, TypeOK

LEMMA FinishTypes ==
    ASSUME TypeOK, NEW t \in Threads, Finish(t)
    PROVE  TypeOK'
<1>1. call \in [Threads -> CallType] /\ call[t] \in CallType
      /\ proc \in [Threads -> ProcType] /\ proc[t] \in ProcType
  BY DEF TypeOK, CallsTyped
<1>2. CallsTyped'
  <2>1. DEFINE e == [p \in Roles |-> None]
               pc == IF call[t].r < 0 THEN "failed" ELSE "idle"
               c == [call[t] EXCEPT !.pc = pc, !.r = call[t].r, !.end = e]
  <2>2. e \in [Roles -> Handles] /\ pc \in Pcs /\ call[t].r \in Int
    BY <1>1, HandleTypes, Targets DEF CallType
  <2>3. call' = [call EXCEPT ![t].pc = pc, ![t].end = e]
    BY DEF Finish
  <2>4. HIDE DEF e, pc
  <2>5. call' = [call EXCEPT ![t] = c]
    BY <1>1, <2>3 DEF CallType
  <2>6. c \in CallType
    BY <1>1, <2>2, CallWithEnd
  <2>7. HIDE DEF c
  <2>8. QED
    BY <2>5, <2>6, CallUpdate DEF Finish, history
<1>3. open' \in SUBSET Handles /\ proc' \in [Threads -> ProcType] /\ winsock' \in Int
  <2>1. CASE call[t].r < 0
    <3>1. DEFINE v == [proc[t] EXCEPT !.pipe = {}, !.process = FALSE]
    <3>2. v \in ProcType
      BY <1>1 DEF ProcType
    <3>3. proc' = [proc EXCEPT ![t] = v]
      BY <1>1, <2>1 DEF Finish
    <3>4. HIDE DEF v
    <3>5. QED
      BY <1>1, <2>1, <3>2, <3>3 DEF Finish, TypeOK
  <2>2. CASE ~(call[t].r < 0)
    <3>1. DEFINE v == [proc[t] EXCEPT !.kept = Piped(t), !.status = IN_PROGRESS]
    <3>2. v \in ProcType
      BY <1>1 DEF ProcType, Piped
    <3>3. proc' = [proc EXCEPT ![t] = v]
      BY <1>1, <2>2 DEF Finish
    <3>4. HIDE DEF v
    <3>5. QED
      BY <1>1, <2>2, <3>2, <3>3 DEF Finish, TypeOK
  <2>3. QED
    BY <2>1, <2>2
<1>4. QED
  BY <1>2, <1>3 DEF Finish, TypeOK

LEMMA CallWithOp ==
    ASSUME TypeOK, NEW t \in Threads, NEW c \in CallType, call' = [call EXCEPT ![t] = c],
           UNCHANGED <<shared, options, proc, child, history>>
    PROVE  TypeOK'
  BY CallUpdate DEF TypeOK, shared

LEMMA CallOperationTypes ==
    ASSUME TypeOK, NEW t \in Threads, CallWait(t) \/ (\E op \in {"terminate", "kill"} : CallSignal(t, op))
                                          \/ CallDestroy(t)
    PROVE  TypeOK'
<1>1. call \in [Threads -> CallType] /\ call[t] \in CallType /\ proc[t] \in ProcType
  BY DEF TypeOK, CallsTyped
<1>2. {"idle", "poll", "signal", "stop", "release"} \subseteq Pcs
  BY Targets DEF InCall, Waiting
<1>3. CASE CallWait(t)
  <2>1. PICK timeout \in Timeouts :
          call' = [call EXCEPT ![t] = IF proc[t].status >= 0
                     THEN [@ EXCEPT !.op = "wait", !.r = proc[t].status]
                     ELSE [@ EXCEPT !.op = "wait", !.pc = "poll", !.timeout = timeout]]
    BY <1>3 DEF CallWait
  <2>2. DEFINE c == IF proc[t].status >= 0
                    THEN [call[t] EXCEPT !.op = "wait", !.r = proc[t].status]
                    ELSE [call[t] EXCEPT !.op = "wait", !.pc = "poll", !.timeout = timeout]
  <2>3. proc[t].status \in Int
    BY <1>1 DEF ProcType, NOT_STARTED, IN_PROGRESS
  <2>4. [call[t] EXCEPT !.op = "wait", !.r = proc[t].status] \in CallType
    BY <1>1, <2>3 DEF CallType
  <2>5. [call[t] EXCEPT !.op = "wait", !.pc = "poll", !.timeout = timeout] \in CallType
    BY <1>1, <1>2 DEF CallType
  <2>6. c \in CallType
    BY <2>4, <2>5
  <2>7. call' = [call EXCEPT ![t] = c]
    BY <1>1, <2>1
  <2>8. HIDE DEF c
  <2>9. QED
    BY <1>3, <2>6, <2>7, CallWithOp DEF CallWait
<1>4. ASSUME NEW op \in {"terminate", "kill"}, CallSignal(t, op)
      PROVE  TypeOK'
  <2>1. DEFINE c == IF proc[t].status >= 0
                    THEN [call[t] EXCEPT !.op = op, !.r = 0]
                    ELSE [call[t] EXCEPT !.op = op, !.pc = "signal"]
  <2>2. \A r \in Int : [call[t] EXCEPT !.op = op, !.r = r] \in CallType
    BY <1>1 DEF CallType
  <2>3. 0 \in Int
    OBVIOUS
  <2>4. [call[t] EXCEPT !.op = op, !.r = 0] \in CallType
    BY <2>2, <2>3
  <2>5. [call[t] EXCEPT !.op = op, !.pc = "signal"] \in CallType
    BY <1>1, <1>2 DEF CallType
  <2>6. c \in CallType
    BY <2>4, <2>5
  <2>7. call' = [call EXCEPT ![t] = c]
    BY <1>1, <1>4 DEF CallSignal
  <2>8. HIDE DEF c
  <2>9. QED
    BY <1>4, <2>6, <2>7, CallWithOp DEF CallSignal
<1>5. CASE CallDestroy(t)
  <2>1. DEFINE next == IF proc[t].status = IN_PROGRESS THEN "stop" ELSE "release"
               c == [call[t] EXCEPT !.op = "destroy", !.i = 1, !.pc = next]
  <2>2. \A i \in Nat \ {0} : [call[t] EXCEPT !.op = "destroy", !.i = i, !.pc = next] \in CallType
    BY <1>1, <1>2 DEF CallType
  <2>3. c \in CallType
    BY <2>2, OneType
  <2>4. call' = [call EXCEPT ![t] = c]
    BY <1>1, <1>5 DEF CallDestroy
  <2>5. HIDE DEF c
  <2>6. QED
    BY <1>5, <2>3, <2>4, CallWithOp DEF CallDestroy
<1>6. QED
  BY <1>3, <1>4, <1>5

LEMMA StopTypes ==
    ASSUME TypeOK, NEW t \in Threads, Stop(t)
    PROVE  TypeOK'
<1>1. call \in [Threads -> CallType] /\ call[t] \in CallType
  BY DEF TypeOK, CallsTyped
<1>2. {"poll", "signal", "release"} \subseteq Pcs
  BY Targets DEF InCall, Waiting
<1>3. DEFINE next == IF call[t].i > 3 THEN "release"
                     ELSE IF StopActions[call[t].i] = "wait" THEN "poll" ELSE "signal"
             c == [call[t] EXCEPT !.timeout = "finite", !.pc = next]
<1>4. next \in Pcs
  BY <1>2
<1>5. call' = [call EXCEPT ![t] = c]
  BY <1>1 DEF Stop
<1>6. HIDE DEF next
<1>7. c \in CallType
  BY <1>1, <1>4 DEF CallType, Timeouts
<1>8. HIDE DEF c
<1>9. QED
  BY <1>5, <1>7, CallWithOp DEF Stop

LEMMA AfterWaitTypes ==
    ASSUME TypeOK, NEW t \in Threads, NEW r \in Int, AfterWait(t, r), UNCHANGED <<options, history>>
    PROVE  CallsTyped'
<1>1. call \in [Threads -> CallType] /\ call[t] \in CallType
  BY DEF TypeOK, CallsTyped
<1>2. {"idle", "stop", "release"} \subseteq Pcs
  BY Targets DEF InCall, Waiting
<1>3. DEFINE i == IF call[t].op = "destroy" THEN call[t].i + 1 ELSE call[t].i
             timeout == IF call[t].op = "wait" THEN "none" ELSE call[t].timeout
             next == IF call[t].op = "wait" THEN "idle"
                     ELSE IF r = REPROC_ETIMEDOUT THEN "stop" ELSE "release"
             c == [call[t] EXCEPT !.r = r, !.i = i, !.timeout = timeout, !.pc = next]
<1>4. i \in Nat \ {0} /\ timeout \in Timeouts \cup {"none"} /\ next \in Pcs
  BY <1>1, <1>2 DEF CallType
<1>5. call' = [call EXCEPT ![t] = c]
  BY <1>1 DEF AfterWait
<1>6. HIDE DEF i, timeout, next
<1>7. c \in CallType
  BY <1>1, <1>4 DEF CallType
<1>8. HIDE DEF c
<1>9. QED
  BY <1>5, <1>7, CallUpdate

LEMMA AfterSignalTypes ==
    ASSUME TypeOK, NEW t \in Threads, NEW r \in Int, AfterSignal(t, r), UNCHANGED <<options, history>>
    PROVE  CallsTyped'
<1>1. call \in [Threads -> CallType] /\ call[t] \in CallType
  BY DEF TypeOK, CallsTyped
<1>2. {"idle", "poll", "release"} \subseteq Pcs
  BY Targets DEF InCall, Waiting
<1>3. DEFINE next == IF call[t].op # "destroy" THEN "idle" ELSE IF r < 0 THEN "release" ELSE "poll"
             c == [call[t] EXCEPT !.r = r, !.pc = next]
<1>4. next \in Pcs
  BY <1>2
<1>5. call' = [call EXCEPT ![t] = c]
  BY <1>1 DEF AfterSignal
<1>6. HIDE DEF next
<1>7. c \in CallType
  BY <1>1, <1>4 DEF CallType
<1>8. HIDE DEF c
<1>9. QED
  BY <1>5, <1>7, CallUpdate

LEMMA ExitingTypes ==
    ASSUME TypeOK, NEW t \in Threads, NEW code \in Int, Exiting(t, code)
    PROVE  child' \in [Threads -> ChildType]
<1>1. child \in [Threads -> ChildType] /\ child[t] \in ChildType
  BY DEF TypeOK
<1>2. DEFINE c == [child[t] EXCEPT !.state = "exiting", !.code = code, !.inherits = {}, !.ctrl = FALSE]
<1>3. c \in ChildType
  BY <1>1 DEF ChildType
<1>4. child' = [child EXCEPT ![t] = c]
  BY <1>1 DEF Exiting
<1>5. HIDE DEF c
<1>6. QED
  BY <1>1, <1>3, <1>4

LEMMA TerminateProcessTypes ==
    ASSUME TypeOK, NEW t \in Threads, TerminateProcess(t)
    PROVE  child' \in [Threads -> ChildType]
<1>1. CASE Exiting(t, REPROC_SIGKILL)
  BY <1>1, ExitingTypes DEF REPROC_SIGKILL
<1>2. CASE UNCHANGED child
  BY <1>2 DEF TypeOK
<1>3. QED
  BY <1>1, <1>2 DEF TerminateProcess

LEMMA TerminatedType ==
    ASSUME NEW t \in Threads
    PROVE  Terminated(t) \in Int
  BY DEF Terminated, ERROR_ACCESS_DENIED

LEMMA SignalTypes ==
    ASSUME TypeOK, NEW t \in Threads, Signal(t)
    PROVE  TypeOK'
<1>1. UNCHANGED <<shared, options, proc, history>>
  BY DEF Signal
<1>2. ASSUME NEW r \in Int, AfterSignal(t, r), child' \in [Threads -> ChildType]
      PROVE  TypeOK'
  <2>1. CallsTyped'
    BY <1>1, <1>2, AfterSignalTypes
  <2>2. QED
    BY <1>1, <1>2, <2>1 DEF TypeOK, shared
<1>3. CASE TerminateProcess(t) /\ AfterSignal(t, Terminated(t))
  BY <1>2, <1>3, TerminateProcessTypes, TerminatedType
<1>4. CASE Terminate(t)
  <2>1. child \in [Threads -> ChildType] /\ child[t] \in ChildType
    BY DEF TypeOK
  <2>2. CASE UNCHANGED child /\ \E e \in Errnos : AfterSignal(t, -e)
    <3>1. PICK e \in Errnos : AfterSignal(t, -e)
      BY <2>2
    <3>2. -e \in Int
      BY WindowsAssumption
    <3>3. QED
      BY <1>2, <2>1, <2>2, <3>1, <3>2
  <2>3. CASE UNCHANGED child /\ AfterSignal(t, -ERROR_INVALID_PARAMETER)
    <3>1. -ERROR_INVALID_PARAMETER \in Int
      BY DEF ERROR_INVALID_PARAMETER
    <3>2. QED
      BY <1>2, <2>1, <2>3, <3>1
  <2>4. CASE AfterSignal(t, 0) /\ child' = [child EXCEPT ![t].ctrl = (child[t].state = "running")]
    <3>1. child' \in [Threads -> ChildType]
      BY <2>1, <2>4 DEF ChildType
    <3>2. QED
      BY <1>2, <2>4, <3>1, 0 \in Int
  <2>5. QED
    BY <1>4, <2>2, <2>3, <2>4 DEF Terminate
<1>5. QED
  BY <1>3, <1>4 DEF Signal

LEMMA PollTypes ==
    ASSUME TypeOK, NEW t \in Threads, Poll(t)
    PROVE  TypeOK'
<1>1. UNCHANGED <<shared, options, proc, child, history>>
  BY DEF Poll
<1>2. CASE AfterWait(t, REPROC_ETIMEDOUT)
  <2>1. REPROC_ETIMEDOUT \in Int
    BY DEF REPROC_ETIMEDOUT, WAIT_TIMEOUT
  <2>2. CallsTyped'
    BY <1>1, <1>2, <2>1, AfterWaitTypes
  <2>3. QED
    BY <1>1, <2>2 DEF TypeOK, shared
<1>3. CASE call' = [call EXCEPT ![t].pc = "object"]
  <2>1. call \in [Threads -> CallType] /\ call[t] \in CallType /\ "object" \in Pcs
    BY Targets DEF TypeOK, CallsTyped, InCall, Waiting
  <2>2. DEFINE c == [call[t] EXCEPT !.pc = "object"]
  <2>3. c \in CallType
    BY <2>1 DEF CallType
  <2>4. call' = [call EXCEPT ![t] = c]
    BY <1>3, <2>1
  <2>5. HIDE DEF c
  <2>6. QED
    BY <1>1, <2>3, <2>4, CallWithOp
<1>4. QED
  BY <1>2, <1>3 DEF Poll

LEMMA WaitedTypes ==
    ASSUME TypeOK, NEW t \in Threads, NEW r \in Int, Waited(t, r), UNCHANGED <<options, history>>
    PROVE  CallsTyped' /\ open' \in SUBSET Handles /\ proc' \in [Threads -> ProcType]
<1>1. CallsTyped'
  BY AfterWaitTypes DEF Waited
<1>2. CASE r < 0
  BY <1>1, <1>2 DEF Waited, TypeOK
<1>3. CASE ~(r < 0)
  <2>1. proc \in [Threads -> ProcType] /\ proc[t] \in ProcType
    BY DEF TypeOK
  <2>2. DEFINE P == proc[t].pipe \ {"exit"}
               v == [proc[t] EXCEPT !.pipe = P, !.status = r]
  <2>3. P \in SUBSET Roles /\ r \in Nat \cup {NOT_STARTED, IN_PROGRESS}
    BY <1>3, <2>1 DEF ProcType
  <2>4. proc' = [proc EXCEPT ![t] = v] /\ open' = open \ {Ours(t, "exit")}
    BY <1>3, <2>1 DEF Waited
  <2>5. HIDE DEF P
  <2>6. v \in ProcType
    BY <2>1, <2>3 DEF ProcType
  <2>7. HIDE DEF v
  <2>8. QED
    BY <1>1, <2>1, <2>4, <2>6 DEF TypeOK
<1>4. QED
  BY <1>2, <1>3

LEMMA ExitStatusType ==
    ASSUME NEW code \in Int
    PROVE  ExitStatus(code) \in Int
  BY DEF ExitStatus, REPROC_SIGTERM

LEMMA ProcessWaitTypes ==
    ASSUME TypeOK, NEW t \in Threads, ProcessWait(t)
    PROVE  TypeOK'
<1>1. UNCHANGED <<once, ready, errorMode, inherit, winsock, options, history>>
  BY DEF ProcessWait
<1>2. ASSUME NEW r \in Int, Waited(t, r), child' \in [Threads -> ChildType]
      PROVE  TypeOK'
  <2>1. CallsTyped' /\ open' \in SUBSET Handles /\ proc' \in [Threads -> ProcType]
    BY <1>1, <1>2, WaitedTypes
  <2>2. QED
    BY <1>1, <1>2, <2>1 DEF TypeOK
<1>3. CASE UNCHANGED child /\ \E e \in Errnos : Waited(t, -e)
  <2>1. PICK e \in Errnos : Waited(t, -e)
    BY <1>3
  <2>2. -e \in Int
    BY WindowsAssumption
  <2>3. QED
    BY <1>2, <1>3, <2>1, <2>2 DEF TypeOK
<1>4. CASE UNCHANGED child /\ Waited(t, ExitStatus(child[t].code))
  <2>1. ExitStatus(child[t].code) \in Int
    BY ExitStatusType DEF TypeOK, ChildType
  <2>2. QED
    BY <1>2, <1>4, <2>1 DEF TypeOK
<1>5. CASE TerminateProcess(t) /\ Waited(t, Terminated(t))
  BY <1>2, <1>5, TerminateProcessTypes, TerminatedType
<1>6. QED
  BY <1>3, <1>4, <1>5 DEF ProcessWait

LEMMA ReleaseTypes ==
    ASSUME TypeOK, NEW t \in Threads, Release(t)
    PROVE  TypeOK'
<1>1. call \in [Threads -> CallType] /\ call[t] \in CallType
      /\ proc \in [Threads -> ProcType] /\ proc[t] \in ProcType /\ "freed" \in Pcs
  BY Targets DEF TypeOK, CallsTyped
<1>2. DEFINE c == [call[t] EXCEPT !.pc = "freed"]
             v == [proc[t] EXCEPT !.process = FALSE, !.pipe = {}, !.kept = {}]
<1>3. c \in CallType
  BY <1>1 DEF CallType
<1>4. v \in ProcType
  BY <1>1 DEF ProcType
<1>5. call' = [call EXCEPT ![t] = c] /\ proc' = [proc EXCEPT ![t] = v]
  BY <1>1 DEF Release
<1>6. HIDE DEF c, v
<1>7. CallsTyped'
  BY <1>3, <1>5, CallUpdate DEF Release, history
<1>8. proc' \in [Threads -> ProcType]
  BY <1>1, <1>4, <1>5
<1>9. open' \in SUBSET Handles /\ winsock' \in Int
  BY DEF Release, TypeOK
<1>10. QED
  BY <1>7, <1>8, <1>9 DEF Release, TypeOK

LEMMA ChildTypes ==
    ASSUME TypeOK, NEW t \in Threads, Child(t)
    PROVE  TypeOK'
<1>1. UNCHANGED <<shared, options, call, proc, history>>
  BY DEF Child, ChildExits, ChildSignalled, ChildClosesExit
<1>2. child \in [Threads -> ChildType] /\ child[t] \in ChildType
  BY DEF TypeOK
<1>3. CASE ChildExits(t)
  <2>1. PICK code \in Int : Exiting(t, code)
    BY <1>3, WindowsAssumption DEF ChildExits, STATUS_CONTROL_C_EXIT
  <2>2. child' \in [Threads -> ChildType]
    BY <2>1, ExitingTypes
  <2>3. QED
    BY <1>1, <2>2 DEF TypeOK, CallsTyped, shared, history
<1>4. CASE ChildSignalled(t)
  <2>1. child' \in [Threads -> ChildType]
    BY <1>2, <1>4 DEF ChildSignalled, ChildType
  <2>2. QED
    BY <1>1, <2>1 DEF TypeOK, CallsTyped, shared, history
<1>5. CASE ChildClosesExit(t)
  <2>1. DEFINE I == child[t].inherits \ {Write(t, "exit")}
               c == [child[t] EXCEPT !.inherits = I]
  <2>2. I \in SUBSET Handles
    BY <1>2 DEF ChildType
  <2>3. HIDE DEF I
  <2>4. c \in ChildType
    BY <1>2, <2>2 DEF ChildType
  <2>5. child' = [child EXCEPT ![t] = c]
    BY <1>2, <1>5 DEF ChildClosesExit, I
  <2>6. HIDE DEF c
  <2>7. child' \in [Threads -> ChildType]
    BY <1>2, <2>4, <2>5
  <2>8. QED
    BY <1>1, <2>7 DEF TypeOK, CallsTyped, shared, history
<1>6. QED
  BY <1>3, <1>4, <1>5 DEF Child

-----------------------------------------------------------------------------
(* A step of one thread leaves the others where they are. *)

Untouched(u) ==
    /\ call'[u] = call[u] /\ proc'[u] = proc[u] /\ child'[u] = child[u]
    /\ fault'[u] = fault[u] /\ options'[u] = options[u]
    /\ overlap[u] => overlap'[u]

LEMMA FailedFrame ==
    ASSUME TypeOK, NEW t \in Threads, NEW u \in Threads \ {t}, NEW step, NEW where,
           Failed(t, step, where) \/ \E e \in Nat : FailedWith(t, step, e, where)
    PROVE  call'[u] = call[u] /\ fault'[u] = fault[u] /\ options' = options /\ overlap' = overlap
<1>1. PICK e : FailedWith(t, step, e, where)
  BY DEF Failed
<1>2. QED
  BY <1>1 DEF FailedWith, Goto, TypeOK, CallsTyped

LEMMA MakePipeFrame ==
    ASSUME TypeOK, NEW t \in Threads, NEW u \in Threads \ {t}, NEW p \in Roles, NEW next,
           MakePipe(t, p, next)
    PROVE  /\ call'[u] = call[u] /\ proc'[u] = proc[u] /\ fault'[u] = fault[u]
           /\ options' = options /\ overlap' = overlap
<1>1. CASE UNCHANGED <<open, proc>> /\ Failed(t, "pipe", "finish")
  BY <1>1, FailedFrame
<1>2. CASE UNCHANGED <<open, proc>> /\ FailedWith(t, "stale", WSAEWOULDBLOCK, "finish")
  BY <1>2 DEF FailedWith, Goto, TypeOK, CallsTyped
<1>3. CASE /\ proc' = [proc EXCEPT ![t].pipe = @ \cup {p}]
           /\ call' = [call EXCEPT ![t].pc = next, ![t].r = 0, ![t].end[p] = Theirs(t, p)]
           /\ UNCHANGED <<options, history>>
  BY <1>3 DEF TypeOK, CallsTyped, history
<1>4. \/ /\ UNCHANGED <<open, proc>>
         /\ \/ Failed(t, "pipe", "finish")
            \/ FailedWith(t, "stale", WSAEWOULDBLOCK, "finish")
      \/ /\ open' = open \cup {Ours(t, p), Theirs(t, p)}
         /\ proc' = [proc EXCEPT ![t].pipe = @ \cup {p}]
         /\ call' = [call EXCEPT ![t].pc = next, ![t].r = 0, ![t].end[p] = Theirs(t, p)]
         /\ UNCHANGED <<options, history>>
  BY MakePipeEffect, Zenon
<1>5. QED
  BY <1>1, <1>2, <1>3, <1>4

LEMMA RedirectingFrame ==
    ASSUME TypeOK, NEW t \in Threads, NEW u \in Threads \ {t},
           \/ InitWinsock(t) \/ ParseOptions(t) \/ \E s \in Streams : Redirect(t, s)
           \/ InitExitPipe(t) \/ SetupInput(t)
    PROVE  Untouched(u) /\ overlap' = overlap
<1>1. CASE InitWinsock(t)
  BY <1>1 DEF InitWinsock, Failed, FailedWith, Goto, Untouched, TypeOK, CallsTyped, history
<1>2. CASE ParseOptions(t)
  BY <1>2 DEF ParseOptions, FailedWith, Goto, Untouched, TypeOK, CallsTyped, history
<1>3. CASE \E s \in Streams : Redirect(t, s)
  <2>1. PICK s \in Streams : Redirect(t, s)
    BY <1>3
  <2>2. child' = child
    BY <2>1 DEF Redirect
  <2>3. CASE MakePipe(t, s, After[s])
    BY <2>2, <2>3, MakePipeFrame, AfterTypes DEF Untouched
  <2>4. CASE (\E h : Redirected(t, s, After[s], h)) /\ UNCHANGED proc
    BY <2>2, <2>4 DEF Redirected, Untouched, TypeOK, CallsTyped, history
  <2>5. CASE Failed(t, s, "finish") /\ UNCHANGED proc
    BY <2>2, <2>5, FailedFrame DEF Untouched
  <2>6. QED
    BY <2>1, <2>3, <2>4, <2>5, RedirectEffect
<1>4. CASE InitExitPipe(t)
  <2>1. MakePipe(t, "exit", "input") /\ "exit" \in Roles /\ child' = child
    BY <1>4 DEF InitExitPipe, Roles
  <2>2. QED
    BY <2>1, MakePipeFrame DEF Untouched
<1>5. CASE SetupInput(t)
  BY <1>5 DEF SetupInput, Failed, FailedWith, Goto, Untouched, TypeOK, CallsTyped, history
<1>6. QED
  BY <1>1, <1>2, <1>3, <1>4, <1>5

LEMMA SpawningFrame ==
    ASSUME TypeOK, NEW t \in Threads, NEW u \in Threads \ {t},
           \/ InitOnce(t) \/ PublishOnce(t) \/ SpinOnce(t)
           \/ MakeStrings(t) \/ SetInherit(t) \/ SetupAttributeList(t) \/ SetErrorMode(t)
           \/ CreateProcess(t) \/ RestoreErrorMode(t) \/ ClearInherit(t) \/ Cleanup(t)
           \/ Finish(t)
    PROVE  Untouched(u) /\ overlap' = overlap
<1>1. CASE InitOnce(t) \/ PublishOnce(t) \/ SpinOnce(t)
  BY <1>1 DEF InitOnce, PublishOnce, SpinOnce, Goto, Untouched, TypeOK, CallsTyped, history
<1>2. CASE MakeStrings(t)
  BY <1>2 DEF MakeStrings, Failed, FailedWith, Goto, Untouched, TypeOK, CallsTyped, history
<1>3. CASE SetInherit(t)
  BY <1>3 DEF SetInherit, Round, Untouched, TypeOK, CallsTyped, history
<1>4. CASE SetupAttributeList(t) \/ SetErrorMode(t)
  BY <1>4 DEF SetupAttributeList, SetErrorMode, Failed, FailedWith, Goto, Untouched,
     TypeOK, CallsTyped, history
<1>5. CASE CreateProcess(t)
  BY <1>5 DEF CreateProcess, Failed, FailedWith, Goto, Untouched, TypeOK, CallsTyped, history
<1>6. CASE RestoreErrorMode(t) \/ ClearInherit(t) \/ Cleanup(t)
  BY <1>6 DEF RestoreErrorMode, ClearInherit, Round, Cleanup, Goto, Untouched,
     TypeOK, CallsTyped, history
<1>7. CASE Finish(t)
  BY <1>7 DEF Finish, Untouched, TypeOK, CallsTyped, history
<1>8. QED
  BY <1>1, <1>2, <1>3, <1>4, <1>5, <1>6, <1>7

LEMMA EnterFrame ==
    ASSUME TypeOK, NEW t \in Threads, NEW u \in Threads \ {t}, EnterProcessStart(t)
    PROVE  Untouched(u)
  BY DEF EnterProcessStart, FailedWith, Goto, Untouched, TypeOK, CallsTyped

LEMMA CallingFrame ==
    ASSUME TypeOK, NEW t \in Threads, NEW u \in Threads \ {t},
           \/ Stop(t) \/ Signal(t) \/ Poll(t) \/ ProcessWait(t) \/ Release(t)
           \/ Begin(t) \/ Child(t)
    PROVE  Untouched(u) /\ overlap' = overlap
<1>1. CASE Stop(t) \/ Poll(t) \/ Release(t) \/ Begin(t)
  BY <1>1 DEF Stop, Poll, AfterWait, Release, Begin, CallWait, CallDestroy, CallSignal,
     Untouched, TypeOK, CallsTyped, history
<1>2. CASE Signal(t)
  BY <1>2 DEF Signal, Terminate, TerminateProcess, Exiting, AfterSignal,
     Untouched, TypeOK, CallsTyped, history
<1>3. CASE ProcessWait(t)
  BY <1>3 DEF ProcessWait, Waited, AfterWait, TerminateProcess, Exiting,
     Untouched, TypeOK, CallsTyped, history
<1>4. CASE Child(t)
  BY <1>4 DEF Child, ChildExits, ChildSignalled, ChildClosesExit, Exiting,
     Untouched, TypeOK, CallsTyped, history
<1>5. QED
  BY <1>1, <1>2, <1>3, <1>4

\* A step of thread t, in the model's three ways.
Moves(t) == Step(t) \/ Begin(t) \/ Child(t)

LEMMA NextMoves ==
    ASSUME Next
    PROVE  \E t \in Threads : Moves(t)
  BY WindowsAssumption DEF Next, Moves

LEMMA OthersUntouched ==
    ASSUME TypeOK, NEW t \in Threads, NEW u \in Threads \ {t}, Moves(t)
    PROVE  Untouched(u)
<1>1. CASE Start(t)
  BY <1>1, RedirectingFrame, SpawningFrame, EnterFrame DEF Start
<1>2. CASE ~Start(t)
  BY <1>2, CallingFrame DEF Moves, Step
<1>3. QED
  BY <1>1, <1>2

LEMMA MovesTypes ==
    ASSUME TypeOK, NEW t \in Threads, PlaceOK(t), Moves(t)
    PROVE  TypeOK'
<1>1. CASE Start(t)
  BY <1>1, InitWinsockTypes, ParseOptionsTypes, RedirectTypes, InitExitPipeTypes,
     SetupInputTypes, EnterTypes, OnceTypes, MakeStringsTypes, SetInheritTypes, AttributeTypes,
     ErrorModeTypes, CreateTypes, RestoreTypes, ClearTypes, CleanupTypes, FinishTypes DEF Start
<1>2. CASE Begin(t)
  BY <1>2, CallOperationTypes DEF Begin
<1>3. CASE Child(t)
  BY <1>3, ChildTypes
<1>4. CASE Stop(t) \/ Signal(t) \/ Poll(t) \/ ProcessWait(t) \/ Release(t)
  BY <1>4, StopTypes, SignalTypes, PollTypes, ProcessWaitTypes, ReleaseTypes
<1>5. QED
  BY <1>1, <1>2, <1>3, <1>4 DEF Moves, Step

LEMMA StartPlace ==
    ASSUME TypeOK, NEW t \in Threads, PlaceOK(t), call[t].pc \in Starting,
           call'[t].pc \in Starting \cup {"failed", "idle"}, call'[t].op = call[t].op,
           options' = options, call'[t].pc \in {"create", "restore"} => call'[t].previous \in Modes,
           call'[t].pc \in Starting => call'[t].i = 1
    PROVE  PlaceOK(t)'
<1>1. NumHandles(t)' \in {3, 4}
  BY DEF NumHandles
<1>2. call[t].op = "start" /\ options[t] \in Configs[t]
  BY DEF PlaceOK
<1>3. QED
  BY <1>1, <1>2 DEF PlaceOK, Waiting, Starting, Redirecting, Spawning, Undoing

Kept(t) ==
    /\ call'[t].op = call[t].op /\ call'[t].i = call[t].i
    /\ call'[t].previous = call[t].previous /\ options' = options

LEMMA FailedFlow ==
    ASSUME TypeOK, NEW t \in Threads, NEW step, NEW e \in Nat, NEW where,
           FailedWith(t, step, e, where)
    PROVE  /\ call'[t].pc = where /\ call'[t].r = -e /\ call'[t].end = call[t].end /\ Kept(t)
           /\ fault'[t].step = step /\ fault'[t].errno = e /\ overlap' = overlap
  BY DEF FailedWith, Goto, Kept, TypeOK, CallsTyped, CallType

LEMMA FailsFlow ==
    ASSUME TypeOK, NEW t \in Threads, NEW step, NEW where, Failed(t, step, where)
    PROVE  /\ call'[t].pc = where /\ call'[t].r < 0 /\ call'[t].end = call[t].end /\ Kept(t)
           /\ fault'[t].step = step /\ fault'[t].errno \in Nat \ {0}
           /\ call'[t].r = -fault'[t].errno /\ overlap' = overlap
<1>1. PICK e \in Errnos : FailedWith(t, step, e, where)
  BY DEF Failed
<1>2. e \in Nat \ {0} /\ -e < 0
  BY WindowsAssumption
<1>3. QED
  BY <1>1, <1>2, FailedFlow

LEMMA GotoFlow ==
    ASSUME TypeOK, NEW t \in Threads, NEW where, NEW r, Goto(t, where, r)
    PROVE  call'[t].pc = where /\ call'[t].r = r /\ call'[t].end = call[t].end /\ Kept(t)
  BY DEF Goto, Kept, TypeOK, CallsTyped, CallType

LEMMA EndFlow ==
    ASSUME TypeOK, NEW t \in Threads, NEW p \in Roles, NEW next, NEW h,
           call' = [call EXCEPT ![t].pc = next, ![t].r = 0, ![t].end[p] = h],
           UNCHANGED options
    PROVE  /\ call'[t].pc = next /\ call'[t].r = 0 /\ Kept(t)
           /\ call'[t].end = [call[t].end EXCEPT ![p] = h]
  BY DEF Kept, TypeOK, CallsTyped, CallType

\* What making a pipe does to the thread that makes it.
LEMMA MakePipeFlow ==
    ASSUME TypeOK, NEW t \in Threads, NEW p \in Roles, NEW next, MakePipe(t, p, next)
    PROVE  /\ Kept(t) /\ overlap' = overlap
           /\ proc'[t].status = proc[t].status /\ proc'[t].process = proc[t].process
           /\ proc'[t].kept = proc[t].kept
           /\ \/ /\ call'[t].pc = "finish" /\ call'[t].r < 0 /\ call'[t].end = call[t].end
                 /\ call'[t].r = -fault'[t].errno /\ fault'[t].step # "race"
                 /\ UNCHANGED <<open, proc>>
              \/ /\ call'[t].pc = next /\ call'[t].r = 0 /\ fault'[t] = fault[t]
                 /\ call'[t].end = [call[t].end EXCEPT ![p] = Theirs(t, p)]
                 /\ proc'[t].pipe = proc[t].pipe \cup {p}
                 /\ open' = open \cup {Ours(t, p), Theirs(t, p)}
<1>1. CASE UNCHANGED <<open, proc>> /\ Failed(t, "pipe", "finish")
  BY <1>1, FailsFlow
<1>2. CASE UNCHANGED <<open, proc>> /\ FailedWith(t, "stale", WSAEWOULDBLOCK, "finish")
  <2>1. WSAEWOULDBLOCK \in Nat /\ -WSAEWOULDBLOCK < 0
    BY DEF WSAEWOULDBLOCK
  <2>2. QED
    BY <1>2, <2>1, FailedFlow
<1>3. CASE /\ open' = open \cup {Ours(t, p), Theirs(t, p)}
           /\ proc' = [proc EXCEPT ![t].pipe = @ \cup {p}]
           /\ call' = [call EXCEPT ![t].pc = next, ![t].r = 0, ![t].end[p] = Theirs(t, p)]
           /\ UNCHANGED <<options, history>>
  <2>1. /\ call'[t].pc = next /\ call'[t].r = 0 /\ Kept(t)
        /\ call'[t].end = [call[t].end EXCEPT ![p] = Theirs(t, p)]
    BY <1>3 DEF Kept, TypeOK, CallsTyped, CallType
  <2>2. /\ proc'[t].status = proc[t].status /\ proc'[t].process = proc[t].process
        /\ proc'[t].kept = proc[t].kept /\ proc'[t].pipe = proc[t].pipe \cup {p}
    BY <1>3 DEF TypeOK, ProcType
  <2>3. QED
    BY <1>3, <2>1, <2>2 DEF history
<1>4. \/ UNCHANGED <<open, proc>> /\ Failed(t, "pipe", "finish")
      \/ UNCHANGED <<open, proc>> /\ FailedWith(t, "stale", WSAEWOULDBLOCK, "finish")
      \/ /\ open' = open \cup {Ours(t, p), Theirs(t, p)}
         /\ proc' = [proc EXCEPT ![t].pipe = @ \cup {p}]
         /\ call' = [call EXCEPT ![t].pc = next, ![t].r = 0, ![t].end[p] = Theirs(t, p)]
         /\ UNCHANGED <<options, history>>
  BY MakePipeEffect
<1>5. QED
  BY <1>1, <1>2, <1>3, <1>4

\* What redirecting a stream does: an error, or the child's end of it.
LEMMA RedirectFlow ==
    ASSUME TypeOK, NEW t \in Threads, NEW s \in Streams, Redirect(t, s)
    PROVE  /\ call[t].pc = s /\ Kept(t) /\ child' = child /\ overlap' = overlap
           /\ proc'[t].status = proc[t].status /\ proc'[t].process = proc[t].process
           /\ proc'[t].kept = proc[t].kept
           /\ \/ /\ call'[t].pc = "finish" /\ call'[t].r < 0 /\ call'[t].end = call[t].end
                 /\ call'[t].r = -fault'[t].errno /\ fault'[t].step # "race"
                 /\ UNCHANGED <<open, proc>>
              \/ /\ call'[t].pc = After[s] /\ call'[t].r = 0 /\ fault'[t] = fault[t]
                 /\ \/ /\ options[t][s] = "stdout"
                       /\ call'[t].end = [call[t].end EXCEPT ![s] = call[t].end["out"]]
                       /\ open' = open \cup ({call[t].end["out"]} \cap {File(t, s)})
                       /\ proc'[t] = proc[t]
                    \/ /\ options[t][s] # "stdout"
                       /\ call'[t].end = [call[t].end EXCEPT ![s] = EndMade(t, s)]
                       /\ IF options[t][s] = "pipe"
                          THEN /\ proc'[t].pipe = proc[t].pipe \cup {s}
                               /\ open' = open \cup {Ours(t, s), EndMade(t, s)}
                          ELSE /\ proc'[t] = proc[t]
                               /\ open' = open \cup ({EndMade(t, s)} \cap {File(t, s)})
<1>1. call[t].pc = s /\ child' = child /\ s \in Roles /\ s # "exit"
  BY AfterTypes DEF Redirect, Streams
<1>2. CASE options[t][s] = "pipe" /\ MakePipe(t, s, After[s])
  <2>1. EndMade(t, s) = Theirs(t, s) /\ options[t][s] # "stdout"
    BY <1>2 DEF EndMade
  <2>2. QED
    BY <1>1, <1>2, <2>1, MakePipeFlow
<1>3. ASSUME NEW h, Redirected(t, s, After[s], h), UNCHANGED proc
      PROVE  /\ Kept(t) /\ proc'[t] = proc[t] /\ fault'[t] = fault[t] /\ overlap' = overlap
             /\ call'[t].pc = After[s] /\ call'[t].r = 0
             /\ call'[t].end = [call[t].end EXCEPT ![s] = h]
             /\ open' = open \cup ({h} \cap {File(t, s)})
  BY <1>1, <1>3 DEF Redirected, history, Kept, TypeOK, CallsTyped, CallType
<1>4. CASE /\ options[t][s] = "stdout"
           /\ Redirected(t, s, After[s], call[t].end["out"]) /\ UNCHANGED proc
  <2>1. PICK h : h = call[t].end["out"]
    OBVIOUS
  <2>2. Redirected(t, s, After[s], h)
    BY <1>4, <2>1
  <2>3. QED
    BY <1>1, <1>3, <1>4, <2>1, <2>2
<1>5. CASE /\ options[t][s] = "parent" /\ options[t].std
           /\ Redirected(t, s, After[s], Std(s)) /\ UNCHANGED proc
  <2>1. EndMade(t, s) = Std(s)
    BY <1>1, <1>5 DEF EndMade
  <2>2. QED
    BY <1>1, <1>3, <1>5, <2>1
<1>6. CASE /\ options[t][s] \notin {"pipe", "stdout"}
           /\ ~(options[t][s] = "parent" /\ options[t].std)
           /\ Redirected(t, s, After[s], File(t, s)) /\ UNCHANGED proc
  <2>1. EndMade(t, s) = File(t, s)
    BY <1>1, <1>6 DEF EndMade
  <2>2. QED
    BY <1>1, <1>3, <1>6, <2>1
<1>7. CASE Failed(t, s, "finish") /\ UNCHANGED <<open, proc>>
  <2>1. s # "race"
    BY DEF Streams
  <2>2. QED
    BY <1>1, <1>7, <2>1, FailsFlow
<1>8. QED
  BY <1>2, <1>4, <1>5, <1>6, <1>7, RedirectEffect

\* The statements of reproc_start that only go on or fail.
LEMMA PlainFlow ==
    ASSUME TypeOK, NEW t \in Threads,
           \/ InitWinsock(t) \/ ParseOptions(t) \/ SetupInput(t) \/ EnterProcessStart(t)
           \/ InitOnce(t) \/ PublishOnce(t) \/ SpinOnce(t) \/ MakeStrings(t)
           \/ SetupAttributeList(t) \/ CreateProcess(t) \/ Cleanup(t)
    PROVE  /\ Kept(t) /\ call'[t].end = call[t].end
           /\ call[t].pc \in Starting \ {"inherit", "clear"}
           /\ call'[t].pc \in (Starting \ {"init", "create"}) \cup {"failed"}
           /\ call'[t].pc = "restore" => call[t].pc = "create"
<1>1. CASE InitWinsock(t) \/ ParseOptions(t) \/ SetupInput(t)
  BY <1>1, FailsFlow, FailedFlow, GotoFlow
     DEF InitWinsock, ParseOptions, SetupInput, Starting, Redirecting, ERROR_INVALID_PARAMETER
<1>2. CASE EnterProcessStart(t)
  <2>1. call[t].pc = "once"
    BY <1>2 DEF EnterProcessStart
  <2>2. \/ FailedWith(t, "once", ERROR_CALL_NOT_IMPLEMENTED, "finish")
        \/ FailedWith(t, "once", ERROR_NOT_ENOUGH_SERVER_MEMORY, "finish")
        \/ Goto(t, "initialize", 0) \/ Goto(t, "spin", 0)
    BY <1>2 DEF EnterProcessStart
  <2>3. QED
    BY <2>1, <2>2, FailedFlow, GotoFlow
       DEF Starting, Redirecting, Spawning, ERROR_CALL_NOT_IMPLEMENTED,
           ERROR_NOT_ENOUGH_SERVER_MEMORY
<1>3. CASE InitOnce(t) \/ PublishOnce(t) \/ SpinOnce(t)
  BY <1>3, GotoFlow DEF InitOnce, PublishOnce, SpinOnce, Starting, Spawning
<1>4. CASE MakeStrings(t)
  <2>1. call[t].pc \in {"strings", "env"}
    BY <1>4 DEF MakeStrings
  <2>2. \/ Failed(t, "strings", "clear") \/ Failed(t, "env", "clear")
        \/ FailedWith(t, "env", 0, "clear") \/ Goto(t, "env", 0) \/ Goto(t, "inherit", 0)
    BY <1>4 DEF MakeStrings
  <2>3. QED
    BY <2>1, <2>2, FailsFlow, FailedFlow, GotoFlow DEF Starting, Spawning, Undoing
<1>5. CASE SetupAttributeList(t)
  BY <1>5, FailsFlow, FailedFlow, GotoFlow DEF SetupAttributeList, Starting, Spawning, Undoing
<1>6. CASE CreateProcess(t)
  BY <1>6, FailsFlow, FailedFlow, GotoFlow
     DEF CreateProcess, Starting, Spawning, Undoing, ERROR_INVALID_PARAMETER
<1>7. CASE Cleanup(t)
  BY <1>7 DEF Cleanup, Goto, Kept, TypeOK, CallsTyped, CallType, Starting, Undoing
<1>8. QED
  BY <1>1, <1>2, <1>3, <1>4, <1>5, <1>6, <1>7

\* One round of a loop over the child's handles.
LEMMA RoundFlow ==
    ASSUME TypeOK, NEW t \in Threads, NEW at, NEW next, Round(t, at, next), PlaceOK(t),
           call[t].pc = at, at \in {"inherit", "clear"}
    PROVE  /\ call'[t].op = call[t].op /\ call'[t].r = call[t].r
           /\ call'[t].end = call[t].end /\ options' = options
           /\ \/ call[t].i = NumHandles(t) /\ call'[t].pc = next /\ call'[t].i = 1
              \/ /\ call[t].i # NumHandles(t) /\ call'[t].pc = at /\ call'[t].i = call[t].i + 1
                 /\ call'[t].i \in 1..NumHandles(t)
           /\ NumHandles(t)' = NumHandles(t)
<1>1. call[t].i \in 1..NumHandles(t) /\ NumHandles(t) \in {3, 4}
  BY IndexRange, ListedTypes
<1>2. CASE call[t].i = NumHandles(t)
  <2>1. call' = [call EXCEPT ![t].i = 1, ![t].pc = next] /\ options' = options
    BY <1>2 DEF Round
  <2>2. call'[t].end = call[t].end /\ call'[t].pc = next /\ call'[t].i = 1
        /\ call'[t].op = call[t].op /\ call'[t].r = call[t].r
    BY <2>1 DEF TypeOK, CallsTyped, CallType
  <2>3. QED
    BY <1>2, <2>1, <2>2 DEF NumHandles
<1>3. CASE call[t].i # NumHandles(t)
  <2>1. call' = [call EXCEPT ![t].i = @ + 1] /\ options' = options
    BY <1>3 DEF Round
  <2>2. call'[t].end = call[t].end /\ call'[t].pc = at /\ call'[t].i = call[t].i + 1
        /\ call'[t].op = call[t].op /\ call'[t].r = call[t].r
    BY <2>1 DEF TypeOK, CallsTyped, CallType
  <2>3. QED
    BY <1>1, <1>3, <2>1, <2>2 DEF NumHandles
<1>4. QED
  BY <1>2, <1>3

LEMMA StartMoves ==
    ASSUME NEW t, Start(t)
    PROVE  \/ \/ InitWinsock(t) \/ ParseOptions(t) \/ SetupInput(t) \/ EnterProcessStart(t)
              \/ InitOnce(t) \/ PublishOnce(t) \/ SpinOnce(t) \/ MakeStrings(t)
              \/ SetupAttributeList(t) \/ CreateProcess(t) \/ Cleanup(t)
           \/ \E s \in Streams : Redirect(t, s)
           \/ InitExitPipe(t)
           \/ SetInherit(t) \/ SetErrorMode(t) \/ RestoreErrorMode(t) \/ ClearInherit(t)
           \/ Finish(t)
  BY DEF Start

LEMMA StartKeepsPlace ==
    ASSUME TypeOK, NEW t \in Threads, PlaceOK(t), Start(t)
    PROVE  PlaceOK(t)'
<1>1. ASSUME call[t].pc \in Starting \ {"inherit", "clear"},
             call'[t].pc \in Starting \cup {"failed"}, Kept(t),
             call'[t].pc = "create" => call[t].pc = "create",
             call'[t].pc = "restore" => call[t].pc = "create"
      PROVE  PlaceOK(t)'
  BY <1>1, StartPlace DEF PlaceOK, Kept
<1>2. CASE \/ InitWinsock(t) \/ ParseOptions(t) \/ SetupInput(t) \/ EnterProcessStart(t)
           \/ InitOnce(t) \/ PublishOnce(t) \/ SpinOnce(t) \/ MakeStrings(t)
           \/ SetupAttributeList(t) \/ CreateProcess(t) \/ Cleanup(t)
  BY <1>1, <1>2, PlainFlow
<1>3. CASE \E s \in Streams : Redirect(t, s)
  <2>1. PICK s \in Streams : Redirect(t, s)
    BY <1>3
  <2>2. Kept(t) /\ call[t].pc = s /\ call'[t].pc \in {"finish", After[s]}
    BY <2>1, RedirectFlow
  <2>3. s \in Redirecting /\ After[s] \in Redirecting
    BY AfterTypes DEF Streams, Redirecting
  <2>4. QED
    BY <1>1, <2>2, <2>3 DEF Starting, Redirecting
<1>4. CASE InitExitPipe(t)
  <2>1. "exit" \in Roles /\ MakePipe(t, "exit", "input") /\ call[t].pc = "exit"
    BY <1>4 DEF InitExitPipe, Roles
  <2>2. Kept(t) /\ call'[t].pc \in {"finish", "input"}
    BY <2>1, MakePipeFlow
  <2>3. QED
    BY <1>1, <2>1, <2>2 DEF Starting, Redirecting
<1>5. ASSUME NEW next \in {"attributes", "cleanup"}, NEW at \in {"inherit", "clear"},
             Round(t, at, next), call[t].pc = at
      PROVE  PlaceOK(t)'
  <2>1. /\ call'[t].op = call[t].op /\ options' = options
        /\ \/ call'[t].pc = next /\ call'[t].i = 1
           \/ call'[t].pc = at /\ call'[t].i <= NumHandles(t)'
    BY <1>5, RoundFlow, ListedTypes
  <2>2. call[t].pc \in Starting /\ {next, at} \subseteq Starting /\ at \notin {"create", "restore"}
        /\ next \notin {"create", "restore", "inherit", "clear"}
    BY <1>5 DEF Starting, Spawning, Undoing
  <2>3. call[t].op = "start" /\ options[t] \in Configs[t]
    BY <2>2 DEF PlaceOK
  <2>4. call'[t].pc \in Starting /\ call'[t].pc \notin Waiting
        /\ call'[t].pc \notin {"stop", "release", "freed", "signal", "create", "restore"}
    BY <2>1, <2>2 DEF Starting, Waiting, Redirecting, Spawning, Undoing
  <2>5. QED
    BY <2>1, <2>2, <2>3, <2>4 DEF PlaceOK
<1>6. CASE SetInherit(t)
  <2>1. CASE Round(t, "inherit", "attributes")
    BY <1>5, <1>6, <2>1 DEF SetInherit
  <2>2. CASE \E e \in Errnos : call' = [call EXCEPT ![t].pc = "clear", ![t].r = -e, ![t].i = 1]
                               /\ UNCHANGED options
    <3>1. call'[t].pc = "clear" /\ call'[t].op = call[t].op /\ call'[t].i = 1
          /\ options' = options /\ call[t].pc = "inherit"
      <4>1. PICK r : call' = [call EXCEPT ![t].pc = "clear", ![t].r = r, ![t].i = 1]
        BY <2>2
      <4>2. call'[t].pc = "clear" /\ call'[t].op = call[t].op /\ call'[t].i = 1
        BY <4>1 DEF TypeOK, CallsTyped, CallType
      <4>3. QED
        BY <1>6, <2>2, <4>2 DEF SetInherit
    <3>2. QED
      BY <3>1, StartPlace DEF Starting, Spawning, Undoing
  <2>3. QED
    BY <1>6, <2>1, <2>2 DEF SetInherit
<1>7. CASE ClearInherit(t)
  BY <1>5, <1>7 DEF ClearInherit
<1>8. CASE SetErrorMode(t) \/ RestoreErrorMode(t)
  <2>1. call'[t].pc \in {"create", "clear"} /\ call'[t].op = call[t].op /\ call'[t].i = call[t].i
        /\ options' = options /\ call[t].pc \in {"mode", "restore"}
        /\ (call'[t].pc = "create" => call'[t].previous = errorMode)
    BY <1>8 DEF SetErrorMode, RestoreErrorMode, TypeOK, CallsTyped, CallType
  <2>2. call'[t].i = 1 /\ call[t].pc \in Starting
    BY <2>1 DEF PlaceOK, Starting, Spawning, Undoing
  <2>3. QED
    BY <2>1, <2>2, StartPlace DEF TypeOK, Starting, Spawning, Undoing
<1>9. CASE Finish(t)
  <2>1. call'[t].pc \in {"failed", "idle"} /\ call'[t].op = call[t].op /\ options' = options
        /\ call[t].pc = "finish"
    BY <1>9 DEF Finish, TypeOK, CallsTyped, CallType
  <2>2. "failed" \notin Starting /\ "idle" \notin Starting /\ "finish" \in Starting
    BY DEF Starting, Redirecting, Spawning, Undoing
  <2>3. QED
    BY <2>1, <2>2, StartPlace
<1>10. QED
  BY <1>2, <1>3, <1>4, <1>6, <1>7, <1>8, <1>9, StartMoves

LEMMA CallingKeepsPlace ==
    ASSUME TypeOK, NEW t \in Threads, PlaceOK(t),
           \/ Stop(t) \/ Signal(t) \/ Poll(t) \/ ProcessWait(t) \/ Release(t) \/ Begin(t)
    PROVE  PlaceOK(t)'
<1>1. options' = options
  BY DEF Stop, Signal, Poll, ProcessWait, Release, Begin, CallWait, CallDestroy, CallSignal
<1>2. ASSUME call'[t].pc \in {"stop", "release", "freed"} => call'[t].op = "destroy",
             call'[t].pc \in Waiting => call'[t].op \in {"wait", "destroy"},
             call'[t].pc = "signal" => call'[t].op \in {"terminate", "kill", "destroy"},
             call'[t].pc \in InCall \cup {"idle", "release", "freed"}
      PROVE  PlaceOK(t)'
  BY <1>1, <1>2 DEF PlaceOK, Starting, Redirecting, Spawning, Undoing, InCall, Waiting
<1>3. CASE Stop(t)
  <2>1. call[t].op = "destroy"
    BY <1>3 DEF Stop, PlaceOK
  <2>2. call'[t].op = "destroy" /\ call'[t].pc \in {"release", "poll", "signal"}
    BY <1>3, <2>1 DEF Stop, TypeOK, CallsTyped, CallType
  <2>3. QED
    BY <1>2, <2>2 DEF InCall, Waiting
<1>4. ASSUME NEW r, AfterWait(t, r), call[t].pc \in Waiting
      PROVE  PlaceOK(t)'
  <2>1. call[t].op \in {"wait", "destroy"}
    BY <1>4 DEF PlaceOK
  <2>2. call'[t].op = call[t].op /\ call'[t].pc \in {"idle", "stop", "release"}
        /\ (call'[t].pc # "idle" => call[t].op # "wait")
    BY <1>4 DEF AfterWait, TypeOK, CallsTyped, CallType
  <2>3. QED
    BY <1>2, <2>1, <2>2 DEF InCall, Waiting
<1>5. CASE Poll(t)
  <2>1. CASE AfterWait(t, REPROC_ETIMEDOUT)
    BY <1>4, <1>5, <2>1 DEF Poll, Waiting
  <2>2. CASE call' = [call EXCEPT ![t].pc = "object"]
    <3>1. call'[t].pc = "object" /\ call'[t].op = call[t].op /\ call[t].op \in {"wait", "destroy"}
      BY <1>5, <2>2 DEF Poll, PlaceOK, Waiting, TypeOK, CallsTyped, CallType
    <3>2. QED
      BY <1>2, <3>1 DEF InCall, Waiting
  <2>3. QED
    BY <1>5, <2>1, <2>2 DEF Poll
<1>6. CASE ProcessWait(t)
  BY <1>4, <1>6 DEF ProcessWait, Waited, Waiting
<1>7. ASSUME NEW r, AfterSignal(t, r), call[t].pc = "signal"
      PROVE  PlaceOK(t)'
  <2>1. call'[t].op = call[t].op /\ call'[t].pc \in {"idle", "release", "poll"}
        /\ (call'[t].pc # "idle" => call[t].op = "destroy")
    BY <1>7 DEF AfterSignal, TypeOK, CallsTyped, CallType
  <2>2. QED
    BY <1>2, <2>1 DEF InCall, Waiting
<1>8. CASE Signal(t)
  BY <1>7, <1>8 DEF Signal, Terminate
<1>9. CASE Release(t)
  <2>1. call[t].op = "destroy" /\ call'[t].op = call[t].op /\ call'[t].pc = "freed"
    BY <1>9 DEF Release, PlaceOK, TypeOK, CallsTyped, CallType
  <2>2. QED
    BY <1>2, <2>1 DEF InCall, Waiting
<1>10. CASE CallWait(t)
  <2>1. call'[t].op = "wait" /\ call'[t].pc \in {"idle", "poll"}
    BY <1>10 DEF CallWait, TypeOK, CallsTyped, CallType
  <2>2. QED
    BY <1>2, <2>1 DEF InCall, Waiting
<1>11. CASE \E op \in {"terminate", "kill"} : CallSignal(t, op)
  <2>1. call'[t].op \in {"terminate", "kill"} /\ call'[t].pc \in {"idle", "signal"}
    BY <1>11 DEF CallSignal, TypeOK, CallsTyped, CallType
  <2>2. QED
    BY <1>2, <2>1 DEF InCall, Waiting
<1>12. CASE CallDestroy(t)
  <2>1. call'[t].op = "destroy" /\ call'[t].pc \in {"stop", "release"}
    BY <1>12 DEF CallDestroy, TypeOK, CallsTyped, CallType
  <2>2. QED
    BY <1>2, <2>1 DEF InCall, Waiting
<1>13. QED
  BY <1>3, <1>5, <1>6, <1>8, <1>9, <1>10, <1>11, <1>12 DEF Begin

Typed == TypeOK /\ \A t \in Threads : PlaceOK(t)

LEMMA TypedNext == Typed /\ [Next]_vars => Typed'
<1> SUFFICES ASSUME Typed, [Next]_vars PROVE Typed'
  OBVIOUS
<1>1. CASE UNCHANGED vars
  <2>1. UNCHANGED <<once, ready, errorMode, inherit, open, winsock, options, call, proc, child,
                    fault, overlap>>
    BY <1>1 DEF vars, shared, history
  <2>2. TypeOK'
    BY <2>1 DEF Typed, TypeOK, CallsTyped
  <2>3. ASSUME NEW t \in Threads PROVE PlaceOK(t)'
    BY <2>1 DEF Typed, PlaceOK, NumHandles
  <2>4. QED
    BY <2>2, <2>3 DEF Typed
<1>2. CASE Next
  <2>1. PICK t \in Threads : Moves(t)
    BY <1>2, NextMoves
  <2>2. TypeOK /\ PlaceOK(t)
    BY DEF Typed
  <2>3. TypeOK'
    BY <2>1, <2>2, MovesTypes
  <2>4. ASSUME NEW u \in Threads PROVE PlaceOK(u)'
    <3>1. CASE u # t
      <4>1. Untouched(u) /\ PlaceOK(u)
        BY <2>1, <3>1, OthersUntouched DEF Typed
      <4>2. QED
        BY <4>1 DEF Untouched, PlaceOK, NumHandles
    <3>2. CASE u = t /\ Start(t)
      BY <2>2, <3>2, StartKeepsPlace
    <3>3. CASE u = t /\ Child(t)
      <4>1. UNCHANGED <<call, options>>
        BY <3>3 DEF Child, ChildExits, ChildSignalled, ChildClosesExit
      <4>2. QED
        BY <2>2, <3>3, <4>1 DEF PlaceOK, NumHandles
    <3>4. CASE u = t /\ ~Start(t) /\ ~Child(t)
      BY <2>1, <2>2, <3>4, CallingKeepsPlace DEF Moves, Step
    <3>5. QED
      BY <3>1, <3>2, <3>3, <3>4
  <2>5. QED
    BY <2>3, <2>4 DEF Typed
<1>3. QED
  BY <1>1, <1>2

\* Everything keeps its type, and no statement runs in a call it is not part of.
THEOREM WindowsTypes == Spec => []Typed
<1>1. Init => Typed
  BY InitTypes DEF Typed
<1>2. QED
  BY <1>1, TypedNext, PTL DEF Spec

-----------------------------------------------------------------------------
(* Where the statements of each part of the code lead, and what they leave alone. *)

RedirectingStep(t) ==
    InitWinsock(t) \/ ParseOptions(t) \/ (\E s \in Streams : Redirect(t, s))
        \/ InitExitPipe(t) \/ SetupInput(t)
SpawningStep(t) ==
    EnterProcessStart(t) \/ InitOnce(t) \/ PublishOnce(t) \/ SpinOnce(t) \/ MakeStrings(t)
        \/ SetInherit(t) \/ SetupAttributeList(t) \/ SetErrorMode(t) \/ CreateProcess(t)
UndoingStep(t) == RestoreErrorMode(t) \/ ClearInherit(t) \/ Cleanup(t) \/ Finish(t)
CallStep(t) == Stop(t) \/ Signal(t) \/ Poll(t) \/ ProcessWait(t) \/ Release(t) \/ Begin(t)

LEMMA MoveKinds ==
    ASSUME NEW t, Moves(t)
    PROVE  RedirectingStep(t) \/ SpawningStep(t) \/ UndoingStep(t) \/ CallStep(t) \/ Child(t)
  BY DEF Moves, Step, Start, RedirectingStep, SpawningStep, UndoingStep, CallStep

LEMMA RedirectingMoves ==
    ASSUME TypeOK, NEW t \in Threads, RedirectingStep(t)
    PROVE  /\ call[t].pc \in Redirecting \ {"once"}
           /\ call'[t].pc \in (Redirecting \ {"init"}) \cup {"finish", "failed"}
           /\ call'[t].pc = "failed" => call[t].pc = "init"
           /\ UNCHANGED <<once, ready, errorMode, inherit, child, overlap>>
           /\ proc'[t].status = proc[t].status /\ proc'[t].process = proc[t].process
           /\ proc'[t].kept = proc[t].kept
           /\ \/ /\ call'[t].pc \in {"finish", "failed"} /\ call'[t].r < 0
                 /\ call'[t].r = -fault'[t].errno /\ fault'[t].step # "race"
                 /\ open' = open /\ proc' = proc
              \/ call'[t].pc \notin {"finish", "failed"} /\ call'[t].r = 0 /\ fault'[t] = fault[t]
           /\ Kept(t)
<1>1. CASE InitWinsock(t)
  <2>1. CASE Failed(t, "init", "failed")
    BY <1>1, <2>1, FailsFlow DEF InitWinsock, Redirecting
  <2>2. CASE Goto(t, "options", 0) /\ UNCHANGED history
    BY <1>1, <2>2, GotoFlow DEF InitWinsock, Redirecting, history
  <2>3. QED
    BY <1>1, <2>1, <2>2 DEF InitWinsock
<1>2. CASE ParseOptions(t)
  <2>1. ERROR_INVALID_PARAMETER \in Nat /\ -ERROR_INVALID_PARAMETER < 0
    BY DEF ERROR_INVALID_PARAMETER
  <2>2. CASE FailedWith(t, "options", ERROR_INVALID_PARAMETER, "finish")
    BY <1>2, <2>1, <2>2, FailedFlow DEF ParseOptions, Redirecting, shared
  <2>3. CASE Goto(t, "in", 0) /\ UNCHANGED history
    BY <1>2, <2>3, GotoFlow DEF ParseOptions, Redirecting, shared, history
  <2>4. QED
    BY <1>2, <2>2, <2>3 DEF ParseOptions
<1>3. CASE \E s \in Streams : Redirect(t, s)
  <2>1. PICK s \in Streams : Redirect(t, s)
    BY <1>3
  <2>2. s \in Redirecting \ {"once"} /\ After[s] \in Redirecting \ {"init"} /\ s # "exit"
    BY AfterTypes DEF Streams, Redirecting
  <2>3. UNCHANGED <<once, ready, errorMode, inherit, child>>
    BY <2>1 DEF Redirect
  <2>4. QED
    BY <2>1, <2>2, <2>3, RedirectFlow DEF Redirecting
<1>4. CASE InitExitPipe(t)
  <2>1. "exit" \in Roles /\ MakePipe(t, "exit", "input") /\ call[t].pc = "exit"
        /\ UNCHANGED <<once, ready, errorMode, inherit, child>>
    BY <1>4 DEF InitExitPipe, Roles
  <2>2. PICK p, next : p \in Roles /\ p = "exit" /\ next = "input" /\ MakePipe(t, p, next)
    BY <2>1
  <2>3. /\ Kept(t) /\ overlap' = overlap
        /\ proc'[t].status = proc[t].status /\ proc'[t].process = proc[t].process
        /\ proc'[t].kept = proc[t].kept
        /\ \/ /\ call'[t].pc = "finish" /\ call'[t].r < 0
              /\ call'[t].r = -fault'[t].errno /\ fault'[t].step # "race"
              /\ open' = open /\ proc' = proc
           \/ call'[t].pc = next /\ call'[t].r = 0 /\ fault'[t] = fault[t]
    <3>1. MakePipe(t, p, next)
      BY <2>2
    <3>2.  /\ Kept(t) /\ overlap' = overlap
           /\ proc'[t].status = proc[t].status /\ proc'[t].process = proc[t].process
           /\ proc'[t].kept = proc[t].kept
           /\ \/ /\ call'[t].pc = "finish" /\ call'[t].r < 0 /\ call'[t].end = call[t].end
                 /\ call'[t].r = -fault'[t].errno /\ fault'[t].step # "race"
                 /\ UNCHANGED <<open, proc>>
              \/ /\ call'[t].pc = next /\ call'[t].r = 0 /\ fault'[t] = fault[t]
                 /\ call'[t].end = [call[t].end EXCEPT ![p] = Theirs(t, p)]
                 /\ proc'[t].pipe = proc[t].pipe \cup {p}
                 /\ open' = open \cup {Ours(t, p), Theirs(t, p)}
      BY <2>2, <3>1, MakePipeFlow
    <3>3. QED
      BY <3>2
  <2>4. QED
    BY <2>1, <2>2, <2>3 DEF Redirecting
<1>5. CASE SetupInput(t)
  <2>1. CASE Failed(t, "input", "finish") /\ UNCHANGED <<open, proc>>
    BY <1>5, <2>1, FailsFlow DEF SetupInput, Redirecting
  <2>2. CASE Goto(t, "once", 0) /\ UNCHANGED history
    <3>1. proc'[t].status = proc[t].status /\ proc'[t].process = proc[t].process
          /\ proc'[t].kept = proc[t].kept
      BY <1>5 DEF SetupInput, TypeOK, ProcType
    <3>2. QED
      BY <1>5, <2>2, <3>1, GotoFlow DEF SetupInput, Redirecting, history
  <2>3. QED
    BY <1>5, <2>1, <2>2 DEF SetupInput
<1>6. QED
  BY <1>1, <1>2, <1>3, <1>4, <1>5 DEF RedirectingStep

LEMMA ExitingEffect ==
    ASSUME TypeOK, NEW t \in Threads, NEW code, Exiting(t, code)
    PROVE  child'[t].state = "exiting" /\ child'[t].code = code /\ child'[t].mode = child[t].mode
  BY DEF Exiting, TypeOK, ChildType

LEMMA TerminateProcessEffect ==
    ASSUME TypeOK, NEW t \in Threads, TerminateProcess(t)
    PROVE  /\ child[t].state # "running" => child' = child
           /\ child[t].state = "running" =>
                /\ child'[t].state = "exiting" /\ child'[t].code = REPROC_SIGKILL
                /\ Terminated(t) = 0
           /\ child'[t].mode = child[t].mode
<1>1. CASE child[t].state = "running"
  <2>1. Exiting(t, REPROC_SIGKILL) /\ Terminated(t) = 0
    BY <1>1 DEF TerminateProcess, Terminated
  <2>2. QED
    BY <1>1, <2>1, ExitingEffect
<1>2. CASE child[t].state # "running"
  BY <1>2 DEF TerminateProcess
<1>3. QED
  BY <1>1, <1>2

LEMMA CallMoves ==
    ASSUME TypeOK, NEW t \in Threads, CallStep(t)
    PROVE  /\ call[t].pc \in InCall \cup {"failed", "idle", "release"}
           /\ call'[t].pc \in InCall \cup {"idle", "release", "freed"}
           /\ call'[t].end = call[t].end
           /\ UNCHANGED <<once, ready, errorMode, inherit, options, history>>
           /\ child[t].state # "running" =>
                child'[t].state = child[t].state /\ child'[t].code = child[t].code
           /\ child'[t].mode = child[t].mode
<1>1. UNCHANGED <<once, ready, errorMode, inherit, options, history>>
  BY DEF CallStep, Stop, Signal, Poll, ProcessWait, Release, Begin, CallWait, CallDestroy,
     CallSignal, shared
<1>2. CASE Stop(t)
  BY <1>1, <1>2 DEF Stop, TypeOK, CallsTyped, CallType, InCall, Waiting
<1>3. ASSUME NEW r, AfterWait(t, r)
      PROVE  call'[t].pc \in {"idle", "stop", "release"} /\ call'[t].end = call[t].end
  BY <1>3 DEF AfterWait, TypeOK, CallsTyped, CallType
<1>4. CASE Poll(t)
  <2>1. CASE AfterWait(t, REPROC_ETIMEDOUT)
    BY <1>1, <1>3, <1>4, <2>1 DEF Poll, InCall, Waiting
  <2>2. CASE call' = [call EXCEPT ![t].pc = "object"]
    BY <1>1, <1>4, <2>2 DEF Poll, InCall, Waiting, TypeOK, CallsTyped, CallType
  <2>3. QED
    BY <1>4, <2>1, <2>2 DEF Poll
<1>5. CASE ProcessWait(t)
  <2>1. \E r : AfterWait(t, r)
    BY <1>5 DEF ProcessWait, Waited
  <2>2. /\ child[t].state # "running" => child' = child
        /\ child'[t].mode = child[t].mode
    BY <1>5, TerminateProcessEffect DEF ProcessWait
  <2>3. call[t].pc = "object"
    BY <1>5 DEF ProcessWait
  <2>4. QED
    BY <1>1, <1>3, <2>1, <2>2, <2>3 DEF InCall, Waiting
<1>6. ASSUME NEW r, AfterSignal(t, r)
      PROVE  call'[t].pc \in {"idle", "poll", "release"} /\ call'[t].end = call[t].end
  BY <1>6 DEF AfterSignal, TypeOK, CallsTyped, CallType
<1>7. CASE Signal(t)
  <2>1. \E r : AfterSignal(t, r)
    BY <1>7 DEF Signal, Terminate
  <2>2. call[t].pc = "signal"
    BY <1>7 DEF Signal
  <2>3. /\ child[t].state # "running" =>
             child'[t].state = child[t].state /\ child'[t].code = child[t].code
        /\ child'[t].mode = child[t].mode
    <3>1. CASE TerminateProcess(t)
      BY <3>1, TerminateProcessEffect
    <3>2. CASE child' = [child EXCEPT ![t].ctrl = (child[t].state = "running")]
      BY <3>2 DEF TypeOK, ChildType
    <3>3. QED
      BY <1>7, <3>1, <3>2 DEF Signal, Terminate
  <2>4. QED
    BY <1>1, <1>6, <2>1, <2>2, <2>3 DEF InCall, Waiting
<1>8. CASE Release(t)
  BY <1>1, <1>8 DEF Release, TypeOK, CallsTyped, CallType, InCall, Waiting
<1>9. CASE Begin(t)
  <2>1. child' = child /\ call[t].pc \in {"failed", "idle"}
    BY <1>9 DEF Begin, CallWait, CallDestroy, CallSignal
  <2>2. CASE CallWait(t)
    BY <1>1, <2>1, <2>2 DEF CallWait, TypeOK, CallsTyped, CallType, InCall, Waiting
  <2>3. CASE CallDestroy(t)
    BY <1>1, <2>1, <2>3 DEF CallDestroy, TypeOK, CallsTyped, CallType, InCall, Waiting
  <2>4. CASE \E op \in {"terminate", "kill"} : CallSignal(t, op)
    BY <1>1, <2>1, <2>4 DEF CallSignal, TypeOK, CallsTyped, CallType, InCall, Waiting
  <2>5. QED
    BY <1>9, <2>2, <2>3, <2>4 DEF Begin
<1>10. QED
  BY <1>2, <1>4, <1>5, <1>7, <1>8, <1>9 DEF CallStep

LEMMA ChildMoves ==
    ASSUME TypeOK, NEW t \in Threads, Child(t)
    PROVE  /\ UNCHANGED <<shared, options, call, proc, history>>
           /\ child[t].state \in {"running", "exiting"}
           /\ child'[t].state # "none" /\ child'[t].mode = child[t].mode
           /\ child'[t].state = "running" => child[t].state = "running"
           /\ child[t].state = "exiting" =>
                child'[t].state = "ended" /\ child'[t].code = child[t].code
<1>1. UNCHANGED <<shared, options, call, proc, history>>
  BY DEF Child, ChildExits, ChildSignalled, ChildClosesExit
<1>2. CASE ChildExits(t)
  <2>1. child[t].state = "running" /\ \E code : Exiting(t, code)
    BY <1>2 DEF ChildExits
  <2>2. QED
    BY <1>1, <2>1, ExitingEffect
<1>3. CASE ChildSignalled(t)
  BY <1>1, <1>3 DEF ChildSignalled, TypeOK, ChildType
<1>4. CASE ChildClosesExit(t)
  BY <1>1, <1>4 DEF ChildClosesExit, TypeOK, ChildType
<1>5. QED
  BY <1>2, <1>3, <1>4 DEF Child

LEMMA UndoingMoves ==
    ASSUME TypeOK, NEW t \in Threads, PlaceOK(t), UndoingStep(t)
    PROVE  /\ call[t].pc \in Undoing \cup {"finish"}
           /\ call'[t].pc \in {"clear", "cleanup", "finish", "failed", "idle"}
           /\ call[t].pc = "finish" <=> call'[t].pc \in {"failed", "idle"}
           /\ UNCHANGED <<once, ready, child, options, history>>
<1>1. CASE RestoreErrorMode(t)
  BY <1>1 DEF RestoreErrorMode, Undoing, TypeOK, CallsTyped, CallType
<1>2. CASE ClearInherit(t)
  <2>1. Round(t, "clear", "cleanup") /\ call[t].pc = "clear"
    BY <1>2 DEF ClearInherit
  <2>2. call'[t].pc \in {"clear", "cleanup"}
    BY <2>1, RoundFlow
  <2>3. QED
    BY <1>2, <2>1, <2>2 DEF ClearInherit, Round, Undoing
<1>3. CASE Cleanup(t)
  BY <1>3 DEF Cleanup, Goto, Undoing, TypeOK, CallsTyped, CallType
<1>4. CASE Finish(t)
  BY <1>4 DEF Finish, TypeOK, CallsTyped, CallType, Undoing
<1>5. QED
  BY <1>1, <1>2, <1>3, <1>4 DEF UndoingStep

\* The steps of process_start, one by one.
LEMMA SpawningMoves ==
    ASSUME TypeOK, NEW t \in Threads, PlaceOK(t), SpawningStep(t)
    PROVE  /\ call[t].pc \in Spawning \cup {"once"}
           /\ call'[t].pc \in Spawning \cup {"clear", "restore", "finish"}
           /\ call'[t].pc = "finish" => call[t].pc = "once"
           /\ call'[t].pc = "restore" <=> call[t].pc = "create"
           /\ call'[t].end = call[t].end /\ options' = options
<1>1. CASE \/ EnterProcessStart(t) \/ InitOnce(t) \/ PublishOnce(t) \/ SpinOnce(t)
           \/ MakeStrings(t) \/ SetupAttributeList(t) \/ CreateProcess(t)
  <2>1. Kept(t) /\ call'[t].end = call[t].end
    BY <1>1, PlainFlow
  <2>2. CASE EnterProcessStart(t)
    <3>1. call[t].pc = "once"
      BY <2>2 DEF EnterProcessStart
    <3>2. \/ FailedWith(t, "once", ERROR_CALL_NOT_IMPLEMENTED, "finish")
          \/ FailedWith(t, "once", ERROR_NOT_ENOUGH_SERVER_MEMORY, "finish")
          \/ Goto(t, "initialize", 0) \/ Goto(t, "spin", 0)
      BY <2>2 DEF EnterProcessStart
    <3>3. call'[t].pc \in {"finish", "initialize", "spin"}
      BY <3>2, FailedFlow, GotoFlow DEF ERROR_CALL_NOT_IMPLEMENTED,
           ERROR_NOT_ENOUGH_SERVER_MEMORY
    <3>4. QED
      BY <2>1, <3>1, <3>3 DEF Spawning, Kept
  <2>3. CASE InitOnce(t) \/ PublishOnce(t) \/ SpinOnce(t)
    BY <2>1, <2>3, GotoFlow DEF InitOnce, PublishOnce, SpinOnce, Spawning, Kept
  <2>4. CASE MakeStrings(t)
    <3>1. call[t].pc \in {"strings", "env"}
      BY <2>4 DEF MakeStrings
    <3>2. \/ Failed(t, "strings", "clear") \/ Failed(t, "env", "clear")
          \/ FailedWith(t, "env", 0, "clear") \/ Goto(t, "env", 0) \/ Goto(t, "inherit", 0)
      BY <2>4 DEF MakeStrings
    <3>3. call'[t].pc \in {"clear", "env", "inherit"}
      BY <3>2, FailsFlow, FailedFlow, GotoFlow
    <3>4. QED
      BY <2>1, <3>1, <3>3 DEF Spawning, Kept
  <2>5. CASE SetupAttributeList(t)
    <3>1. call'[t].pc \in {"clear", "mode"} /\ call[t].pc = "attributes"
      BY <2>5, FailsFlow, FailedFlow, GotoFlow DEF SetupAttributeList
    <3>2. QED
      BY <2>1, <3>1 DEF Spawning, Kept
  <2>6. CASE CreateProcess(t)
    <3>1. call'[t].pc = "restore" /\ call[t].pc = "create"
      BY <2>6, FailsFlow, FailedFlow, GotoFlow DEF CreateProcess, ERROR_INVALID_PARAMETER
    <3>2. QED
      BY <2>1, <3>1 DEF Spawning, Kept
  <2>7. QED
    BY <1>1, <2>2, <2>3, <2>4, <2>5, <2>6
<1>2. CASE SetInherit(t)
  <2>1. call[t].pc = "inherit"
    BY <1>2 DEF SetInherit
  <2>2. CASE Round(t, "inherit", "attributes")
    <3>1. call'[t].pc \in {"inherit", "attributes"} /\ call'[t].end = call[t].end
          /\ options' = options
      BY <2>1, <2>2, RoundFlow
    <3>2. QED
      BY <2>1, <3>1 DEF Spawning
  <2>3. CASE \E r : call' = [call EXCEPT ![t].pc = "clear", ![t].r = r, ![t].i = 1]
                    /\ UNCHANGED options
    BY <2>1, <2>3 DEF Spawning, TypeOK, CallsTyped, CallType
  <2>4. QED
    BY <1>2, <2>2, <2>3 DEF SetInherit
<1>3. CASE SetErrorMode(t)
  BY <1>3 DEF SetErrorMode, Spawning, TypeOK, CallsTyped, CallType
<1>4. QED
  BY <1>1, <1>2, <1>3 DEF SpawningStep

-----------------------------------------------------------------------------
(* reproc_call_once. *)

\* The flag never goes back, and what init_once has looked up stays.
LEMMA OnceMonotone ==
    ASSUME TypeOK, NEW t \in Threads, PlaceOK(t), Moves(t)
    PROVE  (once # 0 => once' # 0) /\ (ready => ready')
<1>1. CASE RedirectingStep(t)
  BY <1>1, RedirectingMoves
<1>2. CASE CallStep(t)
  BY <1>2, CallMoves
<1>3. CASE UndoingStep(t)
  BY <1>3, UndoingMoves
<1>4. CASE Child(t)
  BY <1>4, ChildMoves DEF shared
<1>5. CASE SpawningStep(t)
  <2>1. once # 0 => once' # 0
    <3>1. CASE EnterProcessStart(t)
      BY <3>1 DEF EnterProcessStart
    <3>2. CASE PublishOnce(t)
      BY <3>2 DEF PublishOnce, OnceDone
    <3>3. CASE InitOnce(t) \/ SpinOnce(t) \/ MakeStrings(t) \/ SetInherit(t)
               \/ SetupAttributeList(t) \/ SetErrorMode(t) \/ CreateProcess(t)
      BY <3>3 DEF InitOnce, SpinOnce, MakeStrings, SetInherit, SetupAttributeList, SetErrorMode,
         CreateProcess, shared
    <3>4. QED
      BY <1>5, <3>1, <3>2, <3>3 DEF SpawningStep
  <2>2. ready' = ready \/ ready' = TRUE
    BY <1>5 DEF SpawningStep, EnterProcessStart, InitOnce, PublishOnce, SpinOnce,
       MakeStrings, SetInherit, SetupAttributeList, SetErrorMode, CreateProcess, shared
  <2>3. QED
    BY <2>1, <2>2
<1>6. QED
  BY <1>1, <1>2, <1>3, <1>4, <1>5, MoveKinds

LEMMA OnceStep ==
    ASSUME TypeOK, NEW t \in Threads, PlaceOK(t), OnceOK, Moves(t)
    PROVE  OnceAt(t)' /\ (once' = 2 => ready')
<1>1. (once # 0 => once' # 0) /\ (ready => ready')
  BY OnceMonotone
<1>2. OnceAt(t) /\ (once = 2 => ready)
  BY DEF OnceOK
<1>3. CASE RedirectingStep(t)
  <2>1. call'[t].pc \in Redirecting \cup {"finish", "failed"} /\ UNCHANGED <<once, ready>>
    BY <1>3, RedirectingMoves
  <2>2. QED
    BY <1>2, <2>1 DEF OnceAt, Redirecting
<1>4. CASE CallStep(t)
  <2>1. call'[t].pc \in InCall \cup {"idle", "release", "freed"} /\ UNCHANGED <<once, ready>>
    BY <1>4, CallMoves
  <2>2. QED
    BY <1>2, <2>1 DEF OnceAt, InCall, Waiting
<1>5. CASE UndoingStep(t)
  <2>1. call'[t].pc \in {"clear", "cleanup", "finish", "failed", "idle"} /\ UNCHANGED <<once, ready>>
    BY <1>5, UndoingMoves
  <2>2. QED
    BY <1>2, <2>1 DEF OnceAt
<1>6. CASE Child(t)
  BY <1>2, <1>6, ChildMoves DEF OnceAt, shared
<1>7. CASE EnterProcessStart(t)
  <2>1. CASE FailedWith(t, "once", ERROR_CALL_NOT_IMPLEMENTED, "finish") /\ UNCHANGED <<once, ready>>
    BY <1>2, <2>1, FailedFlow DEF OnceAt, ERROR_CALL_NOT_IMPLEMENTED
  <2>2. CASE FailedWith(t, "once", ERROR_NOT_ENOUGH_SERVER_MEMORY, "finish") /\ UNCHANGED <<once, ready>>
    BY <1>2, <2>2, FailedFlow DEF OnceAt, ERROR_NOT_ENOUGH_SERVER_MEMORY
  <2>3. CASE once = 0 /\ once' = 1 /\ Goto(t, "initialize", 0)
    BY <2>3, GotoFlow DEF OnceAt
  <2>4. CASE once # 0 /\ once' = once /\ Goto(t, "spin", 0)
    BY <1>1, <1>2, <2>4, GotoFlow DEF OnceAt
  <2>5. QED
    BY <1>7, <2>1, <2>2, <2>3, <2>4 DEF EnterProcessStart
<1>8. CASE InitOnce(t)
  <2>1. call'[t].pc = "published" /\ ready' /\ once' = once /\ call[t].pc = "initialize"
    BY <1>8, GotoFlow DEF InitOnce
  <2>2. QED
    BY <1>2, <2>1 DEF OnceAt
<1>9. CASE PublishOnce(t)
  <2>1. call'[t].pc = "strings" /\ ready' = ready /\ call[t].pc = "published" /\ once' # 0
    BY <1>9, GotoFlow DEF PublishOnce, OnceDone
  <2>2. QED
    BY <1>1, <1>2, <2>1 DEF OnceAt
<1>10. CASE SpinOnce(t)
  <2>1. call'[t].pc = "strings" /\ ready' = ready /\ once' = once /\ call[t].pc = "spin" /\ once # 1
    BY <1>10, GotoFlow DEF SpinOnce, OnceOver, shared
  <2>2. once = 2
    BY <1>2, <2>1 DEF OnceAt, TypeOK
  <2>3. QED
    BY <1>1, <1>2, <2>1, <2>2 DEF OnceAt
<1>11. CASE MakeStrings(t) \/ SetInherit(t) \/ SetupAttributeList(t)
  <2>1. call[t].pc \in {"strings", "env", "inherit", "attributes"} /\ UNCHANGED <<once, ready>>
    BY <1>11 DEF MakeStrings, SetInherit, SetupAttributeList, shared
  <2>2. ready
    BY <1>2, <2>1 DEF OnceAt
  <2>3. call'[t].pc \notin {"initialize", "published", "spin"}
    <3>1. CASE MakeStrings(t)
      <4>1. \/ Failed(t, "strings", "clear") \/ Failed(t, "env", "clear")
            \/ FailedWith(t, "env", 0, "clear") \/ Goto(t, "env", 0) \/ Goto(t, "inherit", 0)
        BY <3>1 DEF MakeStrings
      <4>2. QED
        BY <4>1, FailsFlow, FailedFlow, GotoFlow
    <3>2. CASE SetInherit(t)
      <4>1. call[t].pc = "inherit"
        BY <3>2 DEF SetInherit
      <4>2. CASE Round(t, "inherit", "attributes")
        <5>1. call'[t].pc \in {"inherit", "attributes"}
          BY <4>1, <4>2, RoundFlow
        <5>2. QED
          BY <5>1
      <4>3. CASE \E r : call' = [call EXCEPT ![t].pc = "clear", ![t].r = r, ![t].i = 1]
        BY <4>3 DEF TypeOK, CallsTyped, CallType
      <4>4. QED
        BY <3>2, <4>2, <4>3 DEF SetInherit
    <3>3. CASE SetupAttributeList(t)
      BY <3>3, FailsFlow, FailedFlow, GotoFlow DEF SetupAttributeList
    <3>4. QED
      BY <1>11, <3>1, <3>2, <3>3
  <2>4. QED
    BY <1>1, <1>2, <2>1, <2>2, <2>3 DEF OnceAt
<1>12. CASE SetErrorMode(t) \/ CreateProcess(t)
  <2>1. call'[t].pc \in {"create", "restore"} /\ UNCHANGED <<once, ready>>
    <3>1. CASE SetErrorMode(t)
      BY <3>1 DEF SetErrorMode, TypeOK, CallsTyped, CallType
    <3>2. CASE CreateProcess(t)
      BY <3>2, FailsFlow, FailedFlow, GotoFlow DEF CreateProcess, ERROR_INVALID_PARAMETER
    <3>3. QED
      BY <1>12, <3>1, <3>2
  <2>2. QED
    BY <1>2, <2>1 DEF OnceAt
<1>13. QED
  BY <1>3, <1>4, <1>5, <1>6, <1>7, <1>8, <1>9, <1>10, <1>11, <1>12, MoveKinds DEF SpawningStep

LEMMA OnceInvariant == Spec => []OnceOK
<1>1. Init => OnceOK
  BY DEF Init, OnceOK, OnceAt
<1>2. Typed /\ OnceOK /\ [Next]_vars => OnceOK'
  <2> SUFFICES ASSUME Typed, OnceOK, [Next]_vars PROVE OnceOK'
    OBVIOUS
  <2>1. CASE UNCHANGED vars
    BY <2>1 DEF vars, shared, OnceOK, OnceAt
  <2>2. CASE Next
    <3>1. PICK t \in Threads : Moves(t)
      BY <2>2, NextMoves
    <3>2. TypeOK /\ PlaceOK(t)
      BY DEF Typed
    <3>3. OnceAt(t)' /\ (once' = 2 => ready') /\ (once # 0 => once' # 0) /\ (ready => ready')
      BY <3>1, <3>2, OnceStep, OnceMonotone
    <3>4. ASSUME NEW u \in Threads \ {t} PROVE OnceAt(u)'
      <4>1. call'[u] = call[u]
        BY <3>1, <3>2, OthersUntouched DEF Untouched
      <4>2. QED
        BY <3>3, <4>1 DEF OnceOK, OnceAt
    <3>5. QED
      BY <3>3, <3>4 DEF OnceOK
  <2>3. QED
    BY <2>1, <2>2
<1>3. QED
  BY <1>1, <1>2, WindowsTypes, PTL DEF Spec

-----------------------------------------------------------------------------
(* The error mode of the process. *)

LEMMA InProcessStartIs ==
    ASSUME NEW t
    PROVE  InProcessStart(t) <=> call[t].pc \in Spawning \cup Undoing
  BY DEF InProcessStart, Spawning, Undoing

\* A thread gets into process_start by entering it, and then it is seen.
LEMMA EntersSeen ==
    ASSUME TypeOK, NEW t \in Threads, PlaceOK(t), Moves(t)
    PROVE  /\ \A u \in Threads : overlap[u] => overlap'[u]
           /\ \/ overlap' = overlap /\ (call'[t].pc \in Spawning \cup Undoing =>
                                            call[t].pc \in Spawning \cup Undoing)
              \/ \A u \in Threads \ {t} : InProcessStart(u) => overlap'[t] /\ overlap'[u]
<1>1. CASE RedirectingStep(t)
  <2>1. overlap' = overlap /\ call'[t].pc \in Redirecting \cup {"finish", "failed"}
    BY <1>1, RedirectingMoves
  <2>2. QED
    BY <2>1 DEF Redirecting, Spawning, Undoing
<1>2. CASE CallStep(t)
  <2>1. overlap' = overlap /\ call'[t].pc \in InCall \cup {"idle", "release", "freed"}
    BY <1>2, CallMoves DEF history
  <2>2. QED
    BY <2>1 DEF InCall, Waiting, Spawning, Undoing
<1>3. CASE UndoingStep(t)
  <2>1. overlap' = overlap /\ call[t].pc \in Undoing \cup {"finish"}
        /\ call'[t].pc \in {"clear", "cleanup", "finish", "failed", "idle"}
        /\ (call[t].pc = "finish" => call'[t].pc \in {"failed", "idle"})
    BY <1>3, UndoingMoves DEF history
  <2>2. QED
    BY <2>1 DEF Spawning, Undoing
<1>4. CASE Child(t)
  BY <1>4, ChildMoves DEF history
<1>5. CASE EnterProcessStart(t)
  <2>1. CASE \E e : FailedWith(t, "once", e, "finish")
    <3>1. overlap' = overlap /\ call'[t].pc = "finish"
      BY <2>1 DEF FailedWith, Goto, TypeOK, CallsTyped, CallType
    <3>2. QED
      BY <3>1 DEF Spawning, Undoing
  <2>2. CASE overlap' = [u \in Threads |->
                  \/ overlap[u]
                  \/ u = t /\ \E v \in Threads \ {t} : InProcessStart(v)
                  \/ u # t /\ InProcessStart(u)]
    <3>1. \A u \in Threads : overlap[u] => overlap'[u]
      BY <2>2
    <3>2. \A u \in Threads \ {t} : InProcessStart(u) => overlap'[t] /\ overlap'[u]
      BY <2>2
    <3>3. QED
      BY <3>1, <3>2
  <2>3. QED
    BY <1>5, <2>1, <2>2 DEF EnterProcessStart
<1>6. CASE SpawningStep(t) /\ ~EnterProcessStart(t)
  <2>1. overlap' = overlap
    BY <1>6 DEF SpawningStep, InitOnce, PublishOnce, SpinOnce, MakeStrings, SetInherit,
       SetupAttributeList, SetErrorMode, CreateProcess, Failed, FailedWith, Round, history
  <2>2. call[t].pc \in Spawning
    BY <1>6 DEF SpawningStep, InitOnce, PublishOnce, SpinOnce, MakeStrings, SetInherit,
       SetupAttributeList, SetErrorMode, CreateProcess, Spawning
  <2>3. QED
    BY <2>1, <2>2
<1>7. QED
  BY <1>1, <1>2, <1>3, <1>4, <1>5, <1>6, MoveKinds

\* Who changes the error mode, and how.
LEMMA ModeMoves ==
    ASSUME TypeOK, NEW t \in Threads, PlaceOK(t), Moves(t)
    PROVE  \/ /\ call[t].pc = "mode" /\ call'[t].pc = "create" /\ errorMode' = "quiet"
              /\ call'[t].previous = errorMode /\ child' = child
           \/ /\ call[t].pc = "create" /\ call'[t].pc = "restore" /\ errorMode' = errorMode
              /\ call'[t].previous = call[t].previous
              /\ child'[t].mode \in {child[t].mode, errorMode}
           \/ /\ call[t].pc = "restore" /\ call'[t].pc \notin {"create", "restore"}
              /\ errorMode' = call[t].previous /\ child' = child
           \/ /\ call[t].pc \notin {"create", "restore"}
              /\ call'[t].pc \notin {"create", "restore"}
              /\ errorMode' = errorMode /\ child'[t].mode = child[t].mode
           \/ call' = call /\ errorMode' = errorMode /\ child'[t].mode = child[t].mode
<1>1. CASE RedirectingStep(t)
  <2>1. /\ call[t].pc \in Redirecting /\ call'[t].pc \in Redirecting \cup {"finish", "failed"}
        /\ UNCHANGED <<errorMode, child>>
    BY <1>1, RedirectingMoves
  <2>2. QED
    BY <2>1 DEF Redirecting
<1>2. CASE CallStep(t)
  <2>1. /\ call[t].pc \in InCall \cup {"failed", "idle", "release"}
        /\ call'[t].pc \in InCall \cup {"idle", "release", "freed"}
        /\ errorMode' = errorMode /\ child'[t].mode = child[t].mode
    BY <1>2, CallMoves
  <2>2. QED
    BY <2>1 DEF InCall, Waiting
<1>3. CASE Child(t)
  BY <1>3, ChildMoves DEF shared
<1>4. CASE SetErrorMode(t)
  BY <1>4 DEF SetErrorMode, TypeOK, CallsTyped, CallType
<1>5. CASE RestoreErrorMode(t)
  BY <1>5 DEF RestoreErrorMode, RestoredMode, TypeOK, CallsTyped, CallType
<1>6. CASE CreateProcess(t)
  <2>1. call[t].pc = "create" /\ call'[t].pc = "restore" /\ errorMode' = errorMode
    BY <1>6, FailsFlow, FailedFlow, GotoFlow DEF CreateProcess, ERROR_INVALID_PARAMETER
  <2>2. call'[t].previous = call[t].previous
    BY <1>6, PlainFlow DEF Kept
  <2>3. child'[t].mode \in {child[t].mode, errorMode}
    <3>1. CASE child' = child
      BY <3>1
    <3>2. CASE child' = [child EXCEPT ![t] = [@ EXCEPT !.state = "running", !.mode = errorMode,
                                                      !.inherits = Listed(t)]]
      BY <3>2 DEF TypeOK, ChildType
    <3>3. QED
      BY <1>6, <3>1, <3>2 DEF CreateProcess
  <2>4. QED
    BY <2>1, <2>2, <2>3
<1>7. CASE SpawningStep(t) /\ ~SetErrorMode(t) /\ ~CreateProcess(t)
  <2>1. UNCHANGED <<errorMode, child>>
    BY <1>7 DEF SpawningStep, EnterProcessStart, InitOnce, PublishOnce, SpinOnce, MakeStrings,
       SetInherit, SetupAttributeList, shared
  <2>2. call[t].pc \in Spawning \cup {"once"} /\ call[t].pc \notin {"mode", "create"}
    BY <1>7 DEF SpawningStep, EnterProcessStart, InitOnce, PublishOnce, SpinOnce, MakeStrings,
       SetInherit, SetupAttributeList, Spawning
  <2>3. call'[t].pc # "restore"
    BY <1>7, <2>2, SpawningMoves
  <2>4. call'[t].pc # "create"
    <3>1. CASE SetInherit(t)
      <4>1. CASE Round(t, "inherit", "attributes")
        <5>1. call'[t].pc \in {"inherit", "attributes"}
          BY <3>1, <4>1, RoundFlow DEF SetInherit
        <5>2. QED
          BY <5>1
      <4>2. CASE \E r : call' = [call EXCEPT ![t].pc = "clear", ![t].r = r, ![t].i = 1]
        BY <4>2 DEF TypeOK, CallsTyped, CallType
      <4>3. QED
        BY <3>1, <4>1, <4>2 DEF SetInherit
    <3>2. CASE ~SetInherit(t)
      BY <1>7, <3>2, PlainFlow DEF SpawningStep
    <3>3. QED
      BY <3>1, <3>2
  <2>5. QED
    BY <2>1, <2>2, <2>3, <2>4 DEF Spawning
<1>8. CASE UndoingStep(t) /\ ~RestoreErrorMode(t)
  <2>1. UNCHANGED <<errorMode, child>> /\ call[t].pc \in {"clear", "cleanup", "finish"}
    BY <1>8 DEF UndoingStep, ClearInherit, Cleanup, Finish
  <2>2. call'[t].pc \in {"clear", "cleanup", "finish", "failed", "idle"}
    BY <1>8, UndoingMoves
  <2>3. QED
    BY <2>1, <2>2
<1>9. QED
  BY <1>1, <1>2, <1>3, <1>4, <1>5, <1>6, <1>7, <1>8, MoveKinds

LEMMA ExclusiveStep ==
    ASSUME TypeOK, NEW t \in Threads, PlaceOK(t), Exclusive, Moves(t)
    PROVE  Exclusive'
<1> SUFFICES ASSUME NEW u \in Threads, NEW v \in Threads, u # v,
                    InProcessStart(u)', InProcessStart(v)'
             PROVE  overlap'[u]
  BY DEF Exclusive
<1>1. call'[u].pc \in Spawning \cup Undoing /\ call'[v].pc \in Spawning \cup Undoing
  BY DEF InProcessStart, Spawning, Undoing
<1>2. \A w \in Threads \ {t} : call'[w] = call[w]
  BY OthersUntouched DEF Untouched
<1>3. \A w \in Threads : overlap[w] => overlap'[w]
  BY EntersSeen
<1>4. CASE \A w \in Threads \ {t} : InProcessStart(w) => overlap'[t] /\ overlap'[w]
  <2>1. CASE u = t
    <3>1. InProcessStart(v)
      BY <1>1, <1>2, <2>1, InProcessStartIs
    <3>2. QED
      BY <1>4, <2>1, <3>1
  <2>2. CASE u # t
    <3>1. InProcessStart(u)
      BY <1>1, <1>2, <2>2, InProcessStartIs
    <3>2. QED
      BY <1>4, <2>2, <3>1
  <2>3. QED
    BY <2>1, <2>2
<1>5. CASE overlap' = overlap /\ (call'[t].pc \in Spawning \cup Undoing =>
                                      call[t].pc \in Spawning \cup Undoing)
  <2>1. InProcessStart(u) /\ InProcessStart(v)
    BY <1>1, <1>2, <1>5, InProcessStartIs
  <2>2. QED
    BY <1>5, <2>1 DEF Exclusive
<1>6. QED
  BY <1>4, <1>5, EntersSeen

LEMMA ModeStep ==
    ASSUME TypeOK, NEW t \in Threads, PlaceOK(t), ModeOK, Moves(t)
    PROVE  ModeKept' /\ \A u \in Threads : ModeAt(u)'
<1>1. \A w \in Threads \ {t} : call'[w] = call[w] /\ child'[w] = child[w]
  BY OthersUntouched DEF Untouched
<1>2. \A w \in Threads : overlap[w] => overlap'[w]
  BY EntersSeen
<1>3. \A u \in Threads \ {t} : call[t].pc \in {"mode", "create", "restore"}
            /\ call[u].pc \in {"create", "restore"} => overlap[t] /\ overlap[u]
  BY InProcessStartIs DEF ModeOK, Exclusive, Spawning, Undoing
<1>4. ASSUME NEW u \in Threads PROVE ModeAt(u)'
  <2>1. SUFFICES ASSUME ~overlap'[u]
                 PROVE  /\ call'[u].pc \in {"create", "restore"} => errorMode' = "quiet"
                        /\ child'[u].mode \in {"none", "quiet"}
    BY DEF ModeAt
  <2>2. /\ ~overlap[u]
        /\ call[u].pc \in {"create", "restore"} => errorMode = "quiet"
        /\ child[u].mode \in {"none", "quiet"}
    BY <1>2, <2>1 DEF ModeOK, ModeAt
  <2>3. CASE u = t
    BY <2>2, <2>3, ModeMoves
  <2>4. CASE u # t
    <3>1. call'[u] = call[u] /\ child'[u] = child[u]
      BY <1>1, <2>4
    <3>2. call[u].pc \in {"create", "restore"} => errorMode' = errorMode
      BY <1>3, <2>2, <2>4, ModeMoves
    <3>3. QED
      BY <2>2, <3>1, <3>2
  <2>5. QED
    BY <2>3, <2>4
<1>5. ModeKept'
  <2>1. SUFFICES ASSUME \A w \in Threads : ~overlap'[w]
                 PROVE  /\ \A u \in Threads : call'[u].pc \in {"create", "restore"} =>
                                                call'[u].previous = "caller's"
                        /\ (\A u \in Threads : call'[u].pc \notin {"create", "restore"}) =>
                                errorMode' = "caller's"
    BY DEF ModeKept
  <2>2. \A w \in Threads : ~overlap[w]
    BY <1>2, <2>1
  <2>3. /\ \A u \in Threads : call[u].pc \in {"create", "restore"} => call[u].previous = "caller's"
        /\ (\A u \in Threads : call[u].pc \notin {"create", "restore"}) => errorMode = "caller's"
    BY <2>2 DEF ModeOK, ModeKept
  <2>4. call[t].pc = "mode" => errorMode = "caller's"
    <3>1. SUFFICES ASSUME call[t].pc = "mode" PROVE errorMode = "caller's"
      OBVIOUS
    <3>2. \A u \in Threads : call[u].pc \notin {"create", "restore"}
      BY <1>3, <2>2, <3>1
    <3>3. QED
      BY <2>3, <3>2
  <2>5. ASSUME NEW u \in Threads, call'[u].pc \in {"create", "restore"}
        PROVE  call'[u].previous = "caller's"
    <3>1. CASE u # t
      BY <1>1, <2>3, <2>5, <3>1
    <3>2. CASE u = t
      BY <2>3, <2>4, <2>5, <3>2, ModeMoves
    <3>3. QED
      BY <3>1, <3>2
  <2>6. ASSUME \A u \in Threads : call'[u].pc \notin {"create", "restore"}
        PROVE  errorMode' = "caller's"
    <3>1. \A u \in Threads \ {t} : call[u].pc \notin {"create", "restore"}
      BY <1>1, <2>6
    <3>2. call'[t].pc \notin {"create", "restore"}
      BY <2>6
    <3>3. CASE call[t].pc = "restore"
      BY <2>3, <3>2, <3>3, ModeMoves
    <3>4. CASE call[t].pc # "restore"
      <4>1. call[t].pc # "create" /\ errorMode' = errorMode
        BY <3>2, <3>4, ModeMoves
      <4>2. QED
        BY <2>3, <3>1, <3>4, <4>1
    <3>5. QED
      BY <3>3, <3>4
  <2>7. QED
    BY <2>5, <2>6
<1>6. QED
  BY <1>4, <1>5

LEMMA ModeInvariant == Spec => []ModeOK
<1>1. Init => ModeOK
  BY DEF Init, ModeOK, Exclusive, InProcessStart, ModeAt, ModeKept
<1>2. Typed /\ ModeOK /\ [Next]_vars => ModeOK'
  <2> SUFFICES ASSUME Typed, ModeOK, [Next]_vars PROVE ModeOK'
    OBVIOUS
  <2>1. CASE UNCHANGED vars
    BY <2>1 DEF vars, shared, history, ModeOK, Exclusive, InProcessStart, ModeAt, ModeKept
  <2>2. CASE Next
    <3>1. PICK t \in Threads : Moves(t)
      BY <2>2, NextMoves
    <3>2. TypeOK /\ PlaceOK(t) /\ Exclusive
      BY DEF Typed, ModeOK
    <3>3. QED
      BY <3>1, <3>2, ExclusiveStep, ModeStep DEF ModeOK
  <2>3. QED
    BY <2>1, <2>2
<1>3. QED
  BY <1>1, <1>2, WindowsTypes, PTL DEF Spec

\* A start that is alone in process_start creates its child in the quiet mode, and
\* when starts that were all alone are over, the process has its own mode again.
THEOREM ErrorModeIsContained == Spec => []ErrorModeContained
<1>1. ModeOK => ErrorModeContained
  BY InProcessStartIs DEF ModeOK, ModeAt, ModeKept, ErrorModeContained, Spawning, Undoing
<1>2. QED
  BY <1>1, ModeInvariant, PTL

-----------------------------------------------------------------------------
(* The exit status. *)

StatusHeld(t) ==
    proc[t].status >= 0 =>
        /\ child[t].state # "running"
        /\ \/ child[t].state = "ended" /\ proc[t].status = ExitStatus(child[t].code)
           \/ child[t].code = REPROC_SIGKILL /\ proc[t].status = 0

\* A call sets the status only to what it has found.
LEMMA CallStatus ==
    ASSUME TypeOK, NEW t \in Threads, CallStep(t)
    PROVE  \/ proc'[t].status = proc[t].status
           \/ /\ call[t].pc = "object" /\ proc'[t].status >= 0 /\ child'[t].state # "running"
              /\ \/ /\ child'[t].state = "ended"
                    /\ proc'[t].status = ExitStatus(child'[t].code)
                 \/ child'[t].code = REPROC_SIGKILL /\ proc'[t].status = 0
<1>1. CASE Stop(t) \/ Signal(t) \/ Poll(t) \/ Begin(t)
  BY <1>1 DEF Stop, Signal, Poll, Begin, CallWait, CallDestroy, CallSignal
<1>2. CASE Release(t)
  BY <1>2 DEF Release, TypeOK, ProcType
<1>3. ASSUME NEW r \in Int, Waited(t, r)
      PROVE  IF r < 0 THEN proc' = proc ELSE proc'[t].status = r
  BY <1>3 DEF Waited, TypeOK, ProcType
<1>4. CASE ProcessWait(t)
  <2>1. CASE UNCHANGED child /\ \E e \in Errnos : Waited(t, -e)
    <3>1. PICK e \in Errnos : Waited(t, -e)
      BY <2>1
    <3>2. -e \in Int /\ -e < 0
      BY WindowsAssumption
    <3>3. QED
      BY <1>3, <3>1, <3>2
  <2>2. CASE child[t].state = "ended" /\ Waited(t, ExitStatus(child[t].code)) /\ UNCHANGED child
    <3>1. PICK r \in Int : r = ExitStatus(child[t].code)
      BY ExitStatusType DEF TypeOK, ChildType
    <3>2. Waited(t, r)
      BY <2>2, <3>1
    <3>3. QED
      BY <1>3, <1>4, <2>2, <3>1, <3>2 DEF ProcessWait
  <2>3. CASE child[t].state # "ended" /\ TerminateProcess(t) /\ Waited(t, Terminated(t))
    <3>1. PICK r \in Int : r = Terminated(t)
      BY TerminatedType
    <3>2. Waited(t, r)
      BY <2>3, <3>1
    <3>3. CASE child[t].state = "running"
      BY <1>3, <1>4, <2>3, <3>1, <3>2, <3>3, TerminateProcessEffect DEF ProcessWait
    <3>4. CASE child[t].state # "running"
      <4>1. r < 0
        BY <3>1, <3>4 DEF Terminated, ERROR_ACCESS_DENIED
      <4>2. QED
        BY <1>3, <3>2, <4>1
    <3>5. QED
      BY <3>3, <3>4
  <2>4. QED
    BY <1>4, <2>1, <2>2, <2>3 DEF ProcessWait
<1>5. QED
  BY <1>1, <1>2, <1>4 DEF CallStep

\* A call goes on, or begins, only on a handle whose child has been started.
LEMMA CallStays ==
    ASSUME TypeOK, NEW t \in Threads, StatusOK(t), CallStep(t),
           call'[t].pc \in InCall \cup {"idle"}
    PROVE  call[t].pc \in InCall \cup {"idle"}
<1>1. CASE Stop(t) \/ Signal(t) \/ Poll(t) \/ ProcessWait(t)
  BY <1>1 DEF Stop, Signal, Poll, ProcessWait, InCall, Waiting
<1>2. CASE CallWait(t) \/ \E op \in {"terminate", "kill"} : CallSignal(t, op)
  BY <1>2 DEF CallWait, CallSignal
<1>3. CASE Release(t)
  <2>1. call'[t].pc = "freed"
    BY <1>3 DEF Release, TypeOK, CallsTyped, CallType
  <2>2. QED
    BY <2>1 DEF InCall, Waiting
<1>4. CASE CallDestroy(t)
  <2>1. CASE call[t].pc = "failed"
    <3>1. proc[t].status = NOT_STARTED
      BY <2>1 DEF StatusOK
    <3>2. call'[t].pc = "release"
      BY <1>4, <3>1 DEF CallDestroy, NOT_STARTED, IN_PROGRESS, TypeOK, CallsTyped, CallType
    <3>3. QED
      BY <3>2 DEF InCall, Waiting
  <2>2. QED
    BY <1>4, <2>1 DEF CallDestroy
<1>5. QED
  BY <1>1, <1>2, <1>3, <1>4 DEF CallStep, Begin

LEMMA StatusStep ==
    ASSUME TypeOK, NEW t \in Threads, PlaceOK(t), StatusOK(t), Moves(t)
    PROVE  StatusOK(t)'
<1>1. StatusHeld(t)
  BY DEF StatusOK, StatusHeld
<1>2. ASSUME proc'[t].status = proc[t].status,
             child'[t].state = "running" => child[t].state = "running" \/ proc[t].status = NOT_STARTED,
             proc[t].status >= 0 /\ child[t].state # "running" =>
                \/ child'[t].state = child[t].state /\ child'[t].code = child[t].code
                \/ /\ child[t].state = "exiting"
                   /\ child'[t].state = "ended" /\ child'[t].code = child[t].code
      PROVE  StatusHeld(t)'
  <2>1. SUFFICES ASSUME proc'[t].status >= 0
                 PROVE  /\ child'[t].state # "running"
                        /\ \/ child'[t].state = "ended" /\ proc'[t].status = ExitStatus(child'[t].code)
                           \/ child'[t].code = REPROC_SIGKILL /\ proc'[t].status = 0
    BY DEF StatusHeld
  <2>2. proc[t].status >= 0 /\ proc[t].status # NOT_STARTED
    BY <1>2, <2>1 DEF NOT_STARTED
  <2>3. QED
    BY <1>1, <1>2, <2>2 DEF StatusHeld
<1>3. CASE RedirectingStep(t)
  <2>1. /\ proc'[t].status = proc[t].status /\ child' = child /\ call[t].pc \in Starting
        /\ call'[t].pc \in Starting \cup {"failed"}
    BY <1>3, RedirectingMoves DEF Starting
  <2>2. proc[t].status = NOT_STARTED
    BY <2>1 DEF StatusOK
  <2>3. QED
    BY <1>1, <2>1, <2>2 DEF StatusOK, StatusHeld, NOT_STARTED, Starting, Redirecting, Spawning,
       Undoing, InCall, Waiting
<1>4. CASE SpawningStep(t)
  <2>1. call[t].pc \in Starting /\ call'[t].pc \in Starting
    BY <1>4, SpawningMoves DEF Starting, Redirecting, Undoing
  <2>2. proc'[t].status = proc[t].status
    <3>1. CASE CreateProcess(t)
      BY <3>1 DEF CreateProcess, TypeOK, ProcType
    <3>2. CASE ~CreateProcess(t)
      BY <1>4, <3>2 DEF SpawningStep, EnterProcessStart, InitOnce, PublishOnce, SpinOnce, MakeStrings,
         SetInherit, SetupAttributeList, SetErrorMode
    <3>3. QED
      BY <3>1, <3>2
  <2>3. proc'[t].status = NOT_STARTED
    BY <2>1, <2>2 DEF StatusOK
  <2>4. QED
    BY <2>1, <2>3 DEF StatusOK, NOT_STARTED, Starting, Redirecting, Spawning, Undoing, InCall, Waiting
<1>5. CASE UndoingStep(t)
  <2>1. /\ call[t].pc \in Starting /\ child' = child
        /\ call'[t].pc \in {"clear", "cleanup", "finish", "failed", "idle"}
    BY <1>5, UndoingMoves DEF Starting
  <2>2. proc[t].status = NOT_STARTED
    BY <2>1 DEF StatusOK
  <2>3. CASE ~Finish(t)
    <3>1. proc' = proc /\ call'[t].pc \notin {"failed", "idle"}
      <4>1. call[t].pc # "finish"
        BY <1>5, <2>3 DEF UndoingStep, RestoreErrorMode, ClearInherit, Cleanup
      <4>2. QED
        BY <1>5, <2>3, <4>1, UndoingMoves DEF UndoingStep, RestoreErrorMode, ClearInherit, Cleanup
    <3>2. QED
      BY <2>1, <2>2, <3>1 DEF StatusOK, NOT_STARTED, InCall, Waiting
  <2>4. CASE Finish(t)
    <3>1. CASE call[t].r < 0
      <4>1. proc'[t].status = NOT_STARTED /\ call'[t].pc = "failed"
        BY <2>2, <2>4, <3>1 DEF Finish, TypeOK, ProcType, CallsTyped, CallType
      <4>2. QED
        BY <4>1 DEF StatusOK, NOT_STARTED, InCall, Waiting
    <3>2. CASE ~(call[t].r < 0)
      <4>1. proc'[t].status = IN_PROGRESS /\ call'[t].pc = "idle"
        BY <2>4, <3>2 DEF Finish, TypeOK, ProcType, CallsTyped, CallType
      <4>2. QED
        BY <4>1 DEF StatusOK, NOT_STARTED, IN_PROGRESS, Starting, Redirecting, Spawning, Undoing
    <3>3. QED
      BY <3>1, <3>2
  <2>5. QED
    BY <2>3, <2>4
<1>6. CASE CallStep(t)
  <2>1. /\ call[t].pc \in InCall \cup {"failed", "idle", "release"}
        /\ call'[t].pc \in InCall \cup {"idle", "release", "freed"}
        /\ child[t].state # "running" =>
                child'[t].state = child[t].state /\ child'[t].code = child[t].code
    BY <1>6, CallMoves
  <2>2. call'[t].pc \notin Starting \cup {"failed"}
    BY <2>1 DEF Starting, Redirecting, Spawning, Undoing, InCall, Waiting
  <2>3. CASE proc'[t].status = proc[t].status
    <3>1. child'[t].state = "running" => child[t].state = "running"
      BY <2>1
    <3>2. StatusHeld(t)'
      BY <1>2, <2>1, <2>3, <3>1
    <3>3. call'[t].pc \in InCall \cup {"idle"} => call[t].pc \in InCall \cup {"idle"}
      BY <1>6, CallStays
    <3>4. QED
      BY <2>2, <2>3, <3>2, <3>3 DEF StatusOK, StatusHeld
  <2>4. CASE proc'[t].status # proc[t].status
    <3>1. /\ proc'[t].status >= 0 /\ child'[t].state # "running"
          /\ \/ child'[t].state = "ended" /\ proc'[t].status = ExitStatus(child'[t].code)
             \/ child'[t].code = REPROC_SIGKILL /\ proc'[t].status = 0
      BY <1>6, <2>4, CallStatus
    <3>2. proc'[t].status # NOT_STARTED
      BY <3>1 DEF NOT_STARTED
    <3>3. QED
      BY <2>2, <3>1, <3>2 DEF StatusOK
  <2>5. QED
    BY <2>3, <2>4
<1>7. CASE Child(t)
  <2>1. UNCHANGED <<call, proc>>
    BY <1>7, ChildMoves
  <2>2. StatusHeld(t)'
    BY <1>2, <1>7, <2>1, ChildMoves
  <2>3. QED
    BY <2>1, <2>2 DEF StatusOK, StatusHeld
<1>8. QED
  BY <1>3, <1>4, <1>5, <1>6, <1>7, MoveKinds

LEMMA StatusInvariant == Spec => []\A t \in Threads : StatusOK(t)
<1>1. Init => \A t \in Threads : StatusOK(t)
  BY DEF Init, StatusOK, NOT_STARTED, InCall, Waiting
<1>2. Typed /\ (\A t \in Threads : StatusOK(t)) /\ [Next]_vars => (\A t \in Threads : StatusOK(t))'
  <2> SUFFICES ASSUME Typed, \A t \in Threads : StatusOK(t), [Next]_vars, NEW u \in Threads
               PROVE  StatusOK(u)'
    OBVIOUS
  <2>1. CASE UNCHANGED vars
    BY <2>1 DEF vars, StatusOK
  <2>2. CASE Next
    <3>1. PICK t \in Threads : Moves(t)
      BY <2>2, NextMoves
    <3>2. TypeOK /\ PlaceOK(t)
      BY DEF Typed
    <3>3. CASE u = t
      BY <3>1, <3>2, <3>3, StatusStep
    <3>4. CASE u # t
      <4>1. Untouched(u)
        BY <3>1, <3>2, <3>4, OthersUntouched
      <4>2. QED
        BY <4>1 DEF Untouched, StatusOK
    <3>5. QED
      BY <3>3, <3>4
  <2>3. QED
    BY <2>1, <2>2
<1>3. QED
  BY <1>1, <1>2, WindowsTypes, PTL DEF Spec

\* An exit status in the handle is what reproc makes of the code of a child that has
\* ended, or 0 for a child that reproc has terminated.
THEOREM StatusIsTrue == Spec => []StatusTrue
<1>1. (\A t \in Threads : StatusOK(t)) => StatusTrue
  BY DEF StatusOK, StatusTrue
<1>2. QED
  BY <1>1, StatusInvariant, PTL

-----------------------------------------------------------------------------
(* The child's ends. *)

LEMMA EndOfKept ==
    ASSUME NEW t, NEW p, options'[t] = options[t]
    PROVE  EndOf(t, p)' = EndOf(t, p) /\ EndMade(t, p)' = EndMade(t, p)
  BY DEF EndOf, EndMade

LEMMA EndIsSome ==
    ASSUME NEW t \in Threads, NEW p \in Roles
    PROVE  EndMade(t, p) # None /\ EndOf(t, p) # None
  BY WindowsAssumption
     DEF EndOf, EndMade, None, Theirs, Read, Write, Std, File, Roles, Streams

\* Only stderr is redirected to stdout.
LEMMA OnlyErrToOut ==
    ASSUME NEW t \in Threads, PlaceOK(t), NEW s \in Streams, options[t][s] = "stdout"
    PROVE  s = "err"
<1>1. options[t] \in Configs[t] /\ Configs[t] \subseteq {o \in Options :
            "stdout" \notin {o.in, o.out} /\ (o.input => o.in = "pipe")}
  BY WindowsAssumption DEF PlaceOK
<1>2. "stdout" \notin {options[t].in, options[t].out}
  BY <1>1
<1>3. QED
  BY <1>2 DEF Streams

\* The end for role p has been made: the statement for the next role comes next.
LEMMA EndAdded ==
    ASSUME TypeOK, NEW t \in Threads, EndsOK(t), NEW p \in Roles,
           call[t].pc = p, options' = options,
           call'[t].end = [call[t].end EXCEPT ![p] = EndOf(t, p)],
           call'[t].pc = [in |-> "out", out |-> "err", err |-> "exit", exit |-> "input"][p]
    PROVE  EndsOK(t)'
<1>1. call[t].end \in [Roles -> Handles]
  BY DEF TypeOK, CallsTyped, CallType
<1>2. \A q \in Roles : EndOf(t, q)' = EndOf(t, q) /\ EndOf(t, q) # None
  BY EndOfKept, EndIsSome
<1>3. call[t].pc \in Starting /\ call'[t].pc \in Starting
  BY DEF Starting, Redirecting, Roles, Streams
<1>4. /\ \A q \in Roles : call[t].end[q] \in {None, EndOf(t, q)}
      /\ \A q \in Roles : call[t].pc \in Before[q] => call[t].end[q] = None
      /\ \A q \in Roles : call[t].end[q] = None => call[t].pc \in Before[q]
  BY <1>3 DEF EndsOK, Roles, Streams
<1>5. \A q \in Roles : call'[t].end[q] = IF q = p THEN EndOf(t, p) ELSE call[t].end[q]
  BY <1>1
<1>6. \A q \in Roles : call'[t].end[q] \in {None, EndOf(t, q)'}
  BY <1>2, <1>4, <1>5
<1>7. \A q \in Roles : call'[t].pc \in Before[q] <=> (call[t].pc \in Before[q] /\ q # p)
  BY DEF Before, Roles, Streams
<1>8. \A q \in Roles : (call'[t].pc \in Before[q] <=> call'[t].end[q] = None)
  BY <1>2, <1>4, <1>5, <1>7
<1>9. call'[t].pc \in Before["out"] => call'[t].pc \in Before["err"]
  BY DEF Before
<1>10. call'[t].end["err"] # None => call'[t].end["out"] # None
  BY <1>8, <1>9 DEF Roles, Streams
<1>11. QED
  BY <1>3, <1>6, <1>8, <1>10 DEF EndsOK

\* The ends are as they were, and the statement comes after the same roles.
LEMMA EndsKept ==
    ASSUME NEW t \in Threads, EndsOK(t), call[t].pc \in Starting, call'[t].pc \in Starting,
           options' = options, call'[t].end = call[t].end,
           \/ call'[t].pc = "finish" /\ call'[t].r < 0
           \/ \A p \in Roles : call'[t].pc \in Before[p] <=> call[t].pc \in Before[p],
           call[t].pc # "finish"
    PROVE  EndsOK(t)'
<1>1. \A q \in Roles : EndOf(t, q)' = EndOf(t, q)
  BY EndOfKept
<1>2. /\ \A q \in Roles : call[t].end[q] \in {None, EndOf(t, q)}
      /\ \A q \in Roles : call[t].pc \in Before[q] => call[t].end[q] = None
      /\ \A q \in Roles : call[t].end[q] = None => call[t].pc \in Before[q]
      /\ call[t].end["err"] # None => call[t].end["out"] # None
  BY DEF EndsOK
<1>3. \A p \in Roles : call'[t].pc \in Before[p] => call[t].pc \in Before[p]
  BY DEF Before, Roles, Streams
<1>4. QED
  BY <1>1, <1>2, <1>3 DEF EndsOK

\* Before a call of SetHandleInformation all ends have been made.
LEMMA EndsThere ==
    ASSUME NEW t \in Threads, EndsOK(t), call[t].pc \in Spawning \cup Undoing \cup {"input", "once"}
    PROVE  \A p \in Roles : call[t].end[p] = EndOf(t, p)
<1>1. call[t].pc \in Starting /\ call[t].pc # "finish"
  BY DEF Starting, Redirecting, Spawning, Undoing
<1>2. \A p \in Roles : call[t].pc \notin Before[p]
  BY DEF Before, Roles, Streams, Spawning, Undoing
<1>3. QED
  BY <1>1, <1>2 DEF EndsOK

LEMMA EndsStep ==
    ASSUME TypeOK, NEW t \in Threads, PlaceOK(t), EndsOK(t), Moves(t)
    PROVE  EndsOK(t)'
<1>1. CASE InitWinsock(t)
  <2>1. call[t].pc = "init" /\ call'[t].end = call[t].end /\ options' = options
        /\ call'[t].pc \in {"failed", "options"}
    BY <1>1, FailsFlow, GotoFlow, PlainFlow DEF InitWinsock, Kept
  <2>2. CASE call'[t].pc = "options"
    BY <2>1, <2>2, EndsKept DEF Starting, Redirecting, Before, Roles, Streams
  <2>3. CASE call'[t].pc = "failed"
    <3>1. \A p \in Roles : call[t].end[p] = None
      BY <2>1 DEF EndsOK, Starting, Redirecting, Before, Roles, Streams
    <3>2. call[t].end = [p \in Roles |-> None]
      BY <3>1 DEF TypeOK, CallsTyped, CallType
    <3>3. QED
      BY <2>1, <2>3, <3>2 DEF EndsOK, Starting, Redirecting, Spawning, Undoing
  <2>4. QED
    BY <2>1, <2>2, <2>3
<1>2. CASE ParseOptions(t) \/ SetupInput(t)
  <2>1. call'[t].end = call[t].end /\ options' = options
    BY <1>2, PlainFlow DEF Kept
  <2>2. \/ call'[t].pc = "finish" /\ call'[t].r < 0 /\ call[t].pc \in {"options", "input"}
        \/ call[t].pc = "options" /\ call'[t].pc = "in"
        \/ call[t].pc = "input" /\ call'[t].pc = "once"
    <3>1. CASE ParseOptions(t)
      BY <3>1, FailedFlow, GotoFlow DEF ParseOptions, ERROR_INVALID_PARAMETER
    <3>2. CASE SetupInput(t)
      BY <3>2, FailsFlow, GotoFlow DEF SetupInput
    <3>3. QED
      BY <1>2, <3>1, <3>2
  <2>3. QED
    BY <2>1, <2>2, EndsKept DEF Starting, Redirecting, Before, Roles, Streams
<1>3. ASSUME NEW s \in Streams, Redirect(t, s)
      PROVE  EndsOK(t)'
  <2>1. /\ call[t].pc = s /\ options' = options /\ s \in Roles
        /\ \/ call'[t].pc = "finish" /\ call'[t].r < 0 /\ call'[t].end = call[t].end
           \/ /\ call'[t].pc = After[s]
              /\ \/ /\ options[t][s] = "stdout"
                    /\ call'[t].end = [call[t].end EXCEPT ![s] = call[t].end["out"]]
                 \/ /\ options[t][s] # "stdout"
                    /\ call'[t].end = [call[t].end EXCEPT ![s] = EndMade(t, s)]
    BY <1>3, RedirectFlow DEF Kept, Roles
  <2>2. CASE call'[t].pc = "finish" /\ call'[t].r < 0 /\ call'[t].end = call[t].end
    BY <2>1, <2>2, EndsKept DEF Starting, Redirecting, Streams
  <2>3. CASE /\ call'[t].pc = After[s] /\ options[t][s] = "stdout"
             /\ call'[t].end = [call[t].end EXCEPT ![s] = call[t].end["out"]]
    <3>1. s = "err"
      BY <2>3, OnlyErrToOut
    <3>2. call[t].end["out"] = EndOf(t, "out") /\ EndOf(t, "out") = EndMade(t, "out")
      BY <2>1, <3>1 DEF EndsOK, Before, Starting, Redirecting, Roles, Streams, EndOf
    <3>3. EndOf(t, s) = call[t].end["out"]
      BY <2>3, <3>1, <3>2 DEF EndOf
    <3>4. QED
      BY <2>1, <2>3, <3>1, <3>3, EndAdded DEF After
  <2>4. CASE /\ call'[t].pc = After[s] /\ options[t][s] # "stdout"
             /\ call'[t].end = [call[t].end EXCEPT ![s] = EndMade(t, s)]
    <3>1. EndOf(t, s) = EndMade(t, s)
      BY <2>4 DEF EndOf
    <3>2. After[s] = [in |-> "out", out |-> "err", err |-> "exit", exit |-> "input"][s]
      BY DEF After, Streams
    <3>3. QED
      BY <2>1, <2>4, <3>1, <3>2, EndAdded
  <2>5. QED
    BY <2>1, <2>2, <2>3, <2>4
<1>4. CASE InitExitPipe(t)
  <2>1. "exit" \in Roles /\ MakePipe(t, "exit", "input") /\ call[t].pc = "exit"
    BY <1>4 DEF InitExitPipe, Roles
  <2>2. PICK p, next : p \in Roles /\ p = "exit" /\ next = "input" /\ MakePipe(t, p, next)
    BY <2>1
  <2>3. /\ options' = options
        /\ \/ call'[t].pc = "finish" /\ call'[t].r < 0 /\ call'[t].end = call[t].end
           \/ /\ call'[t].pc = next
              /\ call'[t].end = [call[t].end EXCEPT ![p] = Theirs(t, p)]
    <3>1.  /\ Kept(t) /\ overlap' = overlap
           /\ proc'[t].status = proc[t].status /\ proc'[t].process = proc[t].process
           /\ proc'[t].kept = proc[t].kept
           /\ \/ /\ call'[t].pc = "finish" /\ call'[t].r < 0 /\ call'[t].end = call[t].end
                 /\ call'[t].r = -fault'[t].errno /\ fault'[t].step # "race"
                 /\ UNCHANGED <<open, proc>>
              \/ /\ call'[t].pc = next /\ call'[t].r = 0 /\ fault'[t] = fault[t]
                 /\ call'[t].end = [call[t].end EXCEPT ![p] = Theirs(t, p)]
                 /\ proc'[t].pipe = proc[t].pipe \cup {p}
                 /\ open' = open \cup {Ours(t, p), Theirs(t, p)}
      BY <2>2, MakePipeFlow
    <3>2. QED
      BY <3>1 DEF Kept
  <2>4. EndOf(t, p) = Theirs(t, p)
    BY <2>2 DEF EndOf, EndMade
  <2>5. CASE call'[t].pc = "finish" /\ call'[t].r < 0 /\ call'[t].end = call[t].end
    BY <2>1, <2>3, <2>5, EndsKept DEF Starting, Redirecting
  <2>6. CASE call'[t].pc = next /\ call'[t].end = [call[t].end EXCEPT ![p] = Theirs(t, p)]
    BY <2>1, <2>2, <2>3, <2>4, <2>6, EndAdded
  <2>7. QED
    BY <2>3, <2>5, <2>6
<1>5. CASE RedirectingStep(t)
  BY <1>1, <1>2, <1>3, <1>4, <1>5 DEF RedirectingStep
<1>6. CASE SpawningStep(t)
  <2>1. /\ call[t].pc \in Spawning \cup {"once"} /\ options' = options
        /\ call'[t].pc \in Spawning \cup {"clear", "restore", "finish"}
        /\ call'[t].end = call[t].end
    BY <1>6, SpawningMoves
  <2>2. \A p \in Roles : call'[t].end[p] = EndOf(t, p)' /\ EndOf(t, p) # None
                         /\ EndOf(t, p)' = EndOf(t, p)
    BY <2>1, EndsThere, EndIsSome, EndOfKept
  <2>3. \A p \in Roles : call'[t].pc \notin Before[p]
    BY <2>1 DEF Before, Roles, Streams, Spawning
  <2>4. call'[t].pc \in Starting
    BY <2>1 DEF Starting, Undoing
  <2>5. QED
    BY <2>2, <2>3, <2>4 DEF EndsOK, Roles, Streams
<1>7. CASE UndoingStep(t) /\ ~Finish(t)
  <2>1. call'[t].end = call[t].end /\ options' = options /\ call[t].pc \in Undoing
    <3>1. CASE RestoreErrorMode(t)
      BY <3>1 DEF RestoreErrorMode, Undoing, TypeOK, CallsTyped, CallType
    <3>2. CASE ClearInherit(t)
      <4>1. Round(t, "clear", "cleanup") /\ call[t].pc = "clear"
        BY <3>2 DEF ClearInherit
      <4>2. call'[t].end = call[t].end
        BY <4>1, RoundFlow
      <4>3. QED
        BY <4>1, <4>2 DEF Undoing, Round
    <3>3. CASE Cleanup(t)
      BY <3>3, PlainFlow DEF Cleanup, Kept, Undoing
    <3>4. QED
      BY <1>7, <3>1, <3>2, <3>3 DEF UndoingStep
  <2>2. call'[t].pc \in Undoing \cup {"finish"}
    BY <1>7, <2>1, UndoingMoves DEF Undoing
  <2>3. \A p \in Roles : call'[t].end[p] = EndOf(t, p)' /\ EndOf(t, p) # None
                         /\ EndOf(t, p)' = EndOf(t, p)
    BY <2>1, EndsThere, EndIsSome, EndOfKept
  <2>4. \A p \in Roles : call'[t].pc \notin Before[p]
    BY <2>2 DEF Before, Roles, Streams, Undoing
  <2>5. call'[t].pc \in Starting
    BY <2>2 DEF Starting
  <2>6. QED
    BY <2>3, <2>4, <2>5 DEF EndsOK, Roles, Streams
<1>8. CASE Finish(t)
  <2>1. call'[t].pc \in {"failed", "idle"} /\ call'[t].end = [p \in Roles |-> None]
    BY <1>8 DEF Finish, TypeOK, CallsTyped, CallType
  <2>2. QED
    BY <2>1 DEF EndsOK, Starting, Redirecting, Spawning, Undoing
<1>9. CASE CallStep(t)
  <2>1. /\ call[t].pc \in InCall \cup {"failed", "idle", "release"}
        /\ call'[t].pc \in InCall \cup {"idle", "release", "freed"}
        /\ call'[t].end = call[t].end
    BY <1>9, CallMoves
  <2>2. call[t].pc \notin Starting /\ call'[t].pc \notin Starting
    BY <2>1 DEF Starting, Redirecting, Spawning, Undoing, InCall, Waiting
  <2>3. QED
    BY <2>1, <2>2 DEF EndsOK
<1>10. CASE Child(t)
  <2>1. UNCHANGED <<call, options>>
    BY <1>10, ChildMoves
  <2>2. \A p \in Roles : EndOf(t, p)' = EndOf(t, p)
    BY <2>1, EndOfKept
  <2>3. QED
    BY <2>1, <2>2 DEF EndsOK
<1>11. QED
  BY <1>5, <1>6, <1>7, <1>8, <1>9, <1>10, MoveKinds

LEMMA EndsInvariant == Spec => []\A t \in Threads : EndsOK(t)
<1>1. Init => \A t \in Threads : EndsOK(t)
  <2> SUFFICES ASSUME Init, NEW t \in Threads PROVE EndsOK(t)
    OBVIOUS
  <2>1. call[t].pc = "init" /\ call[t].end = [p \in Roles |-> None]
    BY DEF Init
  <2>2. \A p \in Roles : call[t].end[p] = None /\ call[t].pc \in Before[p]
    BY <2>1 DEF Before, Roles, Streams
  <2>3. QED
    BY <2>1, <2>2 DEF EndsOK, Starting, Redirecting, Roles, Streams
<1>2. Typed /\ (\A t \in Threads : EndsOK(t)) /\ [Next]_vars => (\A t \in Threads : EndsOK(t))'
  <2> SUFFICES ASSUME Typed, \A t \in Threads : EndsOK(t), [Next]_vars, NEW u \in Threads
               PROVE  EndsOK(u)'
    OBVIOUS
  <2>1. CASE call'[u] = call[u] /\ options'[u] = options[u]
    <3>1. \A p \in Roles : EndOf(u, p)' = EndOf(u, p)
      BY <2>1, EndOfKept
    <3>2. QED
      BY <2>1, <3>1 DEF EndsOK
  <2>2. CASE UNCHANGED vars
    BY <2>1, <2>2 DEF vars
  <2>3. CASE Next
    <3>1. PICK t \in Threads : Moves(t)
      BY <2>3, NextMoves
    <3>2. TypeOK /\ PlaceOK(t) /\ EndsOK(t)
      BY DEF Typed
    <3>3. CASE u = t
      BY <3>1, <3>2, <3>3, EndsStep
    <3>4. CASE u # t
      BY <2>1, <3>1, <3>2, <3>4, OthersUntouched DEF Untouched
    <3>5. QED
      BY <3>3, <3>4
  <2>4. QED
    BY <2>2, <2>3
<1>3. QED
  BY <1>1, <1>2, WindowsTypes, PTL DEF Spec

-----------------------------------------------------------------------------
(* The inheritance flags that process_start needs. *)

\* Who changes the inheritance flags, and how.
LEMMA InheritMoves ==
    ASSUME TypeOK, NEW t \in Threads, PlaceOK(t), Moves(t)
    PROVE  \/ inherit' = inherit
           \/ call[t].pc = "inherit" /\ inherit' = inherit \cup {HandleAt(t, call[t].i)}
           \/ call[t].pc = "clear" /\ inherit' = inherit \ {HandleAt(t, call[t].i)}
<1>1. CASE RedirectingStep(t)
  BY <1>1, RedirectingMoves
<1>2. CASE SpawningStep(t)
  BY <1>2 DEF SpawningStep, EnterProcessStart, InitOnce, PublishOnce, SpinOnce, MakeStrings,
     SetInherit, SetupAttributeList, SetErrorMode, CreateProcess, shared
<1>3. CASE UndoingStep(t)
  BY <1>3 DEF UndoingStep, RestoreErrorMode, ClearInherit, Cleanup, Finish
<1>4. CASE CallStep(t)
  BY <1>4, CallMoves
<1>5. CASE Child(t)
  BY <1>5, ChildMoves DEF shared
<1>6. QED
  BY <1>1, <1>2, <1>3, <1>4, <1>5, MoveKinds

LEMMA HandleAtKept ==
    ASSUME NEW t, NEW j, call'[t].end = call[t].end
    PROVE  HandleAt(t, j)' = HandleAt(t, j) /\ NumHandles(t)' = NumHandles(t)
  BY DEF HandleAt, NumHandles

RoleAt == [j \in 1..4 |-> IF j = 1 THEN "exit" ELSE IF j = 2 THEN "in" ELSE IF j = 3 THEN "out" ELSE "err"]

\* A handle of the list is the end of some role.
LEMMA HandleAtIs ==
    ASSUME NEW t \in Threads, EndsOK(t), call[t].pc \in Spawning \cup Undoing,
           NEW j \in 1..NumHandles(t)
    PROVE  RoleAt[j] \in Roles /\ HandleAt(t, j) = EndOf(t, RoleAt[j])
<1>1. j \in 1..4
  BY DEF NumHandles
<1>2. RoleAt[j] \in Roles
  BY <1>1 DEF RoleAt, Roles, Streams
<1>3. HandleAt(t, j) = call[t].end[RoleAt[j]]
  BY <1>1 DEF HandleAt, RoleAt
<1>4. QED
  BY <1>2, <1>3, EndsThere

LEMMA EndOwner ==
    ASSUME NEW t \in Threads, NEW p \in Roles
    PROVE  EndOf(t, p)[1] \in {t, "app"} /\ EndMade(t, p)[1] \in {t, "app"}
  BY DEF EndOf, EndMade, Theirs, Read, Write, Std, File

LEMMA FlagsStep ==
    ASSUME TypeOK, NEW t \in Threads, PlaceOK(t), FlagsOK(t), Moves(t),
           call'[t].pc \in {"inherit", "attributes", "mode", "create"}
    PROVE  FlagsOK(t)'
<1>1. CASE SetInherit(t)
  <2>1. call[t].pc = "inherit" /\ overlap' = overlap
    BY <1>1 DEF SetInherit, Round, history
  <2>2. inherit' = inherit \cup {HandleAt(t, call[t].i)} /\ Round(t, "inherit", "attributes")
    <3>1. CASE \E r : call' = [call EXCEPT ![t].pc = "clear", ![t].r = r, ![t].i = 1]
      <4>1. call'[t].pc = "clear"
        BY <3>1 DEF TypeOK, CallsTyped, CallType
      <4>2. QED
        BY <4>1
    <3>2. QED
      BY <1>1, <3>1 DEF SetInherit
  <2>3. /\ call'[t].op = call[t].op /\ call'[t].r = call[t].r
        /\ call'[t].end = call[t].end /\ options' = options
        /\ \/ call[t].i = NumHandles(t) /\ call'[t].pc = "attributes" /\ call'[t].i = 1
           \/ /\ call[t].i # NumHandles(t) /\ call'[t].pc = "inherit" /\ call'[t].i = call[t].i + 1
              /\ call'[t].i \in 1..NumHandles(t)
        /\ NumHandles(t)' = NumHandles(t)
    BY <2>1, <2>2, RoundFlow
  <2>4. call[t].i \in Nat \ {0}
    BY DEF TypeOK, CallsTyped, CallType
  <2>5. Flagged(t) = call[t].i - 1 /\ Flagged(t)' = call[t].i
    BY <2>1, <2>3, <2>4 DEF Flagged
  <2>6. ASSUME NEW j \in 1..call[t].i
        PROVE  HandleAt(t, j)' \in inherit' \/ (overlap'[t] /\ HandleAt(t, j)'[1] = "app")
    <3>1. HandleAt(t, j)' = HandleAt(t, j)
      BY <2>3, HandleAtKept
    <3>2. CASE j = call[t].i
      <4>1. HandleAt(t, j) = HandleAt(t, call[t].i)
        BY <3>2 DEF HandleAt
      <4>2. QED
        BY <2>2, <3>1, <4>1
    <3>3. CASE j # call[t].i
      <4>1. j \in 1..Flagged(t)
        BY <2>4, <2>5, <2>6, <3>3
      <4>2. HandleAt(t, j) \in inherit \/ (overlap[t] /\ HandleAt(t, j)[1] = "app")
        BY <2>1, <4>1 DEF FlagsOK
      <4>3. QED
        BY <2>1, <2>2, <3>1, <4>2
    <3>4. QED
      BY <3>2, <3>3
  <2>7. QED
    BY <2>5, <2>6 DEF FlagsOK
<1>2. CASE MakeStrings(t)
  <2>1. call'[t].pc = "inherit"
    <3>1. \/ Failed(t, "strings", "clear") \/ Failed(t, "env", "clear")
          \/ FailedWith(t, "env", 0, "clear") \/ Goto(t, "env", 0) \/ Goto(t, "inherit", 0)
      BY <1>2 DEF MakeStrings
    <3>2. QED
      BY <3>1, FailsFlow, FailedFlow, GotoFlow
  <2>2. call[t].pc \in Starting \ {"inherit", "clear"} /\ call'[t].i = call[t].i
    BY <1>2, PlainFlow DEF Kept
  <2>3. call[t].i = 1
    BY <2>2 DEF PlaceOK
  <2>4. Flagged(t)' = 0
    BY <2>1, <2>2, <2>3 DEF Flagged
  <2>5. QED
    BY <2>4 DEF FlagsOK
<1>3. CASE SetupAttributeList(t) \/ SetErrorMode(t)
  <2>1. call[t].pc \in {"attributes", "mode"} /\ UNCHANGED inherit /\ overlap' = overlap
    BY <1>3 DEF SetupAttributeList, SetErrorMode, shared, history, Failed, FailedWith
  <2>2. call'[t].pc \in {"mode", "create"} /\ call'[t].end = call[t].end
    <3>1. CASE SetupAttributeList(t)
      BY <3>1, FailsFlow, FailedFlow, GotoFlow DEF SetupAttributeList
    <3>2. CASE SetErrorMode(t)
      BY <3>2 DEF SetErrorMode, TypeOK, CallsTyped, CallType
    <3>3. QED
      BY <1>3, <3>1, <3>2
  <2>3. Flagged(t)' = Flagged(t)
    BY <2>1, <2>2 DEF Flagged, NumHandles
  <2>4. \A j \in 1..Flagged(t) : HandleAt(t, j)' = HandleAt(t, j)
    BY <2>2, HandleAtKept
  <2>5. QED
    BY <2>1, <2>3, <2>4 DEF FlagsOK
<1>4. CASE EnterProcessStart(t) \/ InitOnce(t) \/ PublishOnce(t) \/ SpinOnce(t)
  <2>1. call'[t].pc \in {"finish", "initialize", "published", "spin", "strings"}
    <3>1. CASE EnterProcessStart(t)
      <4>1. \/ FailedWith(t, "once", ERROR_CALL_NOT_IMPLEMENTED, "finish")
            \/ FailedWith(t, "once", ERROR_NOT_ENOUGH_SERVER_MEMORY, "finish")
            \/ Goto(t, "initialize", 0) \/ Goto(t, "spin", 0)
        BY <3>1 DEF EnterProcessStart
      <4>2. QED
        BY <4>1, FailedFlow, GotoFlow
           DEF ERROR_CALL_NOT_IMPLEMENTED, ERROR_NOT_ENOUGH_SERVER_MEMORY
    <3>2. CASE InitOnce(t) \/ PublishOnce(t) \/ SpinOnce(t)
      BY <3>2, GotoFlow DEF InitOnce, PublishOnce, SpinOnce
    <3>3. QED
      BY <1>4, <3>1, <3>2
  <2>2. QED
    BY <2>1
<1>5. CASE CreateProcess(t)
  <2>1. call'[t].pc = "restore"
    BY <1>5, FailsFlow, FailedFlow, GotoFlow DEF CreateProcess, ERROR_INVALID_PARAMETER
  <2>2. QED
    BY <2>1
<1>6. CASE RedirectingStep(t)
  <2>1. call'[t].pc \in Redirecting \cup {"finish", "failed"}
    BY <1>6, RedirectingMoves
  <2>2. QED
    BY <2>1 DEF Redirecting
<1>7. CASE UndoingStep(t)
  <2>1. call'[t].pc \in {"clear", "cleanup", "finish", "failed", "idle"}
    BY <1>7, UndoingMoves
  <2>2. QED
    BY <2>1
<1>8. CASE CallStep(t)
  <2>1. call'[t].pc \in InCall \cup {"idle", "release", "freed"}
    BY <1>8, CallMoves
  <2>2. QED
    BY <2>1 DEF InCall, Waiting
<1>9. CASE Child(t)
  <2>1. UNCHANGED <<call, inherit, overlap>>
    BY <1>9, ChildMoves DEF shared, history
  <2>2. Flagged(t)' = Flagged(t)
    BY <2>1 DEF Flagged, NumHandles
  <2>3. \A j \in 1..Flagged(t) : HandleAt(t, j)' = HandleAt(t, j)
    BY <2>1, HandleAtKept
  <2>4. QED
    BY <2>1, <2>2, <2>3 DEF FlagsOK
<1>10. QED
  BY <1>1, <1>2, <1>3, <1>4, <1>5, <1>6, <1>7, <1>8, <1>9, MoveKinds DEF SpawningStep

\* What another thread does to the flags leaves those of thread u set.
LEMMA FlagsFrame ==
    ASSUME TypeOK, NEW t \in Threads, NEW u \in Threads \ {t}, PlaceOK(t), PlaceOK(u),
           EndsOK(t), EndsOK(u), Exclusive, FlagsOK(u), Moves(t)
    PROVE  FlagsOK(u)'
<1>1. call'[u] = call[u] /\ (overlap[u] => overlap'[u])
  BY OthersUntouched DEF Untouched
<1>2. SUFFICES ASSUME call[u].pc \in {"inherit", "attributes", "mode", "create"},
                      NEW j \in 1..Flagged(u)
               PROVE  HandleAt(u, j) \in inherit' \/ (overlap'[u] /\ HandleAt(u, j)[1] = "app")
  <2>1. Flagged(u)' = Flagged(u)
    BY <1>1 DEF Flagged, NumHandles
  <2>2. \A j \in 1..Flagged(u) : HandleAt(u, j)' = HandleAt(u, j)
    BY <1>1, HandleAtKept
  <2>3. QED
    BY <1>1, <2>1, <2>2 DEF FlagsOK
<1>3. HandleAt(u, j) \in inherit \/ (overlap[u] /\ HandleAt(u, j)[1] = "app")
  BY <1>2 DEF FlagsOK
<1>4. CASE inherit \subseteq inherit'
  BY <1>1, <1>3, <1>4
<1>5. CASE call[t].pc = "clear" /\ inherit' = inherit \ {HandleAt(t, call[t].i)}
  <2>1. InProcessStart(t) /\ InProcessStart(u)
    BY <1>2, <1>5 DEF InProcessStart
  <2>2. overlap'[u]
    BY <1>1, <2>1 DEF Exclusive
  <2>3. j \in 1..NumHandles(u) /\ call[u].pc \in Spawning \cup Undoing
    <3>1. NumHandles(u) \in {3, 4} /\ call[u].i \in Nat
      BY ListedTypes DEF TypeOK, CallsTyped, CallType
    <3>2. call[u].pc = "inherit" => call[u].i <= NumHandles(u)
      BY IndexRange, <3>1
    <3>3. QED
      BY <1>2, <3>1, <3>2 DEF Flagged, Spawning
  <2>4. HandleAt(u, j)[1] \in {u, "app"}
    BY <2>3, HandleAtIs, EndOwner
  <2>5. PICK k \in 1..NumHandles(t) : k = call[t].i
    BY <1>5, IndexRange
  <2>6. HandleAt(t, k)[1] \in {t, "app"}
    BY <1>5, HandleAtIs, EndOwner DEF Undoing
  <2>7. HandleAt(t, call[t].i) = HandleAt(t, k)
    BY <2>5 DEF HandleAt
  <2>8. u # "app" /\ t # "app"
    BY WindowsAssumption
  <2>9. QED
    BY <1>3, <1>5, <2>2, <2>4, <2>6, <2>7, <2>8
<1>6. QED
  BY <1>4, <1>5, InheritMoves

LEMMA FlagsInvariant == Spec => []\A t \in Threads : FlagsOK(t)
<1>1. Init => \A t \in Threads : FlagsOK(t)
  BY DEF Init, FlagsOK
<1>2. Typed /\ ModeOK /\ (\A t \in Threads : EndsOK(t)) /\ (\A t \in Threads : FlagsOK(t))
        /\ [Next]_vars => (\A t \in Threads : FlagsOK(t))'
  <2> SUFFICES ASSUME Typed, ModeOK, \A t \in Threads : EndsOK(t), \A t \in Threads : FlagsOK(t),
                      [Next]_vars, NEW u \in Threads
               PROVE  FlagsOK(u)'
    OBVIOUS
  <2>1. CASE UNCHANGED vars
    <3>1. UNCHANGED <<call, inherit, overlap>>
      BY <2>1 DEF vars, shared, history
    <3>2. Flagged(u)' = Flagged(u)
      BY <3>1 DEF Flagged, NumHandles
    <3>3. \A j \in 1..Flagged(u) : HandleAt(u, j)' = HandleAt(u, j)
      BY <3>1, HandleAtKept
    <3>4. QED
      BY <3>1, <3>2, <3>3 DEF FlagsOK
  <2>2. CASE Next
    <3>1. PICK t \in Threads : Moves(t)
      BY <2>2, NextMoves
    <3>2. TypeOK /\ Exclusive /\ PlaceOK(t) /\ PlaceOK(u) /\ EndsOK(t) /\ EndsOK(u)
      BY DEF Typed, ModeOK
    <3>3. CASE u = t
      <4>1. CASE call'[t].pc \in {"inherit", "attributes", "mode", "create"}
        BY <3>1, <3>2, <3>3, <4>1, FlagsStep
      <4>2. CASE call'[t].pc \notin {"inherit", "attributes", "mode", "create"}
        BY <3>3, <4>2 DEF FlagsOK
      <4>3. QED
        BY <4>1, <4>2
    <3>4. CASE u # t
      BY <3>1, <3>2, <3>4, FlagsFrame
    <3>5. QED
      BY <3>3, <3>4
  <2>3. QED
    BY <2>1, <2>2
<1>3. QED
  BY <1>1, <1>2, WindowsTypes, ModeInvariant, EndsInvariant, PTL DEF Spec

-----------------------------------------------------------------------------
(* The result of reproc_start. *)

\* CreateProcess refuses the list only if another start has cleared the flag of a
\* standard handle.
LEMMA RaceIsTrue ==
    ASSUME TypeOK, NEW t \in Threads, PlaceOK(t), EndsOK(t), FlagsOK(t),
           call[t].pc = "create", ~(Listed(t) \subseteq inherit)
    PROVE  overlap[t] /\ options[t].std /\ \E s \in Streams : options[t][s] = "parent"
<1>1. PICK j \in 1..NumHandles(t) : HandleAt(t, j) \notin inherit
  BY DEF Listed
<1>2. overlap[t] /\ HandleAt(t, j)[1] = "app"
  BY <1>1 DEF FlagsOK, Flagged
<1>3. RoleAt[j] \in Roles /\ HandleAt(t, j) = EndOf(t, RoleAt[j])
  BY HandleAtIs DEF Spawning
<1>4. ASSUME NEW p \in Roles, EndMade(t, p)[1] = "app"
      PROVE  p # "exit" /\ options[t][p] = "parent" /\ options[t].std
  <2>1. t # "app"
    BY WindowsAssumption
  <2>2. QED
    BY <1>4, <2>1 DEF EndMade, Theirs, Read, Write, File
<1>5. \E p \in Roles : EndMade(t, p)[1] = "app"
  BY <1>2, <1>3 DEF EndOf, Roles, Streams
<1>6. QED
  BY <1>2, <1>4, <1>5 DEF Roles

LEMMA StartSpawns ==
    ASSUME TypeOK, NEW t \in Threads, PlaceOK(t), EndsOK(t), FlagsOK(t), OnceAt(t),
           SpawningStep(t), fault[t].step = "none", fault[t].errno = 0, child[t].state = "none"
    PROVE  \/ /\ fault'[t].step = "none" /\ fault'[t].errno = 0 /\ child'[t].state = "none"
              /\ call'[t].pc \in Spawning
           \/ call'[t].pc \in Undoing \cup {"finish"} /\ Outcome(t)'
<1>1. ASSUME NEW step, step # "race", NEW where, Failed(t, step, where), child' = child
      PROVE  Outcome(t)' /\ call'[t].pc = where
  BY <1>1, FailsFlow DEF Outcome, RaceTrue
<1>2. ASSUME NEW step, step # "race", NEW where, NEW e \in Nat \ {0},
             FailedWith(t, step, e, where), child' = child
      PROVE  Outcome(t)' /\ call'[t].pc = where
  BY <1>2, FailedFlow DEF Outcome, RaceTrue
<1>3. ASSUME NEW where, NEW r, Goto(t, where, r), fault' = fault, child' = child
      PROVE  /\ fault'[t].step = "none" /\ fault'[t].errno = 0 /\ child'[t].state = "none"
             /\ call'[t].pc = where
  BY <1>3, GotoFlow
<1>4. CASE EnterProcessStart(t)
  <2>1. ERROR_CALL_NOT_IMPLEMENTED \in Nat \ {0} /\ ERROR_NOT_ENOUGH_SERVER_MEMORY \in Nat \ {0}
    BY DEF ERROR_CALL_NOT_IMPLEMENTED, ERROR_NOT_ENOUGH_SERVER_MEMORY
  <2>2. child' = child /\ \/ FailedWith(t, "once", ERROR_CALL_NOT_IMPLEMENTED, "finish")
                          \/ FailedWith(t, "once", ERROR_NOT_ENOUGH_SERVER_MEMORY, "finish")
                          \/ fault' = fault /\ Goto(t, "initialize", 0)
                          \/ fault' = fault /\ Goto(t, "spin", 0)
    BY <1>4 DEF EnterProcessStart
  <2>3. QED
    BY <1>2, <1>3, <2>1, <2>2 DEF Spawning
<1>5. CASE InitOnce(t) \/ PublishOnce(t) \/ SpinOnce(t)
  BY <1>3, <1>5 DEF InitOnce, PublishOnce, SpinOnce, Spawning, history
<1>6. CASE MakeStrings(t)
  <2>1. CASE FailedWith(t, "env", 0, "clear")
    <3>1. 0 \in Nat
      OBVIOUS
    <3>2. call'[t].pc = "clear" /\ call'[t].r = -0 /\ fault'[t].step = "env" /\ fault'[t].errno = 0
      BY <2>1, <3>1, FailedFlow
    <3>3. QED
      BY <3>2 DEF Outcome, Undoing
  <2>2. child' = child /\ \/ Failed(t, "strings", "clear") \/ Failed(t, "env", "clear")
                          \/ FailedWith(t, "env", 0, "clear")
                          \/ fault' = fault /\ Goto(t, "env", 0)
                          \/ fault' = fault /\ Goto(t, "inherit", 0)
    BY <1>6 DEF MakeStrings, history
  <2>3. QED
    BY <1>1, <1>3, <2>1, <2>2 DEF Spawning, Undoing
<1>7. CASE SetInherit(t)
  <2>1. child' = child /\ call[t].pc = "inherit"
    BY <1>7 DEF SetInherit
  <2>2. CASE Round(t, "inherit", "attributes")
    <3>1. call'[t].pc \in {"inherit", "attributes"}
      BY <2>1, <2>2, RoundFlow
    <3>2. fault' = fault
      BY <2>2 DEF Round, history
    <3>3. QED
      BY <2>1, <3>1, <3>2 DEF Spawning
  <2>3. CASE \E e \in Errnos :
                /\ fault' = [fault EXCEPT ![t] = [step |-> "inherit", errno |-> e]]
                /\ call' = [call EXCEPT ![t].pc = "clear", ![t].r = -e, ![t].i = 1]
    <3>1. PICK e \in Errnos :
                /\ fault' = [fault EXCEPT ![t] = [step |-> "inherit", errno |-> e]]
                /\ call' = [call EXCEPT ![t].pc = "clear", ![t].r = -e, ![t].i = 1]
      BY <2>3
    <3>2. e \in Nat \ {0}
      BY WindowsAssumption
    <3>3. fault'[t].step = "inherit" /\ fault'[t].errno = e
      BY <3>1 DEF TypeOK, CallsTyped
    <3>4. PICK r \in Int : r = -e
      BY <3>2
    <3>5. call' = [call EXCEPT ![t].pc = "clear", ![t].r = r, ![t].i = 1]
      BY <3>1, <3>4
    <3>6. call'[t].pc = "clear" /\ call'[t].r = r
      BY <3>5 DEF TypeOK, CallsTyped, CallType
    <3>7. r < 0
      BY <3>2, <3>4
    <3>8. QED
      BY <2>1, <3>3, <3>4, <3>6, <3>7 DEF Outcome, RaceTrue, Undoing
  <2>4. QED
    BY <1>7, <2>2, <2>3 DEF SetInherit
<1>8. CASE SetupAttributeList(t)
  <2>1. ready
    BY <1>8 DEF SetupAttributeList, OnceAt
  <2>2. child' = child /\ \/ Failed(t, "attributes", "clear")
                          \/ fault' = fault /\ Goto(t, "mode", 0)
    BY <1>8, <2>1 DEF SetupAttributeList, history
  <2>3. QED
    BY <1>1, <1>3, <2>2 DEF Spawning, Undoing
<1>9. CASE SetErrorMode(t)
  <2>1. child' = child /\ fault' = fault /\ call'[t].pc = "create"
    BY <1>9 DEF SetErrorMode, history, TypeOK, CallsTyped, CallType
  <2>2. QED
    BY <2>1 DEF Spawning
<1>10. CASE CreateProcess(t)
  <2>1. call[t].pc = "create"
    BY <1>10 DEF CreateProcess
  <2>2. CASE Failed(t, "create", "restore") /\ child' = child
    BY <1>1, <2>2 DEF Undoing
  <2>3. CASE /\ ~(Listed(t) \subseteq inherit) /\ child' = child
             /\ FailedWith(t, "race", ERROR_INVALID_PARAMETER, "restore")
    <3>1. overlap[t] /\ options[t].std /\ \E s \in Streams : options[t][s] = "parent"
      BY <2>1, <2>3, RaceIsTrue
    <3>2. ERROR_INVALID_PARAMETER \in Nat /\ -ERROR_INVALID_PARAMETER < 0
      BY DEF ERROR_INVALID_PARAMETER
    <3>3. /\ call'[t].pc = "restore" /\ call'[t].r = -ERROR_INVALID_PARAMETER
          /\ fault'[t].errno = ERROR_INVALID_PARAMETER /\ overlap' = overlap
          /\ options' = options
      BY <2>3, <3>2, FailedFlow DEF Kept
    <3>4. RaceTrue(t)'
      BY <3>1, <3>3 DEF RaceTrue
    <3>5. QED
      BY <2>3, <3>2, <3>3, <3>4 DEF Outcome, Undoing
  <2>4. CASE /\ child' = [child EXCEPT ![t] = [@ EXCEPT !.state = "running", !.mode = errorMode,
                                                     !.inherits = Listed(t)]]
             /\ Goto(t, "restore", 0) /\ UNCHANGED history
    <3>1. child'[t].state = "running"
      BY <2>4 DEF TypeOK, ChildType
    <3>2. call'[t].pc = "restore" /\ call'[t].r = 0 /\ fault' = fault
      BY <2>4, GotoFlow DEF history
    <3>3. QED
      BY <3>1, <3>2 DEF Outcome, Undoing
  <2>5. QED
    BY <1>10, <2>2, <2>3, <2>4 DEF CreateProcess
<1>11. QED
  BY <1>4, <1>5, <1>6, <1>7, <1>8, <1>9, <1>10 DEF SpawningStep

LEMMA StartUndoes ==
    ASSUME TypeOK, NEW t \in Threads, PlaceOK(t), UndoingStep(t), Outcome(t)
    PROVE  \/ call'[t].pc \in Undoing \cup {"finish"} /\ Outcome(t)'
           \/ /\ call'[t].pc = "failed" /\ call'[t].r = -fault'[t].errno
              /\ child'[t].state = "none" /\ RaceTrue(t)'
           \/ /\ call'[t].pc = "idle" /\ fault'[t].errno = 0
              /\ fault'[t].step # "env" => child'[t].state # "none"
<1>1. /\ UNCHANGED <<child, options, history>>
      /\ call'[t].pc \in {"clear", "cleanup", "finish", "failed", "idle"}
      /\ call[t].pc = "finish" <=> call'[t].pc \in {"failed", "idle"}
  BY UndoingMoves
<1>2. RaceTrue(t) => RaceTrue(t)'
  BY <1>1 DEF RaceTrue, history
<1>3. call[t].r \in Int
  BY DEF TypeOK, CallsTyped, CallType
<1>4. CASE Finish(t)
  <2>1. call'[t].pc = (IF call[t].r < 0 THEN "failed" ELSE "idle") /\ call'[t].r = call[t].r
    BY <1>4 DEF Finish, TypeOK, CallsTyped, CallType
  <2>2. QED
    BY <1>1, <1>2, <1>3, <2>1 DEF Outcome, history
<1>5. CASE ~Finish(t)
  <2>1. call'[t].r = call[t].r \/ (call[t].r >= 0 /\ call'[t].r = 1)
    <3>1. CASE RestoreErrorMode(t)
      BY <3>1 DEF RestoreErrorMode, TypeOK, CallsTyped, CallType
    <3>2. CASE ClearInherit(t)
      <4>1. call[t].pc = "clear" /\ Round(t, "clear", "cleanup")
        BY <3>2 DEF ClearInherit
      <4>2. QED
        BY <4>1, RoundFlow
    <3>3. CASE Cleanup(t)
      <4>1. Goto(t, "finish", IF call[t].r < 0 THEN call[t].r ELSE 1)
        BY <3>3 DEF Cleanup
      <4>2. QED
        BY <1>3, <4>1, GotoFlow
    <3>4. QED
      BY <1>5, <3>1, <3>2, <3>3 DEF UndoingStep
  <2>2. call'[t].pc \in Undoing \cup {"finish"}
    <3>1. call[t].pc # "finish"
      BY <1>5 DEF UndoingStep, RestoreErrorMode, ClearInherit, Cleanup
    <3>2. QED
      BY <1>1, <3>1 DEF Undoing
  <2>3. QED
    BY <1>1, <1>2, <1>3, <2>1, <2>2 DEF Outcome, history
<1>6. QED
  BY <1>4, <1>5

\* Calls neither create children nor make them vanish.
LEMMA CallChild ==
    ASSUME TypeOK, NEW t \in Threads, CallStep(t)
    PROVE  child'[t].state = "none" <=> child[t].state = "none"
<1>1. CASE Stop(t) \/ Poll(t) \/ Release(t) \/ Begin(t)
  BY <1>1 DEF Stop, Poll, Release, Begin, CallWait, CallDestroy, CallSignal
<1>2. CASE TerminateProcess(t)
  BY <1>2, TerminateProcessEffect
<1>3. CASE Signal(t)
  <2>1. CASE Terminate(t)
    BY <2>1 DEF Terminate, TypeOK, ChildType
  <2>2. QED
    BY <1>2, <1>3, <2>1 DEF Signal
<1>4. CASE ProcessWait(t)
  BY <1>2, <1>4 DEF ProcessWait
<1>5. QED
  BY <1>1, <1>3, <1>4 DEF CallStep

LEMMA StartStep ==
    ASSUME TypeOK, NEW t \in Threads, PlaceOK(t), EndsOK(t), FlagsOK(t), OnceAt(t),
           StatusOK(t), StartOK(t), Moves(t)
    PROVE  StartOK(t)'
<1> USE DEF Redirecting, Spawning, Undoing, InCall, Waiting
<1>1. CASE RedirectingStep(t)
  <2>1. /\ call[t].pc \in Redirecting \ {"once"}
        /\ call'[t].pc \in (Redirecting \ {"init"}) \cup {"finish", "failed"}
        /\ child' = child
        /\ \/ /\ call'[t].pc \in {"finish", "failed"} /\ call'[t].r < 0
              /\ call'[t].r = -fault'[t].errno /\ fault'[t].step # "race"
           \/ call'[t].pc \notin {"finish", "failed"} /\ call'[t].r = 0 /\ fault'[t] = fault[t]
    BY <1>1, RedirectingMoves
  <2>2. fault[t].step = "none" /\ fault[t].errno = 0 /\ child[t].state = "none"
    BY <2>1 DEF StartOK
  <2>3. QED
    BY <2>1, <2>2 DEF StartOK, Outcome, RaceTrue
<1>2. CASE SpawningStep(t)
  <2>1. call[t].pc \in Spawning \cup {"once"}
    BY <1>2, SpawningMoves
  <2>2. fault[t].step = "none" /\ fault[t].errno = 0 /\ child[t].state = "none"
    BY <2>1 DEF StartOK
  <2>3. QED
    BY <1>2, <2>2, StartSpawns DEF StartOK
<1>3. CASE UndoingStep(t)
  <2>1. call[t].pc \in Undoing \cup {"finish"}
    BY <1>3, UndoingMoves
  <2>2. Outcome(t)
    BY <2>1 DEF StartOK
  <2>3. QED
    BY <1>3, <2>2, StartUndoes DEF StartOK
<1>4. CASE CallStep(t)
  <2>1. /\ call'[t].pc \in InCall \cup {"idle", "release", "freed"}
        /\ UNCHANGED history
    BY <1>4, CallMoves
  <2>2. CASE call'[t].pc \in InCall \cup {"idle"}
    <3>1. call[t].pc \in InCall \cup {"idle"}
      BY <1>4, <2>2, CallStays
    <3>2. fault[t].errno = 0 /\ (fault[t].step # "env" => child[t].state # "none")
      BY <3>1 DEF StartOK
    <3>3. QED
      BY <1>4, <2>1, <3>2, CallChild DEF StartOK, history
  <2>3. CASE call'[t].pc \in {"release", "freed"}
    BY <2>3 DEF StartOK
  <2>4. QED
    BY <2>1, <2>2, <2>3
<1>5. CASE Child(t)
  <2>1. /\ UNCHANGED <<call, options, history>>
        /\ child[t].state # "none" /\ child'[t].state # "none"
    BY <1>5, ChildMoves
  <2>2. QED
    BY <2>1 DEF StartOK, Outcome, history
<1>6. QED
  BY <1>1, <1>2, <1>3, <1>4, <1>5, MoveKinds

LEMMA StartInvariant == Spec => []\A t \in Threads : StartOK(t)
<1>1. Init => \A t \in Threads : StartOK(t)
  BY DEF Init, StartOK, Undoing, InCall, Waiting
<1>2. /\ Typed /\ OnceOK /\ (\A t \in Threads : EndsOK(t)) /\ (\A t \in Threads : FlagsOK(t))
      /\ (\A t \in Threads : StatusOK(t)) /\ (\A t \in Threads : StartOK(t)) /\ [Next]_vars
      => (\A t \in Threads : StartOK(t))'
  <2> SUFFICES ASSUME Typed, OnceOK, \A t \in Threads : EndsOK(t), \A t \in Threads : FlagsOK(t),
                      \A t \in Threads : StatusOK(t), \A t \in Threads : StartOK(t),
                      [Next]_vars, NEW u \in Threads
               PROVE  StartOK(u)'
    OBVIOUS
  <2>1. CASE UNCHANGED vars
    BY <2>1 DEF vars, history, StartOK, Outcome, RaceTrue
  <2>2. CASE Next
    <3>1. PICK t \in Threads : Moves(t)
      BY <2>2, NextMoves
    <3>2. /\ TypeOK /\ PlaceOK(t) /\ OnceAt(t) /\ EndsOK(t) /\ FlagsOK(t) /\ StatusOK(t)
          /\ StartOK(t)
      BY DEF Typed, OnceOK
    <3>3. CASE u = t
      BY <3>1, <3>2, <3>3, StartStep
    <3>4. CASE u # t
      <4>1. Untouched(u) /\ overlap[u] \in BOOLEAN
        BY <3>1, <3>2, <3>4, OthersUntouched DEF TypeOK, CallsTyped
      <4>2. RaceTrue(u) => RaceTrue(u)'
        BY <4>1 DEF Untouched, RaceTrue
      <4>3. Outcome(u) => Outcome(u)'
        BY <4>1, <4>2 DEF Untouched, Outcome
      <4>4. QED
        BY <4>1, <4>2, <4>3 DEF Untouched, StartOK
    <3>5. QED
      BY <3>3, <3>4
  <2>3. QED
    BY <2>1, <2>2
<1>3. QED
  BY <1>1, <1>2, WindowsTypes, OnceInvariant, EndsInvariant, FlagsInvariant, StatusInvariant, PTL
     DEF Spec

\* reproc_start returns the error of the step that failed and leaves no child, or
\* there is a child, whatever failed; the exceptions are env_concat, which fails
\* without an error, and starts that share the standard handles.
THEOREM StartIsTrue == Spec => []StartTrue
<1>1. (\A t \in Threads : StartOK(t)) => StartTrue
  BY DEF StartOK, StartTrue, Started, RaceTrue, InCall
<1>2. QED
  BY <1>1, StartInvariant, PTL

-----------------------------------------------------------------------------
(* reproc_destroy and the child. *)

LEMMA StopKillsLast ==
    StopActions[1] = "wait" /\ StopActions[2] = "terminate" /\ StopActions[3] = "kill"
  BY DEF StopActions

LEMMA AfterWaitFlow ==
    ASSUME TypeOK, NEW t \in Threads, NEW r, AfterWait(t, r)
    PROVE  /\ call'[t].r = r /\ call'[t].op = call[t].op
           /\ call'[t].i = IF call[t].op = "destroy" THEN call[t].i + 1 ELSE call[t].i
           /\ call'[t].pc = IF call[t].op = "wait" THEN "idle"
                            ELSE IF r = REPROC_ETIMEDOUT THEN "stop" ELSE "release"
  BY DEF AfterWait, TypeOK, CallsTyped, CallType

LEMMA AfterSignalFlow ==
    ASSUME TypeOK, NEW t \in Threads, NEW r, AfterSignal(t, r)
    PROVE  /\ call'[t].r = r /\ call'[t].op = call[t].op /\ call'[t].i = call[t].i
           /\ call'[t].pc = IF call[t].op # "destroy" THEN "idle"
                            ELSE IF r < 0 THEN "release" ELSE "poll"
  BY DEF AfterSignal, TypeOK, CallsTyped, CallType

\* reproc_stop is left with the error of a signal that has failed, or goes on to wait.
LEMMA DestroySignal ==
    ASSUME WAIT_TIMEOUT \notin Errnos, TypeOK, NEW t \in Threads, PlaceOK(t), DestroyOK(t),
           Signal(t), child'[t].state = "running"
    PROVE  DestroyOK(t)'
<1>1. call[t].pc = "signal"
  BY DEF Signal
<1>2. child[t].state = "running"
  <2>1. CASE TerminateProcess(t)
    BY <2>1, TerminateProcessEffect
  <2>2. CASE Terminate(t)
    BY <2>2 DEF Terminate, TypeOK, ChildType
  <2>3. QED
    BY <2>1, <2>2 DEF Signal
<1>3. ~TerminateProcess(t)
  BY <1>2, TerminateProcessEffect
<1>4. Terminate(t)
  BY <1>3 DEF Signal
<1>5. \/ Fails(t, "console") /\ \E e \in Errnos : AfterSignal(t, -e)
      \/ AfterSignal(t, 0)
  BY <1>2, <1>4 DEF Terminate
<1>6. CASE call[t].op # "destroy"
  <2>1. PICK r : AfterSignal(t, r)
    BY <1>5
  <2>2. call'[t].pc = "idle"
    BY <1>6, <2>1, AfterSignalFlow
  <2>3. QED
    BY <2>2 DEF DestroyOK, Waiting
<1>7. CASE call[t].op = "destroy"
  <2>1. call[t].i = 2
    <3>1. call[t].i \in {2, 3}
      BY <1>1, <1>2, <1>7 DEF DestroyOK
    <3>2. call[t].i # 3
      BY <1>3, <1>7, StopKillsLast DEF Signal
    <3>3. QED
      BY <3>1, <3>2
  <2>2. CASE AfterSignal(t, 0)
    <3>1. call'[t].pc = "poll" /\ call'[t].i = 2
      <4>1. PICK r \in Int : r = 0 /\ AfterSignal(t, r)
        BY <2>2
      <4>2. QED
        BY <1>7, <2>1, <4>1, AfterSignalFlow
    <3>2. QED
      BY <3>1 DEF DestroyOK
  <2>3. CASE Fails(t, "console") /\ \E e \in Errnos : AfterSignal(t, -e)
    <3>1. PICK e \in Errnos : AfterSignal(t, -e)
      BY <2>3
    <3>2. -e \in Int /\ -e < 0 /\ -e # REPROC_ETIMEDOUT
      BY WindowsAssumption DEF REPROC_ETIMEDOUT, WAIT_TIMEOUT
    <3>3. PICK r \in Int : r = -e
      BY <3>2
    <3>4. call'[t].pc = "release" /\ call'[t].r = r
      BY <1>7, <3>1, <3>2, <3>3, AfterSignalFlow
    <3>5. QED
      BY <2>3, <3>2, <3>3, <3>4 DEF DestroyOK, Fails, Waiting
  <2>4. QED
    BY <1>5, <2>2, <2>3
<1>8. QED
  BY <1>6, <1>7

\* A wait that leaves the child running has timed out on the exit pipe, or has failed.
LEMMA DestroyWait ==
    ASSUME WAIT_TIMEOUT \notin Errnos, TypeOK, NEW t \in Threads, PlaceOK(t), DestroyOK(t),
           Poll(t) \/ ProcessWait(t), child'[t].state = "running"
    PROVE  DestroyOK(t)'
<1>1. child[t].state = "running"
  <2>1. CASE Poll(t)
    BY <2>1 DEF Poll
  <2>2. CASE ProcessWait(t)
    BY <2>2, TerminateProcessEffect DEF ProcessWait
  <2>3. QED
    BY <2>1, <2>2
<1>2. call[t].pc \in Waiting /\ call[t].op \in {"wait", "destroy"} /\ call[t].i \in Nat \ {0}
  BY DEF Poll, ProcessWait, Waiting, PlaceOK, TypeOK, CallsTyped, CallType
<1>3. call[t].op = "destroy" => call[t].i <= 2
  BY <1>1, <1>2 DEF DestroyOK
<1>4. ASSUME NEW r \in Int, AfterWait(t, r),
             r = REPROC_ETIMEDOUT \/ (r < 0 /\ (Fails(t, "console") \/ Fails(t, "wait")))
      PROVE  DestroyOK(t)'
  <2>1. CASE call[t].op = "wait"
    BY <1>4, <2>1, AfterWaitFlow DEF DestroyOK, Waiting
  <2>2. CASE call[t].op = "destroy" /\ r = REPROC_ETIMEDOUT
    <3>1. call'[t].pc = "stop" /\ call'[t].i = call[t].i + 1
      BY <1>4, <2>2, AfterWaitFlow
    <3>2. QED
      BY <1>2, <1>3, <2>2, <3>1 DEF DestroyOK, Waiting
  <2>3. CASE call[t].op = "destroy" /\ r # REPROC_ETIMEDOUT
    <3>1. call'[t].pc = "release" /\ call'[t].r = r
      BY <1>4, <2>3, AfterWaitFlow
    <3>2. QED
      BY <1>4, <2>3, <3>1 DEF DestroyOK, Waiting, Fails
  <2>4. QED
    BY <1>2, <2>1, <2>2, <2>3
<1>5. CASE call' = [call EXCEPT ![t].pc = "object"]
  <2>1. call'[t].pc = "object" /\ call'[t].i = call[t].i /\ call'[t].op = call[t].op
    BY <1>5 DEF TypeOK, CallsTyped, CallType
  <2>2. QED
    BY <1>3, <2>1 DEF DestroyOK, Waiting
<1>6. CASE Poll(t)
  <2>1. REPROC_ETIMEDOUT \in Int
    BY DEF REPROC_ETIMEDOUT, WAIT_TIMEOUT
  <2>2. QED
    BY <1>4, <1>5, <1>6, <2>1 DEF Poll
<1>7. CASE ProcessWait(t)
  <2>1. Fails(t, "wait") /\ \E e \in Errnos : Waited(t, -e)
    BY <1>1, <1>7, TerminateProcessEffect DEF ProcessWait
  <2>2. PICK e \in Errnos : Waited(t, -e)
    BY <2>1
  <2>3. -e \in Int /\ -e < 0
    BY WindowsAssumption
  <2>4. QED
    BY <1>4, <2>1, <2>2, <2>3 DEF Waited
<1>8. QED
  BY <1>6, <1>7

LEMMA DestroyStep ==
    ASSUME WAIT_TIMEOUT \notin Errnos, TypeOK, NEW t \in Threads, PlaceOK(t),
           StartOK(t), StatusOK(t), DestroyOK(t), Moves(t)
    PROVE  DestroyOK(t)'
<1> SUFFICES ASSUME child'[t].state = "running"
             PROVE  DestroyOK(t)'
  BY DEF DestroyOK
<1>1. CASE Signal(t) \/ Poll(t) \/ ProcessWait(t)
  BY <1>1, DestroySignal, DestroyWait
<1>2. CASE Stop(t)
  <2>1. /\ call[t].pc = "stop" /\ child[t].state = "running" /\ call[t].i \in Nat \ {0}
    BY <1>2 DEF Stop, TypeOK, CallsTyped, CallType
  <2>2. call[t].i \in {1, 2, 3}
    BY <2>1 DEF DestroyOK
  <2>3. /\ call'[t].i = call[t].i /\ call'[t].op = call[t].op
        /\ call'[t].pc = IF call[t].i > 3 THEN "release"
                         ELSE IF StopActions[call[t].i] = "wait" THEN "poll" ELSE "signal"
    BY <1>2 DEF Stop, TypeOK, CallsTyped, CallType
  <2>4. call'[t].pc = IF call[t].i = 1 THEN "poll" ELSE "signal"
    BY <2>2, <2>3, StopKillsLast
  <2>5. QED
    BY <2>2, <2>3, <2>4 DEF DestroyOK, Waiting
<1>3. CASE Release(t)
  <2>1. call[t].pc = "release" /\ child[t].state = "running"
    BY <1>3 DEF Release
  <2>2. call'[t].pc = "freed" /\ call'[t].r = call[t].r
    BY <1>3 DEF Release, TypeOK, CallsTyped, CallType
  <2>3. QED
    BY <2>1, <2>2 DEF DestroyOK, Waiting, Fails
<1>4. CASE CallWait(t) \/ \E op \in {"terminate", "kill"} : CallSignal(t, op)
  <2>1. call'[t].op # "destroy" /\ call'[t].pc \in {"idle", "poll", "signal"}
    <3>1. CASE CallWait(t)
      BY <3>1 DEF CallWait, TypeOK, CallsTyped, CallType
    <3>2. CASE \E op \in {"terminate", "kill"} : CallSignal(t, op)
      BY <3>2 DEF CallSignal, TypeOK, CallsTyped, CallType
    <3>3. QED
      BY <1>4, <3>1, <3>2
  <2>2. QED
    BY <2>1 DEF DestroyOK, Waiting
<1>5. CASE CallDestroy(t)
  <2>1. child[t].state = "running"
    BY <1>5 DEF CallDestroy
  <2>2. call[t].pc = "idle"
    BY <1>5, <2>1 DEF CallDestroy, StartOK
  <2>3. proc[t].status = IN_PROGRESS
    <3>1. proc[t].status # NOT_STARTED /\ ~(proc[t].status >= 0)
      BY <2>1, <2>2 DEF StatusOK
    <3>2. QED
      BY <3>1 DEF TypeOK, ProcType
  <2>4. call'[t].pc = "stop"
    BY <1>5, <2>3 DEF CallDestroy, TypeOK, CallsTyped, CallType
  <2>5. call'[t].i = 1
    <3>1. PICK one \in Nat \ {0} : one = 1
      BY OneType
    <3>2. call' = [call EXCEPT ![t].op = "destroy", ![t].i = one,
                               ![t].pc = IF proc[t].status = IN_PROGRESS THEN "stop" ELSE "release"]
      BY <1>5, <3>1 DEF CallDestroy
    <3>3. QED
      BY <3>1, <3>2 DEF TypeOK, CallsTyped, CallType
  <2>6. QED
    BY <2>4, <2>5 DEF DestroyOK, Waiting
<1>6. CASE Child(t)
  <2>1. call' = call /\ child[t].state = "running"
    BY <1>6, ChildMoves
  <2>2. QED
    BY <2>1 DEF DestroyOK, Fails
<1>7. CASE RedirectingStep(t) \/ SpawningStep(t) \/ UndoingStep(t)
  <2>1. call'[t].pc \in Starting \cup {"failed", "idle"}
    BY <1>7, RedirectingMoves, SpawningMoves, UndoingMoves DEF Starting, Undoing
  <2>2. QED
    BY <2>1 DEF DestroyOK, Starting, Redirecting, Spawning, Undoing, Waiting
<1>8. QED
  BY <1>1, <1>2, <1>3, <1>4, <1>5, <1>6, <1>7, MoveKinds DEF CallStep, Begin

\* The loop of reproc_stop never takes an error of the system for a timeout: no call
\* it makes reports WAIT_TIMEOUT as its last error.
LEMMA DestroyInvariant ==
    ASSUME WAIT_TIMEOUT \notin Errnos
    PROVE  Spec => []\A t \in Threads : DestroyOK(t)
<1>1. Init => \A t \in Threads : DestroyOK(t)
  BY DEF Init, DestroyOK
<1>2. /\ Typed /\ (\A t \in Threads : StartOK(t)) /\ (\A t \in Threads : StatusOK(t))
      /\ (\A t \in Threads : DestroyOK(t)) /\ [Next]_vars
      => (\A t \in Threads : DestroyOK(t))'
  <2> SUFFICES ASSUME Typed, \A t \in Threads : StartOK(t), \A t \in Threads : StatusOK(t),
                      \A t \in Threads : DestroyOK(t), [Next]_vars, NEW u \in Threads
               PROVE  DestroyOK(u)'
    OBVIOUS
  <2>1. CASE UNCHANGED vars
    BY <2>1 DEF vars, DestroyOK, Fails
  <2>2. CASE Next
    <3>1. PICK t \in Threads : Moves(t)
      BY <2>2, NextMoves
    <3>2. TypeOK /\ PlaceOK(t) /\ StartOK(t) /\ StatusOK(t) /\ DestroyOK(t)
      BY DEF Typed
    <3>3. CASE u = t
      BY <3>1, <3>2, <3>3, DestroyStep
    <3>4. CASE u # t
      BY <3>1, <3>2, <3>4, OthersUntouched DEF Untouched, DestroyOK, Fails
    <3>5. QED
      BY <3>3, <3>4
  <2>3. QED
    BY <2>1, <2>2
<1>3. QED
  BY <1>1, <1>2, WindowsTypes, StartInvariant, StatusInvariant, PTL DEF Spec

\* reproc_destroy leaves a running child behind only if the control event could not be
\* sent or the wait on the process failed, and then reproc_stop has returned that error.
\* The last error is never WAIT_TIMEOUT, which reproc_stop would take for a timeout.
THEOREM DestroyKills ==
    ASSUME WAIT_TIMEOUT \notin Errnos
    PROVE  Spec => []DestroyLeavesNoChild
<1>1. (\A t \in Threads : DestroyOK(t)) => DestroyLeavesNoChild
  BY DEF DestroyOK, DestroyLeavesNoChild
<1>2. QED
  BY <1>1, DestroyInvariant, PTL

-----------------------------------------------------------------------------
(* What can be inherited between calls. *)

\* A handle is made inheritable only on the list, and taken off again.
LEMMA InheritStep ==
    ASSUME TypeOK, NEW t \in Threads, PlaceOK(t), InheritOK(t), Moves(t)
    PROVE  InheritOK(t)'
<1>1. ASSUME call[t].pc \notin {"inherit", "attributes", "mode", "create", "restore", "clear"}
      PROVE  InheritOK(t)'
  <2>1. inherit' = inherit
    BY <1>1, InheritMoves
  <2>2. \A h \in inherit : h[1] # t
    BY <1>1 DEF InheritOK, Passing
  <2>3. QED
    BY <2>1, <2>2 DEF InheritOK
<1>2. ASSUME call'[t].end = call[t].end,
             \/ call'[t].pc \in {"inherit", "attributes", "mode", "create", "restore"}
             \/ call'[t].pc = "clear" /\ call'[t].i = 1
      PROVE  Passing(t)' = 1..NumHandles(t)
  BY <1>2 DEF Passing, NumHandles
<1>3. ASSUME inherit' = inherit, call'[t].end = call[t].end,
             call[t].pc \in {"inherit", "attributes", "mode", "create", "restore"},
             \/ call'[t].pc \in {"inherit", "attributes", "mode", "create", "restore"}
             \/ call'[t].pc = "clear" /\ call'[t].i = 1
      PROVE  InheritOK(t)'
  <2>1. Passing(t)' = Passing(t)
    BY <1>2, <1>3 DEF Passing
  <2>2. \A j \in Passing(t) : HandleAt(t, j)' = HandleAt(t, j)
    BY <1>3, HandleAtKept
  <2>3. QED
    BY <1>3, <2>1, <2>2 DEF InheritOK
<1>4. CASE SetInherit(t)
  <2>1. call[t].pc = "inherit"
    BY <1>4 DEF SetInherit
  <2>2. CASE \E r : call' = [call EXCEPT ![t].pc = "clear", ![t].r = r, ![t].i = 1]
             /\ inherit' = inherit
    <3>1. PICK one, r : one \in Nat \ {0} /\ one = 1 /\ inherit' = inherit
             /\ call' = [call EXCEPT ![t].pc = "clear", ![t].r = r, ![t].i = one]
      BY <2>2, OneType
    <3>2. call'[t].pc = "clear" /\ call'[t].i = 1 /\ call'[t].end = call[t].end
      BY <3>1 DEF TypeOK, CallsTyped, CallType
    <3>3. QED
      BY <1>3, <2>1, <2>2, <3>2
  <2>3. CASE inherit' = inherit \cup {HandleAt(t, call[t].i)} /\ Round(t, "inherit", "attributes")
    <3>1. call'[t].end = call[t].end /\ call'[t].pc \in {"inherit", "attributes"}
      <4>1. /\ call'[t].op = call[t].op /\ call'[t].r = call[t].r
            /\ call'[t].end = call[t].end /\ options' = options
            /\ \/ call[t].i = NumHandles(t) /\ call'[t].pc = "attributes" /\ call'[t].i = 1
               \/ /\ call[t].i # NumHandles(t) /\ call'[t].pc = "inherit"
                  /\ call'[t].i = call[t].i + 1 /\ call'[t].i \in 1..NumHandles(t)
            /\ NumHandles(t)' = NumHandles(t)
        BY <2>1, <2>3, RoundFlow
      <4>2. QED
        BY <4>1
    <3>2. Passing(t)' = 1..NumHandles(t) /\ Passing(t) = 1..NumHandles(t)
      BY <1>2, <2>1, <3>1 DEF Passing
    <3>3. \A j \in Passing(t) : HandleAt(t, j)' = HandleAt(t, j)
      BY <3>1, HandleAtKept
    <3>4. PICK k \in 1..NumHandles(t) : k = call[t].i
      BY <2>1, IndexRange
    <3>5. HandleAt(t, call[t].i) = HandleAt(t, k)
      BY <3>4 DEF HandleAt
    <3>6. QED
      BY <2>3, <3>2, <3>3, <3>5 DEF InheritOK
  <2>4. QED
    BY <1>4, <2>2, <2>3 DEF SetInherit
<1>5. CASE SetupAttributeList(t) \/ CreateProcess(t)
  <2>1. inherit' = inherit /\ call'[t].end = call[t].end /\ call'[t].i = call[t].i
    BY <1>5, PlainFlow DEF SetupAttributeList, CreateProcess, shared, Kept
  <2>2. call[t].pc \in {"attributes", "create"}
    BY <1>5 DEF SetupAttributeList, CreateProcess
  <2>3. call[t].i = 1
    BY <2>2 DEF PlaceOK, Starting, Spawning
  <2>4. call'[t].pc \in {"clear", "mode", "restore"}
    <3>1. CASE SetupAttributeList(t)
      <4>1. Failed(t, "attributes", "clear") \/ FailedWith(t, "attributes", 0, "clear")
            \/ Goto(t, "mode", 0)
        BY <3>1 DEF SetupAttributeList
      <4>2. QED
        BY <4>1, FailsFlow, FailedFlow, GotoFlow
    <3>2. CASE CreateProcess(t)
      BY <3>2, FailsFlow, FailedFlow, GotoFlow DEF CreateProcess, ERROR_INVALID_PARAMETER
    <3>3. QED
      BY <1>5, <3>1, <3>2
  <2>5. QED
    BY <1>3, <2>1, <2>2, <2>3, <2>4
<1>6. CASE SetErrorMode(t) \/ RestoreErrorMode(t)
  <2>1. call[t].pc \in {"mode", "restore"} /\ inherit' = inherit
    BY <1>6 DEF SetErrorMode, RestoreErrorMode
  <2>2. /\ call'[t].end = call[t].end /\ call'[t].i = call[t].i
        /\ call'[t].pc \in {"create", "clear"}
    BY <1>6 DEF SetErrorMode, RestoreErrorMode, TypeOK, CallsTyped, CallType
  <2>3. call[t].i = 1
    BY <2>1 DEF PlaceOK, Starting, Spawning, Undoing
  <2>4. QED
    BY <1>3, <2>1, <2>2, <2>3
<1>7. CASE ClearInherit(t)
  <2>1. /\ call[t].pc = "clear" /\ inherit' = inherit \ {HandleAt(t, call[t].i)}
        /\ Round(t, "clear", "cleanup")
    BY <1>7 DEF ClearInherit
  <2>2. /\ call'[t].op = call[t].op /\ call'[t].r = call[t].r
        /\ call'[t].end = call[t].end /\ options' = options
        /\ \/ call[t].i = NumHandles(t) /\ call'[t].pc = "cleanup" /\ call'[t].i = 1
           \/ /\ call[t].i # NumHandles(t) /\ call'[t].pc = "clear"
              /\ call'[t].i = call[t].i + 1 /\ call'[t].i \in 1..NumHandles(t)
        /\ NumHandles(t)' = NumHandles(t)
    BY <2>1, RoundFlow
  <2>3. PICK k \in 1..NumHandles(t) : k = call[t].i
    BY <2>1, IndexRange
  <2>4. HandleAt(t, call[t].i) = HandleAt(t, k)
    BY <2>3 DEF HandleAt
  <2>5. Passing(t) = k..NumHandles(t) /\ NumHandles(t) \in {3, 4}
    BY <2>1, <2>3, ListedTypes DEF Passing
  <2>6. Passing(t)' = (k + 1)..NumHandles(t)
    BY <2>2, <2>3, <2>5 DEF Passing
  <2>7. \A j \in Passing(t) : HandleAt(t, j)' = HandleAt(t, j)
    BY <2>2, HandleAtKept
  <2>8. ASSUME NEW h \in inherit', h[1] = t
        PROVE  h \in {HandleAt(t, j)' : j \in Passing(t)'}
    <3>1. h \in inherit /\ h # HandleAt(t, k)
      BY <2>1, <2>4, <2>8
    <3>2. PICK j \in Passing(t) : h = HandleAt(t, j)
      BY <2>8, <3>1 DEF InheritOK
    <3>3. j \in Passing(t)'
      BY <2>3, <2>5, <2>6, <3>1, <3>2
    <3>4. QED
      BY <2>7, <3>2, <3>3
  <2>9. QED
    BY <2>8 DEF InheritOK
<1>8. CASE Child(t)
  <2>1. UNCHANGED <<call, inherit>>
    BY <1>8, ChildMoves DEF shared
  <2>2. Passing(t)' = Passing(t)
    BY <2>1 DEF Passing, NumHandles
  <2>3. \A j \in Passing(t) : HandleAt(t, j)' = HandleAt(t, j)
    BY <2>1, HandleAtKept
  <2>4. QED
    BY <2>1, <2>2, <2>3 DEF InheritOK
<1>9. CASE \/ RedirectingStep(t) \/ CallStep(t) \/ EnterProcessStart(t) \/ InitOnce(t)
           \/ PublishOnce(t) \/ SpinOnce(t) \/ MakeStrings(t) \/ Cleanup(t) \/ Finish(t)
  <2>1. call[t].pc \notin {"inherit", "attributes", "mode", "create", "restore", "clear"}
    <3>1. CASE RedirectingStep(t)
      BY <3>1, RedirectingMoves DEF Redirecting
    <3>2. CASE CallStep(t)
      BY <3>2, CallMoves DEF InCall, Waiting
    <3>3. QED
      BY <1>9, <3>1, <3>2 DEF EnterProcessStart, InitOnce, PublishOnce, SpinOnce, MakeStrings,
         Cleanup, Finish
  <2>2. QED
    BY <1>1, <2>1
<1>10. QED
  BY <1>4, <1>5, <1>6, <1>7, <1>8, <1>9, MoveKinds DEF SpawningStep, UndoingStep

\* What another thread does to the flags adds no handle of thread u.
LEMMA InheritFrame ==
    ASSUME TypeOK, NEW t \in Threads, NEW u \in Threads \ {t}, PlaceOK(t), EndsOK(t),
           InheritOK(u), Moves(t)
    PROVE  InheritOK(u)'
<1>1. call'[u] = call[u]
  BY OthersUntouched DEF Untouched
<1>2. Passing(u)' = Passing(u)
  BY <1>1 DEF Passing, NumHandles
<1>3. \A j \in Passing(u) : HandleAt(u, j)' = HandleAt(u, j)
  BY <1>1, HandleAtKept
<1>4. \A h \in inherit' : h[1] = u => h \in inherit
  <2>1. CASE call[t].pc = "inherit" /\ inherit' = inherit \cup {HandleAt(t, call[t].i)}
    <3>1. PICK k \in 1..NumHandles(t) : k = call[t].i
      BY <2>1, IndexRange
    <3>2. HandleAt(t, call[t].i) = HandleAt(t, k)
      BY <3>1 DEF HandleAt
    <3>3. HandleAt(t, k)[1] \in {t, "app"}
      BY <2>1, HandleAtIs, EndOwner DEF Spawning
    <3>4. u # t /\ u # "app"
      BY WindowsAssumption
    <3>5. QED
      BY <2>1, <3>2, <3>3, <3>4
  <2>2. QED
    BY <2>1, InheritMoves
<1>5. QED
  BY <1>2, <1>3, <1>4 DEF InheritOK

LEMMA InheritInvariant == Spec => []\A t \in Threads : InheritOK(t)
<1>1. Init => \A t \in Threads : InheritOK(t)
  <2>1. "app" \notin Threads
    BY WindowsAssumption
  <2>2. QED
    BY <2>1 DEF Init, InheritOK, Std
<1>2. /\ Typed /\ (\A t \in Threads : EndsOK(t)) /\ (\A t \in Threads : InheritOK(t))
      /\ [Next]_vars
      => (\A t \in Threads : InheritOK(t))'
  <2> SUFFICES ASSUME Typed, \A t \in Threads : EndsOK(t), \A t \in Threads : InheritOK(t),
                      [Next]_vars, NEW u \in Threads
               PROVE  InheritOK(u)'
    OBVIOUS
  <2>1. CASE UNCHANGED vars
    <3>1. UNCHANGED <<call, inherit>>
      BY <2>1 DEF vars, shared
    <3>2. Passing(u)' = Passing(u)
      BY <3>1 DEF Passing, NumHandles
    <3>3. \A j \in Passing(u) : HandleAt(u, j)' = HandleAt(u, j)
      BY <3>1, HandleAtKept
    <3>4. QED
      BY <3>1, <3>2, <3>3 DEF InheritOK
  <2>2. CASE Next
    <3>1. PICK t \in Threads : Moves(t)
      BY <2>2, NextMoves
    <3>2. TypeOK /\ PlaceOK(t) /\ EndsOK(t) /\ InheritOK(t) /\ InheritOK(u)
      BY DEF Typed
    <3>3. CASE u = t
      BY <3>1, <3>2, <3>3, InheritStep
    <3>4. CASE u # t
      BY <3>1, <3>2, <3>4, InheritFrame
    <3>5. QED
      BY <3>3, <3>4
  <2>3. QED
    BY <2>1, <2>2
<1>3. QED
  BY <1>1, <1>2, WindowsTypes, EndsInvariant, PTL DEF Spec

-----------------------------------------------------------------------------
(* The references to Winsock. *)

\* Who takes a reference and who gives one back.
LEMMA WinsockMoves ==
    ASSUME TypeOK, NEW t \in Threads, PlaceOK(t), StatusOK(t), Moves(t)
    PROVE  \/ (References(t)' <=> References(t)) /\ winsock' = winsock
           \/ ~References(t) /\ References(t)' /\ winsock' = winsock + 1
           \/ References(t) /\ ~References(t)' /\ winsock' = winsock - 1
<1>1. CASE InitWinsock(t)
  <2>1. call[t].pc = "init" /\ call[t].op = "start"
    BY <1>1 DEF InitWinsock, PlaceOK, Starting, Redirecting
  <2>2. CASE Failed(t, "init", "failed") /\ winsock' = winsock
    BY <2>1, <2>2, FailsFlow DEF References
  <2>3. CASE winsock' = winsock + 1 /\ Goto(t, "options", 0)
    BY <2>1, <2>3, GotoFlow DEF References, Kept
  <2>4. QED
    BY <1>1, <2>2, <2>3 DEF InitWinsock
<1>2. ASSUME call[t].pc \in Starting \ {"init"}, call'[t].pc \in Starting \ {"init"},
             call'[t].op = call[t].op, winsock' = winsock
      PROVE  (References(t)' <=> References(t)) /\ winsock' = winsock
  BY <1>2 DEF References, PlaceOK, Starting, Redirecting, Spawning, Undoing
<1>3. CASE RedirectingStep(t) /\ ~InitWinsock(t)
  <2>1. /\ call[t].pc \in Redirecting \ {"once"} /\ Kept(t)
        /\ call'[t].pc \in (Redirecting \ {"init"}) \cup {"finish", "failed"}
        /\ call'[t].pc = "failed" => call[t].pc = "init"
    BY <1>3, RedirectingMoves
  <2>2. winsock' = winsock /\ call[t].pc # "init"
    BY <1>3 DEF RedirectingStep, ParseOptions, Redirect, InitExitPipe, SetupInput, shared, Streams
  <2>3. QED
    BY <1>2, <2>1, <2>2 DEF Kept, Starting, Redirecting
<1>4. CASE SpawningStep(t)
  <2>1. /\ call[t].pc \in Spawning \cup {"once"}
        /\ call'[t].pc \in Spawning \cup {"clear", "restore", "finish"}
    BY <1>4, SpawningMoves
  <2>2. winsock' = winsock
    BY <1>4 DEF SpawningStep, EnterProcessStart, InitOnce, PublishOnce, SpinOnce, MakeStrings,
       SetInherit, SetupAttributeList, SetErrorMode, CreateProcess, shared
  <2>3. call'[t].op = call[t].op
    <3>1. CASE SetInherit(t)
      <4>1. call[t].pc = "inherit"
        BY <3>1 DEF SetInherit
      <4>2. CASE Round(t, "inherit", "attributes")
        BY <4>1, <4>2, RoundFlow
      <4>3. CASE \E r : call' = [call EXCEPT ![t].pc = "clear", ![t].r = r, ![t].i = 1]
        BY <4>3 DEF TypeOK, CallsTyped, CallType
      <4>4. QED
        BY <3>1, <4>2, <4>3 DEF SetInherit
    <3>2. CASE SetErrorMode(t)
      BY <3>2 DEF SetErrorMode, TypeOK, CallsTyped, CallType
    <3>3. QED
      BY <1>4, <3>1, <3>2, PlainFlow DEF SpawningStep, Kept
  <2>4. QED
    BY <1>2, <2>1, <2>2, <2>3 DEF Starting, Redirecting, Spawning, Undoing
<1>5. CASE UndoingStep(t) /\ ~Finish(t)
  <2>1. winsock' = winsock /\ call[t].pc \in Undoing
    BY <1>5 DEF UndoingStep, RestoreErrorMode, ClearInherit, Cleanup, Undoing
  <2>2. call'[t].pc \in Undoing \cup {"finish"}
    BY <1>5, <2>1, UndoingMoves DEF Undoing
  <2>3. call'[t].op = call[t].op
    <3>1. CASE RestoreErrorMode(t)
      BY <3>1 DEF RestoreErrorMode, TypeOK, CallsTyped, CallType
    <3>2. CASE ClearInherit(t)
      <4>1. call[t].pc = "clear" /\ Round(t, "clear", "cleanup")
        BY <3>2 DEF ClearInherit
      <4>2. QED
        BY <4>1, RoundFlow
    <3>3. QED
      BY <1>5, <3>1, <3>2, PlainFlow DEF UndoingStep, Kept
  <2>4. QED
    BY <1>2, <2>1, <2>2, <2>3 DEF Starting, Undoing
<1>6. CASE Finish(t)
  <2>1. /\ call[t].pc = "finish" /\ call[t].op = "start" /\ call'[t].op = "start"
        /\ call'[t].pc = (IF call[t].r < 0 THEN "failed" ELSE "idle")
    BY <1>6 DEF Finish, PlaceOK, Starting, TypeOK, CallsTyped, CallType
  <2>2. winsock' = IF call[t].r < 0 THEN winsock - 1 ELSE winsock
    BY <1>6 DEF Finish
  <2>3. QED
    BY <2>1, <2>2 DEF References
<1>7. CASE Release(t)
  <2>1. /\ call[t].pc = "release" /\ call[t].op = "destroy" /\ call'[t].pc = "freed"
        /\ winsock' = IF proc[t].status = NOT_STARTED THEN winsock ELSE winsock - 1
    BY <1>7 DEF Release, PlaceOK, TypeOK, CallsTyped, CallType
  <2>2. QED
    BY <2>1 DEF References
<1>8. CASE CallStep(t) /\ ~Release(t)
  <2>1. /\ call[t].pc \in InCall \cup {"failed", "idle"}
        /\ call'[t].pc \in InCall \cup {"idle", "release"}
        /\ winsock' = winsock
    <3>1. winsock' = winsock
      BY <1>8 DEF CallStep, Stop, Signal, Poll, ProcessWait, Begin, CallWait, CallDestroy,
         CallSignal, shared
    <3>2. call[t].pc # "release"
      BY <1>8 DEF CallStep, Stop, Signal, Poll, ProcessWait, Begin, CallWait, CallDestroy,
         CallSignal
    <3>3. call'[t].pc # "freed"
      <4>1. CASE Stop(t)
        BY <4>1 DEF Stop, TypeOK, CallsTyped, CallType
      <4>2. ASSUME NEW r, AfterWait(t, r) PROVE call'[t].pc # "freed"
        BY <4>2, AfterWaitFlow
      <4>3. ASSUME NEW r, AfterSignal(t, r) PROVE call'[t].pc # "freed"
        BY <4>3, AfterSignalFlow
      <4>4. CASE Signal(t)
        BY <4>3, <4>4 DEF Signal, Terminate
      <4>5. CASE Poll(t)
        <5>1. CASE call' = [call EXCEPT ![t].pc = "object"]
          BY <5>1 DEF TypeOK, CallsTyped, CallType
        <5>2. QED
          BY <4>2, <4>5, <5>1 DEF Poll
      <4>6. CASE ProcessWait(t)
        BY <4>2, <4>6 DEF ProcessWait, Waited
      <4>7. CASE Begin(t)
        <5>1. CASE CallWait(t)
          BY <5>1 DEF CallWait, TypeOK, CallsTyped, CallType
        <5>2. CASE \E op \in {"terminate", "kill"} : CallSignal(t, op)
          BY <5>2 DEF CallSignal, TypeOK, CallsTyped, CallType
        <5>3. CASE CallDestroy(t)
          BY <5>3 DEF CallDestroy, TypeOK, CallsTyped, CallType
        <5>4. QED
          BY <4>7, <5>1, <5>2, <5>3 DEF Begin
      <4>8. QED
        BY <1>8, <4>1, <4>4, <4>5, <4>6, <4>7 DEF CallStep
    <3>4. QED
      BY <1>8, <3>1, <3>2, <3>3, CallMoves
  <2>2. CASE call[t].pc \in InCall \cup {"idle"}
    <3>1. proc[t].status # NOT_STARTED
      BY <2>2 DEF StatusOK
    <3>2. proc'[t].status # NOT_STARTED
      BY <1>8, <3>1, CallStatus DEF NOT_STARTED
    <3>3. QED
      BY <2>1, <2>2, <3>1, <3>2 DEF References, InCall, Waiting
  <2>3. CASE call[t].pc = "failed"
    <3>1. CallDestroy(t)
      BY <1>8, <2>3 DEF CallStep, Stop, Signal, Poll, ProcessWait, Begin, CallWait, CallSignal
    <3>2. proc' = proc /\ proc[t].status = NOT_STARTED /\ call'[t].op = "destroy"
      BY <2>3, <3>1 DEF CallDestroy, StatusOK, TypeOK, CallsTyped, CallType
    <3>3. QED
      BY <2>1, <2>3, <3>2 DEF References
  <2>4. QED
    BY <2>1, <2>2, <2>3
<1>9. CASE Child(t)
  BY <1>9, ChildMoves DEF References, shared
<1>10. QED
  BY <1>1, <1>3, <1>4, <1>5, <1>6, <1>7, <1>8, <1>9, MoveKinds

LEMMA WinsockInvariant == Spec => []WinsockOK
<1>1. Init => WinsockOK
  <2> SUFFICES ASSUME Init PROVE WinsockOK
    OBVIOUS
  <2>1. Referencing = {}
    BY DEF Init, Referencing, References
  <2>2. QED
    BY <2>1, FS_EmptySet DEF Init, WinsockOK
<1>2. Typed /\ (\A t \in Threads : StatusOK(t)) /\ WinsockOK /\ [Next]_vars => WinsockOK'
  <2> SUFFICES ASSUME Typed, \A t \in Threads : StatusOK(t), WinsockOK, [Next]_vars
               PROVE  WinsockOK'
    OBVIOUS
  <2>1. CASE UNCHANGED vars
    <3>1. Referencing' = Referencing /\ winsock' = winsock
      BY <2>1 DEF vars, shared, Referencing, References
    <3>2. QED
      BY <3>1 DEF WinsockOK
  <2>2. CASE Next
    <3>1. PICK t \in Threads : Moves(t)
      BY <2>2, NextMoves
    <3>2. TypeOK /\ PlaceOK(t) /\ StatusOK(t)
      BY DEF Typed
    <3>3. \A u \in Threads \ {t} : References(u)' <=> References(u)
      BY <3>1, <3>2, OthersUntouched DEF Untouched, References
    <3>4. IsFiniteSet(Referencing) /\ Cardinality(Referencing) \in Nat
      BY WindowsAssumption, FS_Subset, FS_CardinalityType DEF Referencing
    <3>5. CASE (References(t)' <=> References(t)) /\ winsock' = winsock
      <4>1. Referencing' = Referencing
        BY <3>3, <3>5 DEF Referencing
      <4>2. QED
        BY <3>5, <4>1 DEF WinsockOK
    <3>6. CASE ~References(t) /\ References(t)' /\ winsock' = winsock + 1
      <4>1. Referencing' = Referencing \cup {t} /\ t \notin Referencing
        BY <3>3, <3>6 DEF Referencing
      <4>2. Cardinality(Referencing \cup {t}) = Cardinality(Referencing) + 1
        BY <3>4, <4>1, FS_AddElement
      <4>3. QED
        BY <3>6, <4>1, <4>2 DEF WinsockOK
    <3>7. CASE References(t) /\ ~References(t)' /\ winsock' = winsock - 1
      <4>1. Referencing' = Referencing \ {t} /\ t \in Referencing
        BY <3>3, <3>7 DEF Referencing
      <4>2. Cardinality(Referencing \ {t}) = Cardinality(Referencing) - 1
        BY <3>4, <4>1, FS_RemoveElement
      <4>3. QED
        BY <3>7, <4>1, <4>2 DEF WinsockOK
    <3>8. QED
      BY <3>1, <3>2, <3>5, <3>6, <3>7, WinsockMoves
  <2>3. QED
    BY <2>1, <2>2
<1>3. QED
  BY <1>1, <1>2, WindowsTypes, StatusInvariant, PTL DEF Spec

-----------------------------------------------------------------------------
(* The handles that are open. *)

LEMMA HandlesApart ==
    ASSUME NEW t \in Threads, NEW p \in Roles, NEW q \in Roles
    PROVE  /\ Ours(t, p)[1] = t /\ Theirs(t, p)[1] = t
           /\ Ours(t, p) # Theirs(t, q) /\ Ours(t, p) # EndMade(t, q)
           /\ Ours(t, p) = Ours(t, q) => p = q
           /\ Theirs(t, p) = Theirs(t, q) => p = q
           /\ Ours(t, p) # File(t, q) /\ Theirs(t, p) # File(t, q)
           /\ {Ours(t, p), Theirs(t, p), EndMade(t, p), File(t, p)}
                \cap {Process(t), MainThread(t), None} = {}
           /\ File(t, p)[1] = t /\ (File(t, p) = File(t, q) => p = q)
           /\ Std(p)[1] # t /\ Std(p) # File(t, q)
           /\ Process(t)[1] = t /\ MainThread(t)[1] = t /\ Process(t) # MainThread(t)
           /\ None[1] # t
<1>1. t # "app"
  BY WindowsAssumption
<1>2. QED
  BY <1>1 DEF Ours, Theirs, EndMade, Read, Write, File, Std, Process, MainThread, None, Roles,
     Streams

\* A child's end is not a handle that the reproc_t holds.
LEMMA EndApart ==
    ASSUME NEW t \in Threads, NEW p \in Roles, NEW q \in Roles
    PROVE  /\ Ours(t, p) # EndOf(t, q)
           /\ EndOf(t, q) \notin {Process(t), MainThread(t)}
<1>1. EndOf(t, q) = EndMade(t, "out") \/ EndOf(t, q) = EndMade(t, q)
  BY DEF EndOf
<1>2. \A r \in Roles : Ours(t, p) # EndMade(t, r)
                          /\ {EndMade(t, r)} \cap {Process(t), MainThread(t)} = {}
  BY HandlesApart
<1>3. "out" \in Roles
  BY DEF Roles, Streams
<1>4. QED
  BY <1>1, <1>2, <1>3

LEMMA EndsOfThread ==
    ASSUME NEW t \in Threads, EndsOK(t), call[t].pc \in Starting, NEW p \in Roles
    PROVE  /\ call[t].end[p] \in {None, EndOf(t, p)}
           /\ call[t].end[p][1] \in {t, "app"}
<1>1. call[t].end[p] \in {None, EndOf(t, p)}
  BY DEF EndsOK
<1>2. None[1] = "app"
  BY DEF None
<1>3. QED
  BY <1>1, <1>2, EndOwner

\* A thread opens and closes handles of its own.
LEMMA OpenMoves ==
    ASSUME TypeOK, NEW t \in Threads, PlaceOK(t), EndsOK(t), Moves(t),
           NEW h, h[1] \notin {t, "app"}
    PROVE  h \in open' <=> h \in open
<1>1. \A p \in Roles : h \notin {Ours(t, p), Theirs(t, p), File(t, p)}
  BY HandlesApart
<1>2. h # Process(t) /\ h # MainThread(t)
  BY DEF Process, MainThread
<1>3. ASSUME NEW p \in Roles, NEW next, MakePipe(t, p, next)
      PROVE  h \in open' <=> h \in open
  <2>1. open' = open \/ open' = open \cup {Ours(t, p), Theirs(t, p)}
    BY <1>3, MakePipeEffect
  <2>2. QED
    BY <1>1, <2>1
<1>4. CASE InitWinsock(t) \/ ParseOptions(t) \/ SetupInput(t)
  BY <1>1, <1>4 DEF InitWinsock, ParseOptions, SetupInput, shared, Roles, Streams
<1>5. ASSUME NEW s \in Streams, Redirect(t, s)
      PROVE  h \in open' <=> h \in open
  <2>1. s \in Roles
    BY DEF Roles
  <2>2. ASSUME NEW g, Redirected(t, s, After[s], g)
        PROVE  h \in open' <=> h \in open
    BY <1>1, <2>1, <2>2 DEF Redirected
  <2>3. QED
    BY <1>3, <1>5, <2>1, <2>2, RedirectEffect
<1>6. CASE InitExitPipe(t)
  <2>1. "exit" \in Roles /\ MakePipe(t, "exit", "input")
    BY <1>6 DEF InitExitPipe, Roles
  <2>2. PICK p, next : p \in Roles /\ MakePipe(t, p, next)
    BY <2>1
  <2>3. QED
    BY <1>3, <2>2
<1>7. CASE SpawningStep(t)
  BY <1>2, <1>7 DEF SpawningStep, EnterProcessStart, InitOnce, PublishOnce, SpinOnce, MakeStrings,
     SetInherit, SetupAttributeList, SetErrorMode, CreateProcess, shared
<1>8. CASE UndoingStep(t) /\ ~Finish(t)
  BY <1>2, <1>8 DEF UndoingStep, RestoreErrorMode, ClearInherit, Cleanup
<1>9. CASE Finish(t)
  <2>1. \A p \in Roles : h # call[t].end[p]
    <3>1. call[t].pc \in Starting
      BY <1>9 DEF Finish, Starting
    <3>2. QED
      BY <3>1, EndsOfThread
  <2>2. proc[t].pipe \subseteq Roles
    BY DEF TypeOK, ProcType
  <2>3. \A S \in SUBSET Streams : h \notin Destroyed(t, S)
    BY <2>1 DEF Destroyed, Roles
  <2>4. h # call[t].end["exit"] /\ Streams \ Piped(t) \in SUBSET Streams
    BY <2>1 DEF Roles
  <2>5. QED
    BY <1>1, <1>2, <1>9, <2>2, <2>3, <2>4 DEF Finish
<1>10. CASE Stop(t) \/ Signal(t) \/ Poll(t) \/ Begin(t)
  BY <1>10 DEF Stop, Signal, Poll, Begin, CallWait, CallDestroy, CallSignal, shared
<1>11. CASE ProcessWait(t)
  <2>1. PICK r : Waited(t, r)
    BY <1>11 DEF ProcessWait
  <2>2. QED
    BY <1>1, <2>1 DEF Waited, Roles
<1>12. CASE Release(t)
  <2>1. proc[t].pipe \subseteq Roles /\ proc[t].kept \subseteq Roles
    BY DEF TypeOK, ProcType, Roles, Streams
  <2>2. QED
    BY <1>1, <1>2, <1>12, <2>1 DEF Release
<1>13. CASE Child(t)
  BY <1>13, ChildMoves DEF shared
<1>14. QED
  BY <1>4, <1>5, <1>6, <1>7, <1>8, <1>9, <1>10, <1>11, <1>12, <1>13, MoveKinds
     DEF RedirectingStep, CallStep

LEMMA OwnedFrame ==
    ASSUME TypeOK, NEW t \in Threads, NEW u \in Threads \ {t}, PlaceOK(t), EndsOK(t),
           OwnedOK(u), Moves(t)
    PROVE  OwnedOK(u)'
<1>1. call'[u] = call[u] /\ proc'[u] = proc[u] /\ options'[u] = options[u]
  BY OthersUntouched DEF Untouched
<1>2. \A h : h[1] = u => (h \in open' <=> h \in open)
  <2>1. u \notin {t, "app"}
    BY WindowsAssumption
  <2>2. QED
    BY <2>1, OpenMoves
<1>3. Owned(u)' = Owned(u)
  BY <1>2 DEF Owned
<1>4. Holds(u)' = Holds(u) /\ EndsOwned(u)' = EndsOwned(u) /\ Leaks(u)' = Leaks(u)
  BY <1>1 DEF Holds, EndsOwned, Leaks
<1>5. QED
  BY <1>1, <1>3, <1>4 DEF OwnedOK, Locals

\* The child's end for role p is stored.
LEMMA EndsOwnedAdded ==
    ASSUME TypeOK, NEW t \in Threads, NEW p \in Roles, NEW g,
           call[t].end[p] = None, call'[t].end = [call[t].end EXCEPT ![p] = g]
    PROVE  \A h : h \in EndsOwned(t)' <=> (h \in EndsOwned(t) \/ (h = g /\ h[1] = t))
<1>1. call[t].end \in [Roles -> Handles]
  BY DEF TypeOK, CallsTyped, CallType
<1>2. \A q \in Roles : call'[t].end[q] = IF q = p THEN g ELSE call[t].end[q]
  BY <1>1
<1>3. None[1] # t
  BY HandlesApart
<1>4. TAKE h
<1>5. h \in EndsOwned(t)' <=> (h[1] = t /\ \E q \in Roles : h = call'[t].end[q])
  BY DEF EndsOwned
<1>6. h \in EndsOwned(t) <=> (h[1] = t /\ \E q \in Roles : h = call[t].end[q])
  BY DEF EndsOwned
<1>7. QED
  BY <1>2, <1>3, <1>5, <1>6

LEMMA PipeOwned ==
    ASSUME TypeOK, NEW t \in Threads, EndsOK(t), OwnedOK(t), NEW p \in Roles,
           call[t].pc = p, call'[t].pc \in Redirecting \ {"init"},
           call'[t].end = [call[t].end EXCEPT ![p] = Theirs(t, p)],
           proc'[t].pipe = proc[t].pipe \cup {p}, proc'[t].process = proc[t].process,
           proc'[t].kept = proc[t].kept, open' = open \cup {Ours(t, p), Theirs(t, p)}
    PROVE  OwnedOK(t)'
<1>1. call[t].pc \in Redirecting /\ call[t].pc \notin Undoing /\ call'[t].pc \notin Undoing
  BY DEF Redirecting, Undoing, Roles, Streams
<1>2. proc[t].kept = {} /\ ~proc[t].process /\ Owned(t) = Holds(t) \cup EndsOwned(t)
  BY <1>1 DEF OwnedOK, Starting, Locals
<1>3. call[t].end[p] = None
  BY <1>1 DEF EndsOK, Starting, Before, Roles, Streams
<1>4. \A h : h \in EndsOwned(t)' <=> (h \in EndsOwned(t) \/ (h = Theirs(t, p) /\ h[1] = t))
  BY <1>3, EndsOwnedAdded
<1>5. Ours(t, p)[1] = t /\ Theirs(t, p)[1] = t
  BY HandlesApart
<1>6. Holds(t)' = Holds(t) \cup {Ours(t, p)}
  BY DEF Holds
<1>7. Owned(t)' = Owned(t) \cup {Ours(t, p), Theirs(t, p)}
  BY <1>5 DEF Owned
<1>8. EndsOwned(t)' = EndsOwned(t) \cup {Theirs(t, p)}
  BY <1>4, <1>5
<1>9. Owned(t)' = Holds(t)' \cup EndsOwned(t)'
  BY <1>2, <1>6, <1>7, <1>8
<1>10. Locals(t)' = EndsOwned(t)'
  BY <1>1 DEF Locals
<1>11. QED
  BY <1>1, <1>2, <1>9, <1>10 DEF OwnedOK, Starting, Redirecting, Spawning, Undoing

\* A redirect that is no pipe: the file is opened if it is the thread's own.
LEMMA FileOwned ==
    ASSUME TypeOK, NEW t \in Threads, EndsOK(t), OwnedOK(t), NEW s \in Streams, NEW g,
           call[t].pc = s, call'[t].pc \in Redirecting \ {"init"},
           call'[t].end = [call[t].end EXCEPT ![s] = g],
           proc'[t] = proc[t], open' = open \cup ({g} \cap {File(t, s)}),
           g = File(t, s) \/ g[1] # t \/ g \in EndsOwned(t)
    PROVE  OwnedOK(t)'
<1>1. call[t].pc \in Redirecting /\ call[t].pc \notin Undoing /\ call'[t].pc \notin Undoing
      /\ s \in Roles
  BY DEF Redirecting, Undoing, Roles, Streams
<1>2. proc[t].kept = {} /\ ~proc[t].process /\ Owned(t) = Holds(t) \cup EndsOwned(t)
  BY <1>1 DEF OwnedOK, Starting, Locals
<1>3. call[t].end[s] = None
  BY <1>1 DEF EndsOK, Starting, Before, Roles, Streams
<1>4. \A h : h \in EndsOwned(t)' <=> (h \in EndsOwned(t) \/ (h = g /\ h[1] = t))
  BY <1>1, <1>3, EndsOwnedAdded
<1>5. Holds(t)' = Holds(t)
  BY DEF Holds
<1>6. File(t, s)[1] = t
  BY <1>1, HandlesApart
<1>7. \A h : h \in Owned(t)' <=> (h \in Owned(t) \/ (h = g /\ h = File(t, s)))
  BY <1>6 DEF Owned
<1>8. Owned(t)' = Holds(t)' \cup EndsOwned(t)'
  BY <1>2, <1>4, <1>5, <1>6, <1>7
<1>9. Locals(t)' = EndsOwned(t)'
  BY <1>1 DEF Locals
<1>10. QED
  BY <1>1, <1>2, <1>8, <1>9 DEF OwnedOK, Starting, Redirecting, Spawning, Undoing

\* Neither handles nor ends change.
LEMMA OwnedKept ==
    ASSUME TypeOK, NEW t \in Threads, OwnedOK(t), open' = open,
           proc'[t] = proc[t], options'[t] = options[t], call'[t].end = call[t].end,
           \/ call[t].pc \in Starting /\ call'[t].pc \in Starting \ {"init"}
           \/ call[t].pc \notin Starting /\ call'[t].pc \notin Starting \cup {"failed", "freed"},
           call[t].pc \in Redirecting \cup Spawning \/ call'[t].pc \notin Redirecting \cup Spawning,
           proc[t].process => (call[t].pc \in Undoing <=> call'[t].pc \in Undoing)
    PROVE  OwnedOK(t)'
<1>1. /\ Owned(t)' = Owned(t) /\ Holds(t)' = Holds(t) /\ EndsOwned(t)' = EndsOwned(t)
      /\ Leaks(t)' = Leaks(t)
  BY DEF Owned, Holds, EndsOwned, Leaks
<1>2. Locals(t)' = Locals(t)
  BY <1>1 DEF Locals
<1>3. "init" \in Starting /\ "failed" \notin Starting /\ "freed" \notin Starting
  BY DEF Starting, Redirecting, Spawning, Undoing
<1>4. QED
  BY <1>1, <1>2, <1>3 DEF OwnedOK

\* Before a child can be inherited from, reproc_start has no process.
LEMMA NoProcess ==
    ASSUME NEW t \in Threads, OwnedOK(t), call[t].pc \in Redirecting \cup Spawning
    PROVE  /\ call[t].pc \in Starting /\ call[t].pc \notin Undoing /\ proc[t].kept = {}
           /\ ~proc[t].process /\ Owned(t) = Holds(t) \cup EndsOwned(t)
<1>1. call[t].pc \in Starting /\ call[t].pc \notin Undoing
  BY DEF Starting, Redirecting, Spawning, Undoing
<1>2. QED
  BY <1>1 DEF OwnedOK, Locals

LEMMA RedirectOwned ==
    ASSUME TypeOK, NEW t \in Threads, PlaceOK(t), EndsOK(t), OwnedOK(t),
           NEW s \in Streams, Redirect(t, s)
    PROVE  OwnedOK(t)'
<1>1. /\ call[t].pc = s /\ Kept(t) /\ child' = child /\ overlap' = overlap
      /\ proc'[t].status = proc[t].status /\ proc'[t].process = proc[t].process
      /\ proc'[t].kept = proc[t].kept
      /\ \/ /\ call'[t].pc = "finish" /\ call'[t].r < 0 /\ call'[t].end = call[t].end
            /\ call'[t].r = -fault'[t].errno /\ fault'[t].step # "race"
            /\ UNCHANGED <<open, proc>>
         \/ /\ call'[t].pc = After[s] /\ call'[t].r = 0 /\ fault'[t] = fault[t]
            /\ \/ /\ options[t][s] = "stdout"
                  /\ call'[t].end = [call[t].end EXCEPT ![s] = call[t].end["out"]]
                  /\ open' = open \cup ({call[t].end["out"]} \cap {File(t, s)})
                  /\ proc'[t] = proc[t]
               \/ /\ options[t][s] # "stdout"
                  /\ call'[t].end = [call[t].end EXCEPT ![s] = EndMade(t, s)]
                  /\ IF options[t][s] = "pipe"
                     THEN /\ proc'[t].pipe = proc[t].pipe \cup {s}
                          /\ open' = open \cup {Ours(t, s), EndMade(t, s)}
                     ELSE /\ proc'[t] = proc[t]
                          /\ open' = open \cup ({EndMade(t, s)} \cap {File(t, s)})
  BY RedirectFlow
<1>2. s \in Roles /\ s \in Redirecting /\ After[s] \in Redirecting \ {"init"} /\ s # "exit"
      /\ options' = options
  BY <1>1 DEF Roles, Redirecting, After, Streams, Kept
<1>3. call[t].pc \in Starting /\ call[t].pc \notin Undoing /\ ~proc[t].process
  BY <1>1, <1>2, NoProcess
<1>4. CASE call'[t].pc = "finish" /\ call'[t].end = call[t].end /\ UNCHANGED <<open, proc>>
  <2>1. call'[t].pc \in Starting \ {"init"} /\ call'[t].pc \notin Redirecting \cup Spawning
    BY <1>4 DEF Starting, Redirecting, Spawning
  <2>2. QED
    BY <1>2, <1>3, <1>4, <2>1, OwnedKept
<1>5. CASE /\ call'[t].pc = After[s] /\ options[t][s] = "stdout"
           /\ call'[t].end = [call[t].end EXCEPT ![s] = call[t].end["out"]]
           /\ open' = open \cup ({call[t].end["out"]} \cap {File(t, s)})
           /\ proc'[t] = proc[t]
  <2>1. PICK g : g = call[t].end["out"]
    OBVIOUS
  <2>2. g[1] # t \/ g \in EndsOwned(t)
    BY <2>1 DEF EndsOwned, Roles, Streams
  <2>3. /\ call'[t].end = [call[t].end EXCEPT ![s] = g]
        /\ open' = open \cup ({g} \cap {File(t, s)})
    BY <1>5, <2>1
  <2>4. QED
    BY <1>1, <1>2, <1>5, <2>2, <2>3, FileOwned
<1>6. CASE /\ call'[t].pc = After[s] /\ options[t][s] = "pipe"
           /\ call'[t].end = [call[t].end EXCEPT ![s] = EndMade(t, s)]
           /\ proc'[t].pipe = proc[t].pipe \cup {s}
           /\ open' = open \cup {Ours(t, s), EndMade(t, s)}
  <2>1. EndMade(t, s) = Theirs(t, s)
    BY <1>6 DEF EndMade
  <2>2. QED
    BY <1>1, <1>2, <1>6, <2>1, PipeOwned
<1>7. CASE /\ call'[t].pc = After[s] /\ options[t][s] # "pipe"
           /\ call'[t].end = [call[t].end EXCEPT ![s] = EndMade(t, s)]
           /\ proc'[t] = proc[t]
           /\ open' = open \cup ({EndMade(t, s)} \cap {File(t, s)})
  <2>1. EndMade(t, s) = File(t, s) \/ EndMade(t, s) = Std(s)
    BY <1>2, <1>7 DEF EndMade
  <2>2. Std(s)[1] # t
    BY <1>2, HandlesApart
  <2>3. QED
    BY <1>1, <1>2, <1>7, <2>1, <2>2, FileOwned
<1>8. QED
  BY <1>1, <1>4, <1>5, <1>6, <1>7

LEMMA SetupInputOwned ==
    ASSUME TypeOK, NEW t \in Threads, EndsOK(t), OwnedOK(t), SetupInput(t)
    PROVE  OwnedOK(t)'
<1>1. call[t].pc = "input" /\ "in" \in Roles
  BY DEF SetupInput, Roles, Streams
<1>2. /\ call[t].pc \in Starting /\ call[t].pc \notin Undoing /\ proc[t].kept = {}
      /\ ~proc[t].process /\ Owned(t) = Holds(t) \cup EndsOwned(t)
  BY <1>1, NoProcess DEF Redirecting
<1>3. call'[t].end = call[t].end /\ options' = options
  BY PlainFlow DEF Kept
<1>4. call'[t].pc \in {"finish", "once"}
  BY FailsFlow, GotoFlow DEF SetupInput
<1>5. CASE UNCHANGED <<open, proc>>
  BY <1>1, <1>2, <1>3, <1>4, <1>5, OwnedKept DEF Starting, Redirecting, Spawning
<1>6. CASE /\ open' = open \ {Ours(t, "in")}
           /\ proc' = [proc EXCEPT ![t].pipe = @ \ {"in"}] /\ call'[t].pc = "once"
  <2>1. /\ proc'[t].pipe = proc[t].pipe \ {"in"} /\ proc'[t].process = proc[t].process
        /\ proc'[t].kept = proc[t].kept /\ proc[t].pipe \subseteq Roles
    BY <1>6 DEF TypeOK, ProcType
  <2>2. \A p \in Roles : Ours(t, p) = Ours(t, "in") => p = "in"
    BY <1>1, HandlesApart
  <2>3. Holds(t)' = Holds(t) \ {Ours(t, "in")}
    BY <1>2, <2>1, <2>2 DEF Holds
  <2>4. Ours(t, "in") \notin EndsOwned(t)
    <3>1. \A p \in Roles : Ours(t, "in") # EndOf(t, p) /\ Ours(t, "in") # None
      BY <1>1, EndApart, HandlesApart
    <3>2. \A p \in Roles : call[t].end[p] \in {None, EndOf(t, p)}
      BY <1>2, EndsOfThread
    <3>3. QED
      BY <3>1, <3>2 DEF EndsOwned
  <2>5. EndsOwned(t)' = EndsOwned(t) /\ Owned(t)' = Owned(t) \ {Ours(t, "in")}
    BY <1>3, <1>6 DEF EndsOwned, Owned
  <2>6. Owned(t)' = Holds(t)' \cup EndsOwned(t)'
    BY <1>2, <2>3, <2>4, <2>5
  <2>7. Locals(t)' = EndsOwned(t)'
    BY <1>6 DEF Locals, Undoing
  <2>8. QED
    BY <1>2, <1>6, <2>1, <2>6, <2>7 DEF OwnedOK, Starting, Redirecting
<1>7. QED
  BY <1>4, <1>5, <1>6, GotoFlow DEF SetupInput

LEMMA RedirectingOwned ==
    ASSUME TypeOK, NEW t \in Threads, PlaceOK(t), EndsOK(t), OwnedOK(t), RedirectingStep(t)
    PROVE  OwnedOK(t)'
<1>1. CASE InitWinsock(t)
  <2>1. call[t].pc = "init" /\ UNCHANGED <<open, proc>>
    BY <1>1 DEF InitWinsock
  <2>2. call'[t].end = call[t].end /\ options' = options /\ call'[t].pc \in {"options", "failed"}
    BY <1>1, PlainFlow, FailsFlow, GotoFlow DEF InitWinsock, Kept
  <2>3. /\ call[t].pc \in Starting /\ call[t].pc \notin Undoing /\ proc[t].kept = {}
        /\ ~proc[t].process /\ Owned(t) = Holds(t) \cup EndsOwned(t)
    BY <2>1, NoProcess DEF Redirecting
  <2>4. CASE call'[t].pc = "options"
    BY <2>1, <2>2, <2>3, <2>4, OwnedKept DEF Starting, Redirecting
  <2>5. CASE call'[t].pc = "failed"
    <3>1. Holds(t) = {}
      BY <2>1, <2>3 DEF OwnedOK, Holds
    <3>2. EndsOwned(t) = {}
      <4>1. \A p \in Roles : call[t].end[p] = None
        BY <2>1, <2>3 DEF EndsOK, Before, Roles, Streams
      <4>2. None[1] # t
        BY WindowsAssumption DEF None
      <4>3. QED
        BY <4>1, <4>2 DEF EndsOwned
    <3>3. Owned(t)' = {} /\ Holds(t)' = {}
      BY <2>1, <2>3, <3>1, <3>2 DEF Owned, Holds
    <3>4. QED
      BY <2>5, <3>3 DEF OwnedOK, Starting, Redirecting, Spawning, Undoing
  <2>6. QED
    BY <2>2, <2>4, <2>5
<1>2. CASE ParseOptions(t)
  <2>1. call[t].pc = "options" /\ UNCHANGED <<open, proc>>
    BY <1>2 DEF ParseOptions, shared
  <2>2. call'[t].end = call[t].end /\ options' = options
    BY <1>2, PlainFlow DEF Kept
  <2>3. call'[t].pc \in {"in", "finish"}
    BY <1>2, FailedFlow, GotoFlow DEF ParseOptions, ERROR_INVALID_PARAMETER
  <2>4. ~proc[t].process
    BY <2>1, NoProcess DEF Redirecting
  <2>5. QED
    BY <2>1, <2>2, <2>3, <2>4, OwnedKept DEF Starting, Redirecting, Spawning
<1>3. CASE InitExitPipe(t)
  <2>1. "exit" \in Roles /\ MakePipe(t, "exit", "input") /\ call[t].pc = "exit"
    BY <1>3 DEF InitExitPipe, Roles
  <2>2. PICK p, next : p \in Roles /\ p = "exit" /\ next = "input" /\ MakePipe(t, p, next)
    BY <2>1
  <2>3. /\ Kept(t) /\ overlap' = overlap
        /\ proc'[t].status = proc[t].status /\ proc'[t].process = proc[t].process
        /\ proc'[t].kept = proc[t].kept
        /\ \/ /\ call'[t].pc = "finish" /\ call'[t].r < 0 /\ call'[t].end = call[t].end
              /\ call'[t].r = -fault'[t].errno /\ fault'[t].step # "race"
              /\ UNCHANGED <<open, proc>>
           \/ /\ call'[t].pc = next /\ call'[t].r = 0 /\ fault'[t] = fault[t]
              /\ call'[t].end = [call[t].end EXCEPT ![p] = Theirs(t, p)]
              /\ proc'[t].pipe = proc[t].pipe \cup {p}
              /\ open' = open \cup {Ours(t, p), Theirs(t, p)}
    BY <2>2, MakePipeFlow
  <2>4. CASE call'[t].pc = "finish" /\ call'[t].end = call[t].end /\ UNCHANGED <<open, proc>>
    <3>1. ~proc[t].process
      BY <2>1, NoProcess DEF Redirecting
    <3>2. QED
      BY <2>1, <2>3, <2>4, <3>1, OwnedKept DEF Kept, Starting, Redirecting, Spawning
  <2>5. CASE /\ call'[t].pc = next
             /\ call'[t].end = [call[t].end EXCEPT ![p] = Theirs(t, p)]
             /\ proc'[t].pipe = proc[t].pipe \cup {p}
             /\ open' = open \cup {Ours(t, p), Theirs(t, p)}
    <3>1. call'[t].pc \in Redirecting \ {"init"} /\ call[t].pc = p
      BY <2>1, <2>2, <2>5 DEF Redirecting
    <3>2. QED
      BY <2>2, <2>3, <2>5, <3>1, PipeOwned
  <2>6. QED
    BY <2>3, <2>4, <2>5
<1>4. QED
  BY <1>1, <1>2, <1>3, RedirectOwned, SetupInputOwned DEF RedirectingStep

LEMMA SpawningOwned ==
    ASSUME TypeOK, NEW t \in Threads, PlaceOK(t), EndsOK(t), OwnedOK(t), SpawningStep(t)
    PROVE  OwnedOK(t)'
<1>1. /\ call[t].pc \in Spawning \cup {"once"}
      /\ call'[t].pc \in Spawning \cup {"clear", "restore", "finish"}
      /\ call'[t].pc = "finish" => call[t].pc = "once"
      /\ call'[t].pc = "restore" <=> call[t].pc = "create"
      /\ call'[t].end = call[t].end /\ options' = options
  BY SpawningMoves
<1>2. /\ call[t].pc \in Starting /\ call[t].pc \notin Undoing /\ proc[t].kept = {}
      /\ ~proc[t].process /\ Owned(t) = Holds(t) \cup EndsOwned(t)
  BY <1>1, NoProcess DEF Redirecting
<1>3. call[t].pc \in Redirecting \cup Spawning /\ call'[t].pc \in Starting \ {"init"}
  BY <1>1 DEF Starting, Redirecting, Spawning, Undoing
<1>4. CASE UNCHANGED <<open, proc>>
  BY <1>1, <1>2, <1>3, <1>4, OwnedKept
<1>5. CASE /\ open' = open \cup {Process(t), MainThread(t)} /\ call'[t].pc = "restore"
           /\ proc' = [proc EXCEPT ![t].process = TRUE]
  <2>1. proc'[t].pipe = proc[t].pipe /\ proc'[t].kept = proc[t].kept
    BY <1>5 DEF TypeOK, ProcType
  <2>2. proc'[t].process
    BY <1>5, Zenon DEF TypeOK, ProcType
  <2>3. Process(t)[1] = t /\ MainThread(t)[1] = t
    BY HandlesApart DEF Roles, Streams, Process, MainThread
  <2>4. Holds(t)' = Holds(t) \cup {Process(t)}
    BY <1>2, <2>1, <2>2 DEF Holds
  <2>5. Owned(t)' = Owned(t) \cup {Process(t), MainThread(t)}
    BY <1>5, <2>3 DEF Owned
  <2>6. EndsOwned(t)' = EndsOwned(t)
    BY <1>1 DEF EndsOwned
  <2>7. Locals(t)' = EndsOwned(t)' \cup {MainThread(t)}
    BY <1>5, <2>2 DEF Locals, Undoing
  <2>8. Owned(t)' = Holds(t)' \cup Locals(t)'
    BY <1>2, <2>4, <2>5, <2>6, <2>7
  <2>9. QED
    BY <1>2, <1>5, <2>1, <2>8 DEF OwnedOK, Starting, Redirecting, Spawning, Undoing
<1>6. CASE CreateProcess(t)
  <2>1. Goto(t, "restore", 0) => call'[t].pc = "restore"
    BY GotoFlow
  <2>2. QED
    BY <1>4, <1>5, <1>6, <2>1 DEF CreateProcess
<1>7. CASE ~CreateProcess(t)
  <2>1. UNCHANGED <<open, proc>>
    BY <1>7 DEF SpawningStep, EnterProcessStart, InitOnce, PublishOnce, SpinOnce, MakeStrings,
       SetInherit, SetupAttributeList, SetErrorMode, shared
  <2>2. QED
    BY <1>4, <2>1
<1>8. QED
  BY <1>6, <1>7

LEMMA UndoingOwned ==
    ASSUME TypeOK, NEW t \in Threads, PlaceOK(t), EndsOK(t), OwnedOK(t),
           UndoingStep(t), ~Finish(t)
    PROVE  OwnedOK(t)'
<1>1. CASE RestoreErrorMode(t)
  <2>1. call[t].pc = "restore" /\ UNCHANGED <<open, proc, options>>
    BY <1>1 DEF RestoreErrorMode
  <2>2. call'[t].pc = "clear" /\ call'[t].end = call[t].end
    BY <1>1 DEF RestoreErrorMode, TypeOK, CallsTyped, CallType
  <2>3. QED
    BY <2>1, <2>2, OwnedKept DEF Starting, Undoing, Redirecting, Spawning
<1>2. CASE ClearInherit(t)
  <2>1. call[t].pc = "clear" /\ UNCHANGED <<open, proc>> /\ Round(t, "clear", "cleanup")
    BY <1>2 DEF ClearInherit
  <2>2. call'[t].end = call[t].end /\ options' = options /\ call'[t].pc \in {"clear", "cleanup"}
    <3>1. /\ call'[t].op = call[t].op /\ call'[t].r = call[t].r
          /\ call'[t].end = call[t].end /\ options' = options
          /\ \/ call[t].i = NumHandles(t) /\ call'[t].pc = "cleanup" /\ call'[t].i = 1
             \/ /\ call[t].i # NumHandles(t) /\ call'[t].pc = "clear"
                /\ call'[t].i = call[t].i + 1 /\ call'[t].i \in 1..NumHandles(t)
          /\ NumHandles(t)' = NumHandles(t)
      BY <2>1, RoundFlow
    <3>2. QED
      BY <3>1
  <2>3. QED
    BY <2>1, <2>2, OwnedKept DEF Starting, Undoing, Redirecting, Spawning
<1>3. CASE Cleanup(t)
  <2>1. call[t].pc = "cleanup" /\ proc' = proc /\ open' = open \ {MainThread(t)}
    BY <1>3 DEF Cleanup
  <2>2. call'[t].end = call[t].end /\ call'[t].pc = "finish"
    BY <1>3, PlainFlow, GotoFlow DEF Cleanup
  <2>3. /\ call[t].pc \in Starting /\ proc[t].kept = {}
        /\ Owned(t) = Holds(t) \cup Locals(t)
    BY <2>1 DEF OwnedOK, Starting, Undoing
  <2>4. MainThread(t) \notin Holds(t)
    <3>1. proc[t].pipe \subseteq Roles
      BY DEF TypeOK, ProcType
    <3>2. \A p \in Roles : MainThread(t) # Ours(t, p)
      BY HandlesApart
    <3>3. MainThread(t) # Process(t)
      BY DEF MainThread, Process
    <3>4. QED
      BY <2>3, <3>1, <3>2, <3>3 DEF Holds
  <2>5. MainThread(t) \notin EndsOwned(t)
    <3>1. \A p \in Roles : MainThread(t) # EndOf(t, p) /\ MainThread(t) # None
      BY EndApart DEF MainThread, None
    <3>2. \A p \in Roles : call[t].end[p] \in {None, EndOf(t, p)}
      BY <2>3, EndsOfThread
    <3>3. QED
      BY <3>1, <3>2 DEF EndsOwned
  <2>6. Owned(t)' = Owned(t) \ {MainThread(t)} /\ Holds(t)' = Holds(t)
        /\ EndsOwned(t)' = EndsOwned(t) /\ Locals(t)' = EndsOwned(t)'
    BY <2>1, <2>2 DEF Owned, Holds, EndsOwned, Locals, Undoing
  <2>7. Owned(t)' = Holds(t)' \cup Locals(t)'
    BY <2>3, <2>4, <2>5, <2>6 DEF Locals
  <2>8. QED
    BY <2>1, <2>2, <2>3, <2>7 DEF OwnedOK, Starting, Redirecting, Spawning
<1>4. QED
  BY <1>1, <1>2, <1>3 DEF UndoingStep

\* The child's ends that are left when reproc_start undoes its work are leaks.
LEMMA EndsUndone ==
    ASSUME NEW t \in Threads, PlaceOK(t), EndsOK(t), call[t].pc = "finish",
           NEW h \in EndsOwned(t), h \notin Destroyed(t, Streams), h # call[t].end["exit"]
    PROVE  h \in Leaks(t)
<1>1. PICK s \in Streams : h = call[t].end[s]
  BY DEF EndsOwned, Roles
<1>2. h[1] = t /\ s \in Roles /\ options[t] \in Configs[t]
  BY DEF EndsOwned, Roles, PlaceOK
<1>3. call[t].end[s] \in {None, EndOf(t, s)} /\ h = EndOf(t, s)
  <2>1. call[t].end[s] \in {None, EndOf(t, s)}
    BY <1>2, EndsOfThread DEF Starting
  <2>2. None[1] # t
    BY WindowsAssumption DEF None
  <2>3. QED
    BY <1>1, <1>2, <2>1, <2>2
<1>4. options[t][s] \notin {"pipe", "discard"}
  BY <1>1 DEF Destroyed
<1>5. ASSUME NEW q \in Streams, h = EndMade(t, q), options[t][q] = "parent"
      PROVE  h \in Leaks(t)
  <2>1. q # "exit" /\ q \in Roles
    BY DEF Streams, Roles
  <2>2. Std(q)[1] # t
    BY <2>1, HandlesApart
  <2>3. ~options[t].std /\ h = File(t, q)
    BY <1>2, <1>5, <2>1, <2>2 DEF EndMade
  <2>4. QED
    BY <1>5, <2>3 DEF Leaks
<1>6. options[t][s] \in {"parent", "stdout"}
  <2>1. options[t] \in Options
    BY <1>2, WindowsAssumption
  <2>2. options[t][s] \in Redirects
    BY <2>1 DEF Options, Streams
  <2>3. QED
    BY <1>4, <2>2 DEF Redirects
<1>7. CASE options[t][s] = "parent"
  <2>1. EndOf(t, s) = EndMade(t, s)
    BY <1>7 DEF EndOf
  <2>2. QED
    BY <1>3, <1>5, <1>7, <2>1
<1>8. CASE options[t][s] = "stdout"
  <2>1. s = "err"
    BY <1>8, OnlyErrToOut
  <2>2. EndOf(t, s) = EndMade(t, "out") /\ EndOf(t, "out") = EndMade(t, "out")
    BY <1>8, <2>1 DEF EndOf
  <2>3. call[t].end["out"] # None
    <3>1. h # None
      BY <1>2, WindowsAssumption DEF None
    <3>2. QED
      BY <1>1, <2>1, <3>1 DEF EndsOK, Starting
  <2>4. call[t].end["out"] = h
    BY <1>3, <2>2, <2>3, EndsOfThread DEF Starting, Roles, Streams
  <2>5. options[t]["out"] \notin {"pipe", "discard"}
    BY <2>4 DEF Destroyed, Streams
  <2>6. options[t]["out"] = "parent"
    <3>1. options[t] \in Options
      BY <1>2, WindowsAssumption
    <3>2. options[t]["out"] \in Redirects
      BY <3>1 DEF Options
    <3>3. options[t]["out"] # "stdout"
      BY OnlyErrToOut DEF Streams
    <3>4. QED
      BY <2>5, <3>2, <3>3 DEF Redirects
  <2>7. QED
    BY <1>3, <1>5, <2>2, <2>6 DEF Streams
<1>9. QED
  BY <1>6, <1>7, <1>8

\* The child's ends that are left when reproc_start succeeds are those of the output
\* pipes, and leaks.
LEMMA EndsLeft ==
    ASSUME TypeOK, NEW t \in Threads, PlaceOK(t), EndsOK(t), call[t].pc = "finish", call[t].r >= 0,
           NEW h
    PROVE  /\ h \in EndsOwned(t) /\ h \notin Leaks(t) /\ h # call[t].end["exit"]
                /\ h \notin Destroyed(t, Streams \ Piped(t))
              => h \in {Theirs(t, s) : s \in Piped(t)}
           /\ h \in {Theirs(t, s) : s \in Piped(t)}
              => /\ h \in EndsOwned(t) /\ h \notin Leaks(t) /\ h # call[t].end["exit"]
                 /\ h \notin Destroyed(t, Streams \ Piped(t))
<1>1. \A p \in Roles : call[t].end[p] = EndOf(t, p)
  <2>1. ~(call[t].r < 0) /\ call[t].pc \in Starting
    BY DEF Starting, TypeOK, CallsTyped, CallType
  <2>2. \A p \in Roles : call[t].pc \notin Before[p]
    BY DEF Before, Roles, Streams
  <2>3. QED
    BY <2>1, <2>2 DEF EndsOK
<1>2. Piped(t) \subseteq Streams /\ Streams \subseteq Roles /\ "exit" \in Roles /\ "exit" \notin Streams
  BY DEF Piped, Streams, Roles
<1>3. \A s \in Streams : options[t][s] \in {"pipe", "discard"} => EndOf(t, s) = EndMade(t, s)
  BY DEF EndOf
<1>4. \A s \in Piped(t) : call[t].end[s] = Theirs(t, s)
  BY <1>1, <1>2, <1>3 DEF Piped, EndMade
<1>5. ASSUME h \in EndsOwned(t), h \notin Leaks(t), h # call[t].end["exit"],
             h \notin Destroyed(t, Streams \ Piped(t))
      PROVE  h \in {Theirs(t, s) : s \in Piped(t)}
  <2>1. h \in Destroyed(t, Streams)
    BY <1>5, EndsUndone
  <2>2. PICK s \in Streams : h = call[t].end[s] /\ options[t][s] \in {"pipe", "discard"}
    BY <2>1 DEF Destroyed
  <2>3. s \in Piped(t)
    BY <1>5, <2>2 DEF Destroyed
  <2>4. QED
    BY <1>4, <2>2, <2>3
<1>6. ASSUME NEW s \in Piped(t), h = Theirs(t, s)
      PROVE  /\ h \in EndsOwned(t) /\ h \notin Leaks(t) /\ h # call[t].end["exit"]
             /\ h \notin Destroyed(t, Streams \ Piped(t))
  <2>1. s \in Roles /\ s # "exit"
    BY <1>2
  <2>2. \A q \in Roles : /\ Theirs(t, s)[1] = t /\ Theirs(t, s) # File(t, q)
                         /\ Theirs(t, s) = Theirs(t, q) => s = q
    BY <2>1, HandlesApart
  <2>3. h \in EndsOwned(t)
    BY <1>4, <1>6, <2>1, <2>2 DEF EndsOwned
  <2>4. h \notin Leaks(t)
    BY <1>2, <1>6, <2>2 DEF Leaks
  <2>5. h # call[t].end["exit"]
    <3>1. call[t].end["exit"] = Theirs(t, "exit")
      BY <1>1, <1>2 DEF EndOf, EndMade
    <3>2. QED
      BY <1>2, <1>6, <2>1, <2>2, <3>1
  <2>6. ASSUME NEW q \in Streams \ Piped(t), options[t][q] \in {"pipe", "discard"}
        PROVE  h # call[t].end[q]
    <3>1. call[t].end[q] = EndMade(t, q) /\ q # "exit" /\ q \in Roles
      BY <1>1, <1>2, <1>3, <2>6
    <3>2. EndMade(t, q) \in {Theirs(t, q), File(t, q)}
      BY <2>6, <3>1 DEF EndMade
    <3>3. QED
      BY <1>6, <2>2, <2>6, <3>1, <3>2
  <2>7. h \notin Destroyed(t, Streams \ Piped(t))
    BY <2>6 DEF Destroyed
  <2>8. QED
    BY <2>3, <2>4, <2>5, <2>7
<1>7. QED
  BY <1>5, <1>6

\* What the reproc_t holds is no end of the child's and is not leaked.
LEMMA HoldsApart ==
    ASSUME TypeOK, NEW t \in Threads, EndsOK(t), call[t].pc \in Starting, proc[t].kept = {}
    PROVE  /\ Holds(t) \cap EndsOwned(t) = {} /\ Holds(t) \cap Leaks(t) = {}
           /\ \A p \in Roles : call[t].end[p] \notin Holds(t)
<1>1. proc[t].pipe \subseteq Roles
  BY DEF TypeOK, ProcType
<1>2. \A p \in Roles : call[t].end[p] \in {None, EndOf(t, p)}
  BY EndsOfThread
<1>3. \A p, q \in Roles : Ours(t, p) \notin {EndOf(t, q), None, File(t, q)}
  BY EndApart, HandlesApart
<1>4. \A q \in Roles : Process(t) \notin {EndOf(t, q), None, File(t, q)}
  BY EndApart DEF Process, None, File
<1>5. \A h \in Holds(t) : (\E p \in Roles : h = Ours(t, p)) \/ h = Process(t)
  BY <1>1 DEF Holds
<1>6. \A p \in Roles : call[t].end[p] \notin Holds(t)
  BY <1>2, <1>3, <1>4, <1>5
<1>7. \A h \in Leaks(t) : \E q \in Roles : h = File(t, q)
  BY DEF Leaks, Roles
<1>8. QED
  BY <1>3, <1>4, <1>5, <1>6, <1>7 DEF EndsOwned

LEMMA FinishOwned ==
    ASSUME TypeOK, NEW t \in Threads, PlaceOK(t), EndsOK(t), OwnedOK(t), Finish(t)
    PROVE  OwnedOK(t)'
<1>1. /\ call[t].pc = "finish" /\ call[t].pc \in Starting /\ call[t].pc \notin Undoing
      /\ proc[t].kept = {} /\ Owned(t) = Holds(t) \cup EndsOwned(t)
  BY DEF Finish, OwnedOK, Locals, Starting, Undoing
<1>2. /\ Holds(t) \cap EndsOwned(t) = {} /\ Holds(t) \cap Leaks(t) = {}
      /\ \A p \in Roles : call[t].end[p] \notin Holds(t)
  BY <1>1, HoldsApart
<1>3. /\ call'[t].pc = (IF call[t].r < 0 THEN "failed" ELSE "idle")
      /\ options' = options
  BY DEF Finish, TypeOK, CallsTyped, CallType
<1>4. call'[t].pc \notin Starting /\ Leaks(t)' = Leaks(t)
  BY <1>3 DEF Starting, Redirecting, Spawning, Undoing, Leaks
<1>5. proc[t].pipe \subseteq Roles
  BY DEF TypeOK, ProcType
<1>6. CASE call[t].r < 0
  <2>1. open' = open \ (Destroyed(t, Streams) \cup {call[t].end["exit"], Process(t)}
                                  \cup {Ours(t, p) : p \in proc[t].pipe})
    BY <1>6 DEF Finish
  <2>2. proc'[t].pipe = {} /\ proc'[t].process = FALSE /\ proc'[t].kept = {}
    BY <1>1, <1>6 DEF Finish, TypeOK, ProcType
  <2>3. Holds(t)' = {}
    BY <2>2, Zenon DEF Holds
  <2>4. ASSUME NEW h \in Owned(t)'
        PROVE  h \in Leaks(t)
    <3>1. h \in open' /\ h[1] = t
      BY <2>4 DEF Owned
    <3>2. h \in Owned(t) /\ h \notin Destroyed(t, Streams) /\ h # call[t].end["exit"]
          /\ h # Process(t) /\ h \notin {Ours(t, p) : p \in proc[t].pipe}
      BY <2>1, <3>1 DEF Owned
    <3>3. h \notin Holds(t)
      BY <1>1, <3>2 DEF Holds
    <3>4. h \in EndsOwned(t)
      BY <1>1, <3>2, <3>3
    <3>5. QED
      BY <1>1, <3>2, <3>4, EndsUndone
  <2>5. Owned(t)' \ Leaks(t)' = Holds(t)'
    BY <1>4, <2>3, <2>4
  <2>6. QED
    BY <1>4, <2>3, <2>5 DEF OwnedOK
<1>7. CASE ~(call[t].r < 0)
  <2>1. call[t].r >= 0
    BY <1>7 DEF TypeOK, CallsTyped, CallType
  <2>2. open' = open \ (Destroyed(t, Streams \ Piped(t)) \cup {call[t].end["exit"]})
    BY <1>7 DEF Finish
  <2>3. proc'[t].pipe = proc[t].pipe /\ proc'[t].process = proc[t].process
        /\ proc'[t].kept = Piped(t)
    BY <1>7 DEF Finish, TypeOK, ProcType
  <2>4. Holds(t)' = Holds(t) \cup {Theirs(t, s) : s \in Piped(t)}
    BY <1>1, <2>3 DEF Holds
  <2>5. \A h \in Holds(t) : h \notin Destroyed(t, Streams \ Piped(t)) /\ h # call[t].end["exit"]
    BY <1>2 DEF Destroyed, Roles
  <2>6. \A h : h \in Owned(t)' <=> (h \in Owned(t) /\ h \notin Destroyed(t, Streams \ Piped(t))
                                      /\ h # call[t].end["exit"])
    BY <2>2 DEF Owned
  <2>7. ASSUME NEW h
        PROVE  (h \in Owned(t)' /\ h \notin Leaks(t)) <=> h \in Holds(t)'
    <3>1. CASE h \in Holds(t)
      BY <1>1, <1>2, <2>4, <2>5, <2>6, <3>1
    <3>2. CASE h \notin Holds(t)
      <4>1. h \in Owned(t) <=> h \in EndsOwned(t)
        BY <1>1, <3>2
      <4>2. h \in Holds(t)' <=> h \in {Theirs(t, s) : s \in Piped(t)}
        BY <2>4, <3>2
      <4>3. QED
        BY <1>1, <2>1, <2>6, <4>1, <4>2, EndsLeft
    <3>3. QED
      BY <3>1, <3>2
  <2>8. Owned(t)' \ Leaks(t)' = Holds(t)'
    BY <1>4, <2>7
  <2>9. QED
    BY <1>3, <1>4, <1>7, <2>8 DEF OwnedOK
<1>8. QED
  BY <1>6, <1>7

LEMMA CallOwned ==
    ASSUME TypeOK, NEW t \in Threads, OwnedOK(t), CallStep(t)
    PROVE  OwnedOK(t)'
<1>1. /\ call[t].pc \notin Starting /\ call'[t].pc \notin Starting \cup {"failed"}
      /\ call'[t].end = call[t].end /\ options' = options
      /\ call'[t].pc \notin Redirecting \cup Spawning
  <2>1. /\ call[t].pc \in InCall \cup {"failed", "idle", "release"}
        /\ call'[t].pc \in InCall \cup {"idle", "release", "freed"}
        /\ call'[t].end = call[t].end /\ options' = options
    BY CallMoves
  <2>2. QED
    BY <2>1 DEF InCall, Waiting, Starting, Redirecting, Spawning, Undoing
<1>2. /\ Owned(t) \ Leaks(t) = Holds(t) /\ Leaks(t)' = Leaks(t)
      /\ (call[t].pc = "failed" => Holds(t) = {})
  BY <1>1 DEF OwnedOK, Leaks
<1>3. /\ proc[t].pipe \subseteq Roles /\ proc[t].kept \subseteq {"out", "err"}
  BY DEF TypeOK, ProcType
<1>4. CASE Release(t)
  <2>1. open' = open \ ({Process(t)} \cup {Ours(t, p) : p \in proc[t].pipe}
                                     \cup {Theirs(t, s) : s \in proc[t].kept})
    BY <1>4 DEF Release
  <2>2. proc'[t].process = FALSE /\ proc'[t].pipe = {} /\ proc'[t].kept = {}
    BY <1>4 DEF Release, TypeOK, ProcType
  <2>3. Holds(t)' = {}
    BY <2>2, Zenon DEF Holds
  <2>4. \A h \in Owned(t)' : h \in Owned(t) /\ h \notin Holds(t)
    BY <2>1 DEF Owned, Holds
  <2>5. Owned(t)' \ Leaks(t)' = Holds(t)'
    BY <1>2, <2>3, <2>4
  <2>6. QED
    BY <1>1, <2>3, <2>5 DEF OwnedOK
<1>5. ASSUME UNCHANGED <<open, proc>>, call'[t].pc # "freed"
      PROVE  OwnedOK(t)'
  <2>1. Owned(t)' = Owned(t) /\ Holds(t)' = Holds(t)
    BY <1>5 DEF Owned, Holds
  <2>2. QED
    BY <1>1, <1>2, <1>5, <2>1 DEF OwnedOK
<1>6. ASSUME NEW r, AfterWait(t, r) PROVE call'[t].pc # "freed"
  BY <1>6, AfterWaitFlow
<1>7. ASSUME NEW r, AfterSignal(t, r) PROVE call'[t].pc # "freed"
  BY <1>7, AfterSignalFlow
<1>8. CASE Stop(t) \/ Signal(t) \/ Poll(t) \/ Begin(t)
  <2>1. UNCHANGED <<open, proc>>
    BY <1>8 DEF Stop, Signal, Poll, Begin, CallWait, CallDestroy, CallSignal, shared
  <2>2. CASE Stop(t)
    BY <1>5, <2>1, <2>2 DEF Stop, TypeOK, CallsTyped, CallType
  <2>3. CASE Signal(t)
    BY <1>5, <1>7, <2>1, <2>3 DEF Signal, Terminate
  <2>4. CASE Poll(t)
    <3>1. CASE call' = [call EXCEPT ![t].pc = "object"]
      BY <1>5, <2>1, <3>1 DEF TypeOK, CallsTyped, CallType
    <3>2. QED
      BY <1>5, <1>6, <2>1, <2>4, <3>1 DEF Poll
  <2>5. CASE CallWait(t)
    BY <1>5, <2>1, <2>5 DEF CallWait, TypeOK, CallsTyped, CallType
  <2>6. CASE \E op \in {"terminate", "kill"} : CallSignal(t, op)
    BY <1>5, <2>1, <2>6 DEF CallSignal, TypeOK, CallsTyped, CallType
  <2>7. CASE CallDestroy(t)
    BY <1>5, <2>1, <2>7 DEF CallDestroy, TypeOK, CallsTyped, CallType
  <2>8. QED
    BY <1>8, <2>2, <2>3, <2>4, <2>5, <2>6, <2>7 DEF Begin
<1>9. CASE ProcessWait(t)
  <2>1. PICK r : Waited(t, r)
    BY <1>9 DEF ProcessWait
  <2>2. call'[t].pc # "freed"
    BY <1>6, <2>1 DEF Waited
  <2>3. CASE UNCHANGED <<open, proc>>
    BY <1>5, <2>2, <2>3
  <2>4. CASE /\ open' = open \ {Ours(t, "exit")}
             /\ proc' = [proc EXCEPT ![t].pipe = @ \ {"exit"}, ![t].status = r]
    <3>1. proc'[t].pipe = proc[t].pipe \ {"exit"} /\ proc'[t].process = proc[t].process
          /\ proc'[t].kept = proc[t].kept
      BY <2>4 DEF TypeOK, ProcType
    <3>2. "exit" \in Roles /\ {"out", "err"} \subseteq Roles
      BY DEF Roles, Streams
    <3>3. /\ \A p \in Roles : Ours(t, p) = Ours(t, "exit") => p = "exit"
          /\ \A p \in Roles : Theirs(t, p) # Ours(t, "exit")
          /\ Ours(t, "exit") # Process(t)
      <4>1. Ours(t, "exit") # Process(t)
        BY DEF Ours, Read, Process
      <4>2. QED
        BY <3>2, <4>1, HandlesApart
    <3>4. Holds(t)' = Holds(t) \ {Ours(t, "exit")}
      BY <1>3, <3>1, <3>2, <3>3 DEF Holds
    <3>5. Owned(t)' = Owned(t) \ {Ours(t, "exit")}
      BY <2>4 DEF Owned
    <3>6. Owned(t)' \ Leaks(t)' = Holds(t)'
      BY <1>2, <3>4, <3>5
    <3>7. QED
      BY <1>1, <2>2, <3>6 DEF OwnedOK
  <2>5. QED
    BY <2>1, <2>3, <2>4 DEF Waited
<1>10. QED
  BY <1>4, <1>8, <1>9 DEF CallStep

LEMMA ChildOwned ==
    ASSUME TypeOK, NEW t \in Threads, OwnedOK(t), Child(t)
    PROVE  OwnedOK(t)'
<1>1. UNCHANGED <<open, options, call, proc>>
  BY ChildMoves DEF shared
<1>2. UNCHANGED <<Owned(t), Holds(t), EndsOwned(t), Leaks(t)>>
  BY <1>1 DEF Owned, Holds, EndsOwned, Leaks
<1>3. Locals(t)' = Locals(t)
  BY <1>1, <1>2 DEF Locals
<1>4. QED
  BY <1>1, <1>2, <1>3 DEF OwnedOK

LEMMA OwnedStep ==
    ASSUME TypeOK, NEW t \in Threads, PlaceOK(t), EndsOK(t), OwnedOK(t), Moves(t)
    PROVE  OwnedOK(t)'
<1>1. CASE RedirectingStep(t)
  BY <1>1, RedirectingOwned
<1>2. CASE SpawningStep(t)
  BY <1>2, SpawningOwned
<1>3. CASE UndoingStep(t)
  BY <1>3, UndoingOwned, FinishOwned
<1>4. CASE CallStep(t)
  BY <1>4, CallOwned
<1>5. CASE Child(t)
  BY <1>5, ChildOwned
<1>6. QED
  BY <1>1, <1>2, <1>3, <1>4, <1>5, MoveKinds

\* A start that has not begun holds no handle.
LEMMA EndsBegin ==
    ASSUME NEW t \in Threads, \A p \in Roles : call[t].end[p] = None
    PROVE  EndsOwned(t) = {}
<1>1. \A p \in Roles : call[t].end[p][1] = "app"
  BY DEF None
<1>2. t # "app"
  BY WindowsAssumption
<1>3. QED
  BY <1>1, <1>2 DEF EndsOwned

LEMMA OwnedInvariant == Spec => []\A t \in Threads : OwnedOK(t)
<1>1. Init => \A t \in Threads : OwnedOK(t)
  <2> SUFFICES ASSUME Init, NEW t \in Threads PROVE OwnedOK(t)
    OBVIOUS
  <2>1. /\ call[t].pc = "init" /\ \A p \in Roles : call[t].end[p] = None
        /\ proc[t].pipe = {} /\ proc[t].kept = {} /\ ~proc[t].process
    BY DEF Init
  <2>2. EndsOwned(t) = {}
    BY <2>1, EndsBegin
  <2>3. Owned(t) = {} /\ Holds(t) = {}
    BY <2>1 DEF Init, Owned, Holds
  <2>4. Locals(t) = {}
    BY <2>1, <2>2 DEF Locals
  <2>5. QED
    BY <2>1, <2>3, <2>4 DEF OwnedOK, Starting, Redirecting
<1>2. /\ Typed /\ (\A t \in Threads : EndsOK(t)) /\ (\A t \in Threads : OwnedOK(t))
      /\ [Next]_vars
      => (\A t \in Threads : OwnedOK(t))'
  <2> SUFFICES ASSUME Typed, \A t \in Threads : EndsOK(t), \A t \in Threads : OwnedOK(t),
                      [Next]_vars, NEW u \in Threads
               PROVE  OwnedOK(u)'
    OBVIOUS
  <2>1. CASE UNCHANGED vars
    <3>1. UNCHANGED <<open, options, call, proc>>
      BY <2>1 DEF vars, shared
    <3>2. UNCHANGED <<Owned(u), Holds(u), EndsOwned(u), Leaks(u)>>
      BY <3>1 DEF Owned, Holds, EndsOwned, Leaks
    <3>3. Locals(u)' = Locals(u)
      BY <3>1, <3>2 DEF Locals
    <3>4. QED
      BY <3>1, <3>2, <3>3 DEF OwnedOK
  <2>2. CASE Next
    <3>1. PICK t \in Threads : Moves(t)
      BY <2>2, NextMoves
    <3>2. TypeOK /\ PlaceOK(t) /\ EndsOK(t) /\ OwnedOK(t) /\ OwnedOK(u)
      BY DEF Typed
    <3>3. CASE u = t
      BY <3>1, <3>2, <3>3, OwnedStep
    <3>4. CASE u # t
      BY <3>1, <3>2, <3>4, OwnedFrame
    <3>5. QED
      BY <3>3, <3>4
  <2>3. QED
    BY <2>1, <2>2
<1>3. QED
  BY <1>1, <1>2, WindowsTypes, EndsInvariant, PTL DEF Spec

\* reproc_start, reproc_destroy and the calls between them account for every
\* handle: outside a start a thread's open handles are those its reproc_t holds
\* and the files it was given to leak, none of them can be inherited by another
\* thread's child, and WSAStartup has been called once more than WSACleanup for
\* every start that is neither undone nor destroyed.
THEOREM HandlesAreAccounted == Spec => []HandlesAccounted
<1>1. /\ Typed /\ (\A t \in Threads : EndsOK(t)) /\ (\A t \in Threads : OwnedOK(t))
      /\ (\A t \in Threads : InheritOK(t)) /\ WinsockOK
      => HandlesAccounted
  <2> SUFFICES ASSUME Typed, \A t \in Threads : EndsOK(t), \A t \in Threads : OwnedOK(t),
                      \A t \in Threads : InheritOK(t), WinsockOK
               PROVE  HandlesAccounted
    OBVIOUS
  <2>1. winsock = Cardinality({t \in Threads : call[t].pc \notin {"init", "failed", "freed"}
                                /\ (call[t].op = "start" \/ proc[t].status # NOT_STARTED)})
    BY DEF WinsockOK, Referencing, References
  <2>2. ASSUME NEW t \in Threads, call[t].pc \in Resting
        PROVE  /\ {h \in open : h[1] = t} \ Leaks(t) = Holds(t)
               /\ call[t].pc \in {"failed", "freed"} => Holds(t) = {}
               /\ \A h \in inherit : h[1] # t
    <3>1. EndsOK(t) /\ OwnedOK(t) /\ InheritOK(t)
      OBVIOUS
    <3>2. Passing(t) = {}
      BY <2>2 DEF Resting, Passing
    <3>3. \A h \in inherit : h[1] # t
      BY <3>1, <3>2 DEF InheritOK
    <3>4. Owned(t) \ Leaks(t) = Holds(t)
      <4>1. CASE call[t].pc = "init"
        <5>1. call[t].pc \in Starting /\ call[t].pc \notin Undoing
          BY <4>1 DEF Starting, Redirecting, Undoing
        <5>2. \A p \in Roles : call[t].pc \in Before[p]
          BY <4>1 DEF Before, Roles, Streams
        <5>3. EndsOwned(t) = {}
          BY <3>1, <5>1, <5>2, EndsBegin DEF EndsOK
        <5>4. Holds(t) = {}
          BY <3>1, <4>1, <5>1, NoProcess DEF Holds, OwnedOK, Redirecting
        <5>5. QED
          BY <3>1, <5>1, <5>3, <5>4 DEF OwnedOK, Locals
      <4>2. CASE call[t].pc # "init"
        <5>1. call[t].pc \notin Starting
          BY <2>2, <4>2 DEF Resting, Starting, Redirecting, Spawning, Undoing
        <5>2. QED
          BY <3>1, <5>1 DEF OwnedOK
      <4>3. QED
        BY <4>1, <4>2
    <3>5. QED
      BY <3>1, <3>3, <3>4 DEF OwnedOK, Owned
  <2>3. QED
    BY <2>1, <2>2 DEF HandlesAccounted
<1>2. QED
  BY <1>1, WindowsTypes, EndsInvariant, OwnedInvariant, InheritInvariant, WinsockInvariant, PTL

=============================================================================
