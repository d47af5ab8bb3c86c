----------------------------- MODULE ReprocWindows -----------------------------
(***************************************************************************)
(* Threads of one Windows process, each with a reproc_t of its own:        *)
(* reproc_start (reproc.c, redirect.windows.c, pipe.windows.c,             *)
(* process.windows.c) with a failure of every step, reproc_wait,           *)
(* reproc_terminate, reproc_kill and reproc_destroy.  The handles are      *)
(* separate, but the process is one: threads share its error mode, the     *)
(* inheritance flags of the caller's standard handles, the references to   *)
(* Winsock and the flag of reproc_call_once.                               *)
(*                                                                         *)
(* A handle is <<owner, role, end>>.  Exit codes are what a cast to int    *)
(* makes of them, so 0xC0000005 is negative.  Windows is at least Vista,   *)
(* as the build demands.                                                   *)
(***************************************************************************)
EXTENDS Integers, FiniteSets

CONSTANTS
    Threads,
    Users,      \* the threads that call on after reproc_start; the children of
                \* the others keep running
    Configs,    \* the options each thread may call reproc_start with
    Failures,   \* the steps that may fail in each thread, subsets of Fallible
    Errnos,     \* what GetLastError() may be when they do
    Codes       \* exit codes that children choose

ERROR_ACCESS_DENIED == 5
ERROR_INVALID_PARAMETER == 87
ERROR_CALL_NOT_IMPLEMENTED == 120
ERROR_NOT_ENOUGH_SERVER_MEMORY == 1130
WAIT_TIMEOUT == 258
WSAEWOULDBLOCK == 10035
STATUS_CONTROL_C_EXIT == -1073741510  \* (int) 0xC000013A
REPROC_SIGKILL == 137
REPROC_SIGTERM == 143
REPROC_ETIMEDOUT == -WAIT_TIMEOUT

NOT_STARTED == -1
IN_PROGRESS == -2

Streams == {"in", "out", "err"}
Roles == Streams \cup {"exit"}
Redirects == {"pipe", "parent", "discard", "stdout"}

\* `std`: the process has standard handles (a graphical one has none).
Options == [in : Redirects, out : Redirects, err : Redirects,
            std : BOOLEAN, input : BOOLEAN, fork : BOOLEAN]

Fallible == {"init", "options", "pipe", "stale", "in", "out", "err", "input", "once",
             "strings", "env", "inherit", "attributes", "create", "console", "wait"}

ASSUME WindowsAssumption ==
    /\ "app" \notin Threads
    /\ IsFiniteSet(Threads)
    /\ Users \subseteq Threads
    /\ Configs \in [Threads -> SUBSET {o \in Options :
            "stdout" \notin {o.in, o.out} /\ (o.input => o.in = "pipe")}]
    /\ Failures \in [Threads -> SUBSET Fallible]
    /\ Errnos \subseteq Nat \ {0}
    /\ Codes \subseteq Int

VARIABLES
    \* Of the process.
    once,      \* init_once_flag: 0, 1 while init_once runs, 2
    ready,     \* init_once has looked up the attribute list functions
    errorMode, \* SetErrorMode: "caller's" or "quiet"
    inherit,   \* handles with HANDLE_FLAG_INHERIT
    open,      \* handles of the library that are open
    winsock,   \* WSAStartup less WSACleanup
    \* Of each thread.
    options,   \* the options it starts its child with
    call,      \* the call in progress: its statement and its locals
    proc,      \* its reproc_t
    child,     \* its child
    fault,     \* history: the step of reproc_start that failed, and the error
    overlap    \* history: another thread was in process_start at the same time

shared == <<once, ready, errorMode, inherit, open, winsock>>
history == <<fault, overlap>>
vars == <<shared, options, call, proc, child, history>>

None == <<"app", "none", "none">>
Std(s) == <<"app", s, "std">>
Read(t, p) == <<t, p, "read">>
Write(t, p) == <<t, p, "write">>
File(t, s) == <<t, s, "file">>
Process(t) == <<t, "process", "handle">>
MainThread(t) == <<t, "thread", "handle">>

\* The ends of the pipe for role p: the handle's and the child's.
Ours(t, p) == IF p = "in" THEN Write(t, p) ELSE Read(t, p)
Theirs(t, p) == IF p = "in" THEN Read(t, p) ELSE Write(t, p)

Fails(t, step) == step \in Failures[t]

\* Thread t goes on at a statement with result r.
Goto(t, where, r) ==
    /\ call' = [call EXCEPT ![t].pc = where, ![t].r = r]
    /\ UNCHANGED options

\* Step `step` of thread t fails with error e: r = -e, and a label is jumped to.
FailedWith(t, step, e, where) ==
    /\ fault' = [fault EXCEPT ![t] = [step |-> step, errno |-> e]]
    /\ Goto(t, where, -e)
    /\ UNCHANGED overlap
Failed(t, step, where) ==
    /\ Fails(t, step)
    /\ \E e \in Errnos : FailedWith(t, step, e, where)

Init ==
    /\ once = 0
    /\ ready = FALSE
    /\ errorMode = "caller's"
    /\ inherit = {Std(s) : s \in Streams}
    /\ open = {}
    /\ winsock = 0
    /\ options \in [Threads -> UNION {Configs[t] : t \in Threads}]
    /\ \A t \in Threads : options[t] \in Configs[t]
    /\ call = [t \in Threads |-> [pc |-> "init", r |-> -1, i |-> 1, op |-> "start",
                                  end |-> [p \in Roles |-> None],
                                  previous |-> "none", timeout |-> "none"]]
    /\ proc = [t \in Threads |-> [process |-> FALSE, pipe |-> {}, kept |-> {},
                                  status |-> NOT_STARTED]]
    /\ child = [t \in Threads |-> [state |-> "none", code |-> 0, inherits |-> {},
                                   mode |-> "none", ctrl |-> FALSE]]
    /\ fault = [t \in Threads |-> [step |-> "none", errno |-> 0]]
    /\ overlap = [t \in Threads |-> FALSE]
-----------------------------------------------------------------------------
(* reproc_start, up to process_start. *)

\* reproc_start returns at once if Winsock cannot be initialised.
InitWinsock(t) ==
    /\ call[t].pc = "init"
    /\ \/ /\ Failed(t, "init", "failed")
          /\ UNCHANGED winsock
       \/ /\ winsock' = winsock + 1
          /\ Goto(t, "options", 0)
          /\ UNCHANGED history
    /\ UNCHANGED <<once, ready, errorMode, inherit, open, proc, child>>

ParseOptions(t) ==
    /\ call[t].pc = "options"
    /\ \/ Fails(t, "options") /\ FailedWith(t, "options", ERROR_INVALID_PARAMETER, "finish")
       \/ Goto(t, "in", 0) /\ UNCHANGED history
    /\ UNCHANGED <<shared, proc, child>>

\* The calls in which a pipe is made, in order: five of socketpair, two of
\* pipe_init, one of redirect_pipe.  What is open after call n has failed (the
\* server, pair[0], pair[1]), 0 for no failure.
Calls == 0..8
Opened(n) ==
    CASE n = 1 -> {}
      [] n \in {2, 3} -> {"server"}
      [] n \in {4, 5} -> {"server", "read"}
      [] OTHER -> {"server", "read", "write"}
Made(n) == n \notin 1..5

\* socketpair closes the server, and the pair unless it has given it out.
SocketPair(n) == Opened(n) \ (IF Made(n) THEN {"server"} ELSE {"server", "read", "write"})

\* Mutant: pipe_init takes it that socketpair has left nothing when it fails.
PipeInitTrusting(n, stale) ==
    IF n \in {6, 7} THEN SocketPair(n) \ {"read", "write"} ELSE SocketPair(n)

\* pipe_init destroys the pair on every error.  An error is also that
\* socketpair has succeeded and returns the WSAEWOULDBLOCK that connect left.
PipeInit(n, stale) ==
    IF stale \/ n \in 1..7 THEN SocketPair(n) \ {"read", "write"} ELSE SocketPair(n)

\* redirect_pipe destroys both ends if the parent's cannot be made nonblocking.
RedirectPipe(n, stale) == IF n = 8 THEN PipeInit(n, stale) \ {"read", "write"}
                          ELSE PipeInit(n, stale)

\* The pipe for role p, in which call n fails or socketpair's last error is stale.
MakePipe(t, p, next) ==
    \E n \in Calls \ (IF p = "exit" THEN {8} ELSE {}), stale \in {FALSE, Fails(t, "stale")} :
        /\ open' = open \cup {<<t, p, e>> : e \in RedirectPipe(n, stale)}
        /\ \/ /\ n # 0 /\ ~stale
              /\ Failed(t, "pipe", "finish")
              /\ UNCHANGED proc
           \/ /\ n = 0 /\ stale
              /\ FailedWith(t, "stale", WSAEWOULDBLOCK, "finish")
              /\ UNCHANGED proc
           \/ /\ n = 0 /\ ~stale
              /\ proc' = [proc EXCEPT ![t].pipe = @ \cup {p}]
              /\ call' = [call EXCEPT ![t].pc = next, ![t].r = 0, ![t].end[p] = Theirs(t, p)]
              /\ UNCHANGED <<options, history>>

\* redirect_init, for a redirect that is no pipe: the child's end is handle h.
Redirected(t, s, next, h) ==
    /\ call' = [call EXCEPT ![t].pc = next, ![t].r = 0, ![t].end[s] = h]
    /\ open' = open \cup ({h} \cap {File(t, s)})
    /\ UNCHANGED <<options, history>>

After == [in |-> "out", out |-> "err", err |-> "exit"]

\* A standard handle the process does not have is discarded: NUL is opened.
Redirect(t, s) ==
    /\ call[t].pc = s
    /\ LET type == options[t][s]
           target == CASE type = "stdout" -> call[t].end["out"]
                       [] type = "parent" /\ options[t].std -> Std(s)
                       [] OTHER -> File(t, s)
       IN  \/ type = "pipe" /\ MakePipe(t, s, After[s])
           \/ type # "pipe" /\ Redirected(t, s, After[s], target) /\ UNCHANGED proc
           \/ type \notin {"pipe", "stdout"} /\ Failed(t, s, "finish") /\ UNCHANGED <<open, proc>>
    /\ UNCHANGED <<once, ready, errorMode, inherit, winsock, child>>

InitExitPipe(t) ==
    /\ call[t].pc = "exit"
    /\ MakePipe(t, "exit", "input")
    /\ UNCHANGED <<once, ready, errorMode, inherit, winsock, child>>

SetupInput(t) ==
    /\ call[t].pc = "input"
    /\ \/ options[t].input /\ Failed(t, "input", "finish") /\ UNCHANGED <<open, proc>>
       \/ /\ Goto(t, "once", 0)
          /\ IF options[t].input
             THEN /\ open' = open \ {Ours(t, "in")}
                  /\ proc' = [proc EXCEPT ![t].pipe = @ \ {"in"}]
             ELSE UNCHANGED <<open, proc>>
          /\ UNCHANGED history
    /\ UNCHANGED <<once, ready, errorMode, inherit, winsock, child>>
-----------------------------------------------------------------------------
(* process_start. *)

InProcessStart(t) ==
    call[t].pc \in {"initialize", "published", "spin", "strings", "env", "inherit",
                    "attributes", "mode", "create", "restore", "clear", "cleanup"}

\* Mutant: whoever does not run init_once goes on without waiting for it.
OnceHasty == TRUE

\* The busy loop of reproc_call_once ends.
OnceOver == once # 1

\* process_start begins: it does not fork, and reproc_call_once runs init_once
\* in the thread that changes the flag from 0 to 1.
EnterProcessStart(t) ==
    /\ call[t].pc = "once"
    /\ \/ /\ options[t].fork
          /\ FailedWith(t, "once", ERROR_CALL_NOT_IMPLEMENTED, "finish")
          /\ UNCHANGED once
       \/ /\ ~options[t].fork
          /\ Fails(t, "once")
          /\ FailedWith(t, "once", ERROR_NOT_ENOUGH_SERVER_MEMORY, "finish")
          /\ UNCHANGED once
       \/ /\ ~options[t].fork
          /\ once' = IF once = 0 THEN 1 ELSE once
          /\ Goto(t, IF once = 0 THEN "initialize" ELSE "spin", 0)
          /\ overlap' = [u \in Threads |->
                  \/ overlap[u]
                  \/ u = t /\ \E v \in Threads \ {t} : InProcessStart(v)
                  \/ u # t /\ InProcessStart(u)]
          /\ UNCHANGED fault
    /\ UNCHANGED <<ready, errorMode, inherit, open, winsock, proc, child>>

InitOnce(t) ==
    /\ call[t].pc = "initialize"
    /\ ready' = TRUE
    /\ Goto(t, "published", 0)
    /\ UNCHANGED <<once, errorMode, inherit, open, winsock, proc, child, history>>

\* Mutant: the flag keeps its value.
OnceUndone == 1

OnceDone == 2

PublishOnce(t) ==
    /\ call[t].pc = "published"
    /\ once' = OnceDone
    /\ Goto(t, "strings", 0)
    /\ UNCHANGED <<ready, errorMode, inherit, open, winsock, proc, child, history>>

SpinOnce(t) ==
    /\ call[t].pc = "spin"
    /\ OnceOver
    /\ Goto(t, "strings", 0)
    /\ UNCHANGED <<shared, proc, child, history>>

\* The command line and the working directory, then the environment.  When
\* env_concat cannot allocate, nobody sets the last error, which may be 0.
MakeStrings(t) ==
    /\ \/ call[t].pc \in {"strings", "env"} /\ Failed(t, call[t].pc, "clear")
       \/ call[t].pc = "env" /\ Fails(t, "env") /\ FailedWith(t, "env", 0, "clear")
       \/ call[t].pc = "strings" /\ Goto(t, "env", 0) /\ UNCHANGED history
       \/ call[t].pc = "env" /\ Goto(t, "inherit", 0) /\ UNCHANGED history
    /\ UNCHANGED <<shared, proc, child>>

\* handles[] and num_handles: stderr is left out if it is the same as stdout.
NumHandles(t) == IF call[t].end["out"] = call[t].end["err"] THEN 3 ELSE 4
HandleAt(t, i) ==
    call[t].end[CASE i = 1 -> "exit" [] i = 2 -> "in" [] i = 3 -> "out" [] i = 4 -> "err"]
Listed(t) == {HandleAt(t, i) : i \in 1..NumHandles(t)}

\* One round of the loop at statement `at`; the next one, or the statement after.
Round(t, at, next) ==
    /\ IF call[t].i = NumHandles(t)
       THEN call' = [call EXCEPT ![t].i = 1, ![t].pc = next]
       ELSE call' = [call EXCEPT ![t].i = @ + 1]
    /\ UNCHANGED <<options, history>>

SetInherit(t) ==
    /\ call[t].pc = "inherit"
    /\ \/ /\ Fails(t, "inherit")
          /\ \E e \in Errnos :
                /\ fault' = [fault EXCEPT ![t] = [step |-> "inherit", errno |-> e]]
                /\ call' = [call EXCEPT ![t].pc = "clear", ![t].r = -e, ![t].i = 1]
          /\ UNCHANGED <<inherit, options, overlap>>
       \/ /\ inherit' = inherit \cup {HandleAt(t, call[t].i)}
          /\ Round(t, "inherit", "attributes")
    /\ UNCHANGED <<once, ready, errorMode, open, winsock, proc, child>>

\* setup_attribute_list; functions not looked up yet fail without a last error.
SetupAttributeList(t) ==
    /\ call[t].pc = "attributes"
    /\ \/ Failed(t, "attributes", "clear")
       \/ ~ready /\ FailedWith(t, "attributes", 0, "clear")
       \/ ready /\ Goto(t, "mode", 0) /\ UNCHANGED history
    /\ UNCHANGED <<shared, proc, child>>

SetErrorMode(t) ==
    /\ call[t].pc = "mode"
    /\ errorMode' = "quiet"
    /\ call' = [call EXCEPT ![t].pc = "create", ![t].previous = errorMode]
    /\ UNCHANGED <<once, ready, inherit, open, winsock, options, proc, child, history>>

\* CreateProcessW refuses a list with a handle that cannot be inherited.
CreateProcess(t) ==
    /\ call[t].pc = "create"
    /\ \/ /\ Failed(t, "create", "restore")
          /\ UNCHANGED <<open, proc, child>>
       \/ /\ ~(Listed(t) \subseteq inherit)
          /\ FailedWith(t, "race", ERROR_INVALID_PARAMETER, "restore")
          /\ UNCHANGED <<open, proc, child>>
       \/ /\ Listed(t) \subseteq inherit
          /\ open' = open \cup {Process(t), MainThread(t)}
          /\ proc' = [proc EXCEPT ![t].process = TRUE]
          /\ child' = [child EXCEPT ![t] = [@ EXCEPT !.state = "running", !.mode = errorMode,
                                                     !.inherits = Listed(t)]]
          /\ Goto(t, "restore", 0)
          /\ UNCHANGED history
    /\ UNCHANGED <<once, ready, errorMode, inherit, winsock>>

\* Mutant: the mode is put back only when the child has been created.
RestoreOnSuccess(t) == IF call[t].r < 0 THEN errorMode ELSE call[t].previous

RestoredMode(t) == call[t].previous

RestoreErrorMode(t) ==
    /\ call[t].pc = "restore"
    /\ errorMode' = RestoredMode(t)
    /\ call' = [call EXCEPT ![t].pc = "clear", ![t].previous = "none"]
    /\ UNCHANGED <<once, ready, inherit, open, winsock, options, proc, child, history>>

ClearInherit(t) ==
    /\ call[t].pc = "clear"
    /\ inherit' = inherit \ {HandleAt(t, call[t].i)}
    /\ Round(t, "clear", "cleanup")
    /\ UNCHANGED <<once, ready, errorMode, open, winsock, proc, child>>

\* What has been allocated is freed, the thread's handle closed.
Cleanup(t) ==
    /\ call[t].pc = "cleanup"
    /\ open' = open \ {MainThread(t)}
    /\ Goto(t, "finish", IF call[t].r < 0 THEN call[t].r ELSE 1)
    /\ UNCHANGED <<once, ready, errorMode, inherit, winsock, proc, child, history>>

\* The child's ends of streams S that redirect_destroy closes.
Destroyed(t, S) ==
    {call[t].end[s] : s \in {u \in S : options[t][u] \in {"pipe", "discard"}}}

Piped(t) == {s \in {"out", "err"} : options[t][s] = "pipe"}

\* The end of reproc_start.  The child's ends of the output pipes stay open.
Finish(t) ==
    /\ call[t].pc = "finish"
    /\ IF call[t].r < 0
       THEN /\ open' = open \ (Destroyed(t, Streams) \cup {call[t].end["exit"], Process(t)}
                                  \cup {Ours(t, p) : p \in proc[t].pipe})
            /\ proc' = [proc EXCEPT ![t].pipe = {}, ![t].process = FALSE]
            /\ winsock' = winsock - 1
       ELSE /\ open' = open \ (Destroyed(t, Streams \ Piped(t)) \cup {call[t].end["exit"]})
            /\ proc' = [proc EXCEPT ![t].kept = Piped(t), ![t].status = IN_PROGRESS]
            /\ UNCHANGED winsock
    /\ call' = [call EXCEPT ![t].pc = IF call[t].r < 0 THEN "failed" ELSE "idle",
                            ![t].end = [p \in Roles |-> None]]
    /\ UNCHANGED <<once, ready, errorMode, inherit, options, child, history>>
-----------------------------------------------------------------------------
(* The other operations, and the child. *)

Timeouts == {"zero", "finite", "infinite"}

\* Mutant: the last resort is to ask again.
StopActionsMild == <<"wait", "terminate", "terminate">>

\* The stop actions of reproc_destroy; their timeouts are finite.
StopActions == <<"wait", "terminate", "kill">>

\* Without a process handle (see MakeStrings) the calls below are undefined.
CallWait(t) ==
    /\ call[t].pc = "idle"
    /\ proc[t].process
    /\ \E timeout \in Timeouts :
          call' = [call EXCEPT ![t] = IF proc[t].status >= 0
                     THEN [@ EXCEPT !.op = "wait", !.r = proc[t].status]
                     ELSE [@ EXCEPT !.op = "wait", !.pc = "poll", !.timeout = timeout]]
    /\ UNCHANGED <<shared, options, proc, child, history>>

CallSignal(t, op) ==
    /\ call[t].pc = "idle"
    /\ proc[t].process
    /\ call' = [call EXCEPT ![t] = IF proc[t].status >= 0
                  THEN [@ EXCEPT !.op = op, !.r = 0]
                  ELSE [@ EXCEPT !.op = op, !.pc = "signal"]]
    /\ UNCHANGED <<shared, options, proc, child, history>>

CallDestroy(t) ==
    /\ \/ call[t].pc = "failed"
       \/ call[t].pc = "idle" /\ proc[t].process
    /\ call' = [call EXCEPT ![t].op = "destroy", ![t].i = 1,
                            ![t].pc = IF proc[t].status = IN_PROGRESS THEN "stop" ELSE "release"]
    /\ UNCHANGED <<shared, options, proc, child, history>>

Stop(t) ==
    /\ call[t].pc = "stop"
    /\ call' = [call EXCEPT ![t].timeout = "finite",
            ![t].pc = IF call[t].i > 3 THEN "release"
                      ELSE IF StopActions[call[t].i] = "wait" THEN "poll" ELSE "signal"]
    /\ UNCHANGED <<shared, options, proc, child, history>>

\* Where a call goes on when reproc_wait, or reproc_terminate and reproc_kill,
\* return r: back to the caller, or to the loop of reproc_stop.
AfterWait(t, r) ==
    call' = [call EXCEPT ![t].r = r,
        ![t].i = IF call[t].op = "destroy" THEN @ + 1 ELSE @,
        ![t].timeout = IF call[t].op = "wait" THEN "none" ELSE @,
        ![t].pc = IF call[t].op = "wait" THEN "idle"
                  ELSE IF r = REPROC_ETIMEDOUT THEN "stop" ELSE "release"]
AfterSignal(t, r) ==
    call' = [call EXCEPT ![t].r = r,
        ![t].pc = IF call[t].op # "destroy" THEN "idle" ELSE IF r < 0 THEN "release" ELSE "poll"]

\* process_terminate: the console control event, which a process without a
\* console cannot send, is delivered to a child that is still there.
Terminate(t) ==
    /\ \/ Fails(t, "console") /\ \E e \in Errnos : AfterSignal(t, -e) /\ UNCHANGED child
       \/ child[t].state # "running" /\ AfterSignal(t, -ERROR_INVALID_PARAMETER) /\ UNCHANGED child
       \/ AfterSignal(t, 0) /\ child' = [child EXCEPT ![t].ctrl = (child[t].state = "running")]

\* The child's handles are closed when it ends; it is signalled later.
Exiting(t, code) ==
    child' = [child EXCEPT ![t] = [@ EXCEPT !.state = "exiting", !.code = code,
                                            !.inherits = {}, !.ctrl = FALSE]]

\* Mutant: the process is left alone.
TerminateNothing(t) == UNCHANGED child

\* TerminateProcess and the result made of it: it fails on a process that is
\* ending already.
TerminateProcess(t) ==
    IF child[t].state = "running" THEN Exiting(t, REPROC_SIGKILL) ELSE UNCHANGED child
Terminated(t) == IF child[t].state = "running" THEN 0 ELSE -ERROR_ACCESS_DENIED

Signal(t) ==
    /\ call[t].pc = "signal"
    /\ IF "kill" = (IF call[t].op = "destroy" THEN StopActions[call[t].i] ELSE call[t].op)
       THEN TerminateProcess(t) /\ AfterSignal(t, Terminated(t))
       ELSE Terminate(t)
    /\ UNCHANGED <<shared, options, proc, history>>

\* pipe_poll on the exit pipe, which hangs up when nobody can write to it.
Poll(t) ==
    /\ call[t].pc = "poll"
    /\ IF Write(t, "exit") \notin child[t].inherits
       THEN call' = [call EXCEPT ![t].pc = "object"]
       ELSE call[t].timeout # "infinite" /\ AfterWait(t, REPROC_ETIMEDOUT)
    /\ UNCHANGED <<shared, options, proc, child, history>>

ExitStatus(code) == IF code = STATUS_CONTROL_C_EXIT THEN REPROC_SIGTERM ELSE code

\* reproc_wait with result r of process_wait: an error, or the exit status.
Waited(t, r) ==
    /\ AfterWait(t, r)
    /\ IF r < 0
       THEN UNCHANGED <<open, proc>>
       ELSE /\ open' = open \ {Ours(t, "exit")}
            /\ proc' = [proc EXCEPT ![t].pipe = @ \ {"exit"}, ![t].status = r]

\* process_wait.  A wait that times out terminates the process.
ProcessWait(t) ==
    /\ call[t].pc = "object"
    /\ \/ Fails(t, "wait") /\ \E e \in Errnos : Waited(t, -e) /\ UNCHANGED child
       \/ child[t].state = "ended" /\ Waited(t, ExitStatus(child[t].code)) /\ UNCHANGED child
       \/ /\ child[t].state # "ended"
          /\ call[t].timeout # "infinite"
          /\ TerminateProcess(t)
          /\ Waited(t, Terminated(t))
    /\ UNCHANGED <<once, ready, errorMode, inherit, winsock, options, history>>

\* The end of reproc_destroy.
Release(t) ==
    /\ call[t].pc = "release"
    /\ open' = open \ ({Process(t)} \cup {Ours(t, p) : p \in proc[t].pipe}
                                     \cup {Theirs(t, s) : s \in proc[t].kept})
    /\ winsock' = IF proc[t].status = NOT_STARTED THEN winsock ELSE winsock - 1
    /\ proc' = [proc EXCEPT ![t].process = FALSE, ![t].pipe = {}, ![t].kept = {}]
    /\ call' = [call EXCEPT ![t].pc = "freed"]
    /\ UNCHANGED <<once, ready, errorMode, inherit, options, child, history>>

ChildExits(t) ==
    /\ child[t].state = "running"
    /\ \/ \E code \in Codes : Exiting(t, code)
       \/ child[t].ctrl /\ Exiting(t, STATUS_CONTROL_C_EXIT)
    /\ UNCHANGED <<shared, options, call, proc, history>>

ChildSignalled(t) ==
    /\ child[t].state = "exiting"
    /\ child' = [child EXCEPT ![t].state = "ended"]
    /\ UNCHANGED <<shared, options, call, proc, history>>

\* The child closes the end of the exit pipe it has inherited.
ChildClosesExit(t) ==
    /\ child[t].state = "running"
    /\ Write(t, "exit") \in child[t].inherits
    /\ child' = [child EXCEPT ![t].inherits = @ \ {Write(t, "exit")}]
    /\ UNCHANGED <<shared, options, call, proc, history>>
-----------------------------------------------------------------------------
Start(t) ==
    \/ InitWinsock(t) \/ ParseOptions(t) \/ \E s \in Streams : Redirect(t, s)
    \/ InitExitPipe(t) \/ SetupInput(t)
    \/ EnterProcessStart(t) \/ InitOnce(t) \/ PublishOnce(t) \/ SpinOnce(t)
    \/ MakeStrings(t) \/ SetInherit(t) \/ SetupAttributeList(t) \/ SetErrorMode(t)
    \/ CreateProcess(t) \/ RestoreErrorMode(t) \/ ClearInherit(t) \/ Cleanup(t)
    \/ Finish(t)

Step(t) == Start(t) \/ Stop(t) \/ Signal(t) \/ Poll(t) \/ ProcessWait(t) \/ Release(t)

Begin(t) == CallWait(t) \/ CallDestroy(t) \/ \E op \in {"terminate", "kill"} : CallSignal(t, op)

Child(t) == ChildExits(t) \/ ChildSignalled(t) \/ ChildClosesExit(t)

Next == (\E t \in Threads : Step(t)) \/ (\E t \in Users : Begin(t) \/ Child(t))

Spec == Init /\ [][Next]_vars

\* Threads inside the library are scheduled.  Nothing makes callers call or
\* children end, except that one that is ending gets there.
FairSpec == Spec /\ \A t \in Threads : WF_vars(Step(t)) /\ WF_vars(ChildSignalled(t))
-----------------------------------------------------------------------------
(* Properties. *)

Started(t) == call[t].pc = "idle"
Resting == {"init", "idle", "failed", "freed"}

\* What the handle of thread t holds.
Holds(t) ==
    {Ours(t, p) : p \in proc[t].pipe} \cup {Theirs(t, s) : s \in proc[t].kept}
        \cup (IF proc[t].process THEN {Process(t)} ELSE {})

\* NUL, opened in place of a standard handle the process does not have, is not
\* closed again: redirect_destroy takes it for the parent's.
Leaks(t) == {File(t, s) : s \in {u \in Streams : options[t][u] = "parent" /\ ~options[t].std}}

\* Between calls exactly what the reproc_t holds is open, whatever has failed and
\* wherever the calls were left, but for Leaks; none of it can be inherited, and
\* Winsock is referenced once for every start that is not undone or destroyed.
HandlesAccounted ==
    /\ \A t \in Threads : call[t].pc \in Resting =>
        /\ {h \in open : h[1] = t} \ Leaks(t) = Holds(t)
        /\ call[t].pc \in {"failed", "freed"} => Holds(t) = {}
        /\ \A h \in inherit : h[1] # t
    /\ winsock = Cardinality({t \in Threads : call[t].pc \notin {"init", "failed", "freed"}
                                /\ (call[t].op = "start" \/ proc[t].status # NOT_STARTED)})

\* reproc_start returns the error of the step that failed, and then there is no
\* child; else there is one.  Exceptions: env_concat fails without an error, and
\* two starts that share the standard handles get in each other's way.
StartTrue ==
    \A t \in Threads :
        /\ Started(t) /\ fault[t].step # "env" => child[t].state # "none" /\ fault[t].errno = 0
        /\ call[t].pc = "failed" =>
            /\ call[t].r = -fault[t].errno
            /\ child[t].state = "none"
            /\ fault[t].step = "race" =>
                overlap[t] /\ options[t].std /\ \E s \in Streams : options[t][s] = "parent"

\* A start alone in process_start creates the child in the quiet mode, and when
\* it is over the process has the error mode it had before.
ErrorModeContained ==
    \A t \in Threads : ~overlap[t] =>
        /\ child[t].mode \in {"none", "quiet"}
        /\ (\A u \in Threads : ~overlap[u] /\ ~InProcessStart(u)) => errorMode = "caller's"

\* An exit status in the handle is the child's code (a control event counts as
\* SIGTERM) and the child has ended, unless a wait timed out after the exit pipe
\* had hung up: then the child is terminated and the status is 0.
StatusTrue ==
    \A t \in Threads : proc[t].status >= 0 =>
        \/ child[t].state = "ended" /\ proc[t].status = ExitStatus(child[t].code)
        \/ child[t].code = REPROC_SIGKILL /\ proc[t].status = 0

\* A destroyed handle leaves no running child, unless the console control event
\* cannot be sent or the wait on the process fails: reproc_stop then does not get
\* to the kill.
DestroyLeavesNoChild ==
    \A t \in Threads : call[t].pc = "freed" /\ child[t].state = "running"
        => /\ Fails(t, "console") \/ Fails(t, "wait")
           /\ call[t].r < 0 /\ call[t].r # REPROC_ETIMEDOUT

\* Calls return: no start is left in the busy loop of reproc_call_once, and no
\* wait with a timeout, nor reproc_destroy, waits for the child for ever.
CallsReturn ==
    \A t \in Threads : call[t].timeout # "infinite"
        ~> call[t].pc \in Resting \/ call[t].timeout = "infinite"
=============================================================================
