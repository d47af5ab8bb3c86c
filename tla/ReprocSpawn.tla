------------------------------ MODULE ReprocSpawn ------------------------------
(***************************************************************************)
(* One reproc_start on POSIX (reproc.c, redirect.c, process.posix.c): the  *)
(* descriptors it opens, the error pipe of process_start and the one of    *)
(* process_fork, the signal mask, and the child between fork and exec,     *)
(* with a failure at every step that can fail.                             *)
(*                                                                         *)
(* A descriptor is named for its role.  The parent and the child each have *)
(* a descriptor table; what is written to an error pipe is its message.    *)
(* Assertions are compiled out, as in a release build.                     *)
(***************************************************************************)
EXTENDS Integers, FiniteSets

CONSTANTS
    Configs,    \* the options reproc_start may be called with
    Failures,   \* the steps that may fail, a subset of Fallible
    Errnos,     \* what errno may be when they do
    Interrupts  \* may a signal handler interrupt read(2) and waitpid(2)?

EINTR  == 4
EINVAL == 22
EMFILE == 24

Streams == {"in", "out", "err"}
\* "parent" is any handle of the caller's, "missing" REPROC_REDIRECT_PARENT for a
\* stream the parent does not have, "discard" any file opened by name.
Redirects == {"pipe", "parent", "missing", "discard", "stdout"}
Options == [in : Redirects, out : Redirects, err : Redirects,
            input : BOOLEAN, fork : BOOLEAN]

\* Steps that may fail, of the parent and of the child, by the statement they
\* are at; "refuse" is the second way to fail at "limit".
Fallible == {"options", "in", "out", "err", "exit", "input", "errorPipe", "program",
             "env", "mask", "forkPipe", "fork", "handlers", "unmask", "limit",
             "refuse", "dup", "cloexec", "chdir", "exec"}

ASSUME SpawnAssumption ==
    /\ Configs \subseteq {o \in Options : /\ "stdout" \notin {o.in, o.out}
                                          /\ o.input => o.in = "pipe"}
    /\ Failures \subseteq Fallible
    /\ Errnos \subseteq Nat \ {0}
    /\ Interrupts \in BOOLEAN

VARIABLES
    options,   \* the options of the call
    pc,        \* the statement of the parent
    r,         \* the local r: 0, 1 or a negated errno
    fds,       \* descriptors of the call that are open in the parent
    pipe,      \* process->pipe
    end,       \* the local struct child of reproc_start
    handle,    \* process->handle
    mask,      \* signals blocked in the calling thread: "caller's" or "all"
    child,     \* the child: "none", "alive", "zombie" or "reaped"
    cpc,       \* the statement of the child
    cfds,      \* descriptors of the call that are open in the child
    cends,     \* the child's copy of end
    cmask,     \* signals blocked in the child: "all" or "none"
    handlers,  \* signals for which the child still has handlers of the parent
    message,   \* per error pipe: the errno written to it, or 0
    cause,     \* the errno of the step that failed, or 0
    faults,    \* the steps that failed; "interrupted" is a call broken off
    bad        \* a descriptor was closed that is not open, or not ours

parentVars == <<pc, r, fds, pipe, end, handle, mask>>
childVars  == <<cpc, cfds, cends, cmask, handlers, message>>
vars == <<options, parentVars, child, childVars, cause, faults, bad>>

\* The roles of descriptors.
ParentEnd == [in |-> "in.write", out |-> "out.read", err |-> "err.read"]
ChildEnd  == [in |-> "in.read", out |-> "out.write", err |-> "err.write"]
ErrorPipe == {"error.read", "error.write"}  \* of process_start
ForkPipe  == {"fork.read", "fork.write"}    \* of process_fork

\* Where the parent is in reading an error pipe.
CloseAt == [fork |-> "fork.close", error |-> "error.close"]
ReadAt  == [fork |-> "fork.read", error |-> "error.read"]
ReapAt  == [fork |-> "fork.reap", error |-> "error.reap"]
Writer  == [fork |-> "fork.write", error |-> "error.write"]

\* Signals 1 to 31, and those above.
Signals == {"standard", "real-time"}

Invalid == [s \in Streams \cup {"exit"} |-> "invalid"]

Fails(step) == step \in Failures

\* Destroying handles: the invalid one is no handle, any other must be open.
Destroy(S) ==
    /\ fds' = fds \ S
    /\ bad' = (bad \/ ~(S \ {"invalid"} \subseteq fds))

CDestroy(S) ==
    /\ cfds' = cfds \ S
    /\ bad' = (bad \/ ~(S \ {"invalid"} \subseteq cfds))

Goto(where) == pc' = where /\ UNCHANGED options

\* A step of the parent fails: r is set and a label is jumped to.
Failed(where) ==
    /\ \E e \in Errnos : r' = -e /\ cause' = e
    /\ faults' = faults \cup {pc}
    /\ Goto(where)

\* Mutant: the child's stderr is closed although it is the child's stdout.
OwnedTwice(ends) ==
    {ends[s] : s \in {t \in Streams : options[t] \in {"pipe", "discard", "stdout"}}}

\* The child's ends that redirect_destroy closes, by the type of the redirect: the
\* null device that stands in for a missing stream of the parent is not among them.
Owned(ends) ==
    {ends[s] : s \in {t \in Streams : options[t] \in {"pipe", "discard"}}}
-----------------------------------------------------------------------------
(* reproc_start, up to process_start. *)

Init ==
    /\ options \in Configs
    /\ pc = "options"
    /\ r = -1
    /\ fds = {}
    /\ pipe = Invalid
    /\ end = Invalid
    /\ handle = "invalid"
    /\ mask = "caller's"
    /\ child = "none"
    /\ cpc = "none"
    /\ cfds = {}
    /\ cends = Invalid
    /\ cmask = "none"
    /\ handlers = Signals
    /\ message = [p \in {"error", "fork"} |-> 0]
    /\ cause = 0
    /\ faults = {}
    /\ bad = FALSE

ParseOptions ==
    /\ pc = "options"
    /\ \/ /\ Fails("options")
          /\ r' = -EINVAL /\ cause' = EINVAL
          /\ faults' = {"options"}
          /\ Goto("finish")
       \/ /\ r' = 0
          /\ Goto("in")
          /\ UNCHANGED <<cause, faults>>
    /\ UNCHANGED <<fds, pipe, end, handle, mask, child, childVars, bad>>

After == [in |-> "out", out |-> "err", err |-> "exit"]

\* redirect_init on stream s.  A handle of the caller's is not one of ours; where the
\* parent has no such stream the null device is opened instead.
Redirect(s) ==
    /\ pc = s
    /\ \/ /\ Fails(s)
          /\ options[s] # "stdout"
          /\ Failed("finish")
          /\ UNCHANGED <<fds, pipe, end>>
       \/ /\ r' = 0
          /\ Goto(After[s])
          /\ pipe' = [pipe EXCEPT ![s] = IF options[s] = "pipe" THEN ParentEnd[s] ELSE "invalid"]
          /\ end' = [end EXCEPT ![s] = CASE options[s] = "stdout" -> end["out"]
                                         [] options[s] = "parent" -> "caller's"
                                         [] OTHER -> ChildEnd[s]]
          /\ fds' = fds \cup (CASE options[s] = "pipe" -> {ParentEnd[s], ChildEnd[s]}
                                [] options[s] \in {"discard", "missing"} -> {ChildEnd[s]}
                                [] OTHER -> {})
          /\ UNCHANGED <<cause, faults>>
    /\ UNCHANGED <<handle, mask, child, childVars, bad>>

InitExitPipe ==
    /\ pc = "exit"
    /\ \/ /\ Fails("exit")
          /\ Failed("finish")
          /\ UNCHANGED <<fds, pipe, end>>
       \/ /\ r' = 0
          /\ Goto("input")
          /\ pipe' = [pipe EXCEPT !["exit"] = "exit.read"]
          /\ end' = [end EXCEPT !["exit"] = "exit.write"]
          /\ fds' = fds \cup {"exit.read", "exit.write"}
          /\ UNCHANGED <<cause, faults>>
    /\ UNCHANGED <<handle, mask, child, childVars, bad>>

\* The input is written and its pipe closed; an input that does not fit into
\* the pipe is one of the failures.
SetupInput ==
    /\ pc = "input"
    /\ \/ /\ options.input
          /\ Fails("input")
          /\ Failed("finish")
          /\ UNCHANGED <<fds, pipe, bad>>
       \/ /\ r' = 0
          /\ Goto("errorPipe")
          /\ IF options.input
             THEN Destroy({pipe["in"]}) /\ pipe' = [pipe EXCEPT !["in"] = "invalid"]
             ELSE UNCHANGED <<fds, pipe, bad>>
          /\ UNCHANGED <<cause, faults>>
    /\ UNCHANGED <<end, handle, mask, child, childVars>>
-----------------------------------------------------------------------------
(* process_start and process_fork in the parent. *)

\* The error pipe, the program's path and the environment of the child.  An
\* environment that cannot be allocated leaves r as it is.
Prepare ==
    /\ \/ /\ pc \in {"errorPipe", "program"}
          /\ Fails(pc)
          /\ pc = "program" => ~options.fork
          /\ Failed("cleanup")
          /\ UNCHANGED fds
       \/ /\ pc = "errorPipe"
          /\ Goto("program")
          /\ fds' = fds \cup ErrorPipe
          /\ UNCHANGED <<r, cause, faults>>
       \/ /\ pc = "program"
          /\ Goto("env")
          /\ UNCHANGED <<r, cause, faults, fds>>
       \/ /\ pc = "env"
          /\ \/ Goto("mask") /\ UNCHANGED faults
             \/ Fails("env") /\ Goto("cleanup") /\ faults' = {"env"}
          /\ UNCHANGED <<r, cause, fds>>
    /\ UNCHANGED <<pipe, end, handle, mask, child, childVars, bad>>

BlockedForFork == "all"

MaskSignals ==
    /\ pc = "mask"
    /\ \/ /\ Fails("mask")
          /\ Failed("cleanup")
          /\ UNCHANGED mask
       \/ /\ Goto("forkPipe")
          /\ mask' = BlockedForFork
          /\ UNCHANGED <<r, cause, faults>>
    /\ UNCHANGED <<fds, pipe, end, handle, child, childVars, bad>>

InitForkPipe ==
    /\ pc = "forkPipe"
    /\ \/ /\ Fails("forkPipe")
          /\ Failed("cleanup")
          /\ UNCHANGED fds
       \/ /\ Goto("fork")
          /\ fds' = fds \cup ForkPipe
          /\ UNCHANGED <<r, cause, faults>>
    /\ UNCHANGED <<pipe, end, handle, mask, child, childVars, bad>>

ForkFails ==
    /\ pc = "fork"
    /\ Fails("fork")
    /\ Failed("cleanup")
    /\ Destroy(ForkPipe)
    /\ UNCHANGED <<pipe, end, handle, mask, child, childVars>>

Fork ==
    /\ pc = "fork"
    /\ Goto("restore")
    /\ child' = "alive"
    /\ cpc' = "handlers"
    /\ cfds' = fds
    /\ cends' = end
    /\ cmask' = mask
    /\ UNCHANGED <<r, fds, pipe, end, handle, mask, handlers, message, cause, faults, bad>>

RestoredMask == "caller's"

RestoreMask ==
    /\ pc = "restore"
    /\ Goto("fork.close")
    /\ mask' = RestoredMask
    /\ UNCHANGED <<r, fds, pipe, end, handle, child, childVars, cause, faults, bad>>

\* Mutant: the parent keeps its copy of the write end.
KeepWrite(p) == {}

WriteEnd(p) == {Writer[p]}

\* The parent closes its write end of the error pipe p before it reads.
CloseWrite(p) ==
    /\ pc = CloseAt[p]
    /\ Goto(ReadAt[p])
    /\ Destroy(WriteEnd(p))
    /\ UNCHANGED <<r, pipe, end, handle, mask, child, childVars, cause, faults>>

\* Nobody holds the write end of error pipe p any more.
EndOfFile(p) == Writer[p] \notin fds \cup cfds

\* No errno was read: the child is on its way (process_fork) or has started
\* (process_start).
NoErrno(p) ==
    /\ IF p = "fork"
       THEN /\ Goto("error.close")
            /\ Destroy({"fork.read"})
            /\ UNCHANGED <<r, handle>>
       ELSE /\ Goto("cleanup")
            /\ handle' = "child"
            /\ r' = 0
            /\ UNCHANGED <<fds, bad>>
    /\ UNCHANGED <<pipe, end, mask, child, childVars, cause>>

ReadEnd(p) ==
    /\ pc = ReadAt[p]
    /\ message[p] = 0
    /\ EndOfFile(p)
    /\ NoErrno(p)
    /\ UNCHANGED faults

\* A read(2) that a signal handler interrupts is not told from an end of file.
ReadInterrupted(p) ==
    /\ Interrupts
    /\ pc = ReadAt[p]
    /\ NoErrno(p)
    /\ faults' = faults \cup {"interrupted"}

ReadErrno(p) ==
    /\ pc = ReadAt[p]
    /\ message[p] # 0
    /\ Goto(ReapAt[p])
    /\ UNCHANGED <<r, fds, pipe, end, handle, mask, child, childVars, cause, faults, bad>>

\* Mutants: the error is reported without reaping the child; errno is returned
\* as it is.
WaitpidNot(p) ==
    /\ r' = -message[p]
    /\ UNCHANGED <<child, faults>>
WaitpidPositive(p) ==
    /\ child = "zombie"
    /\ child' = "reaped"
    /\ r' = message[p]
    /\ UNCHANGED faults

\* waitpid(2) on the child that reported an error.
Waitpid(p) ==
    /\ child = "zombie"
    /\ child' = "reaped"
    /\ r' = -message[p]
    /\ UNCHANGED faults

WaitpidInterrupted ==
    /\ Interrupts
    /\ r' = -EINTR
    /\ faults' = faults \cup {"interrupted"}
    /\ UNCHANGED child

Reap(p) ==
    /\ pc = ReapAt[p]
    /\ Waitpid(p) \/ WaitpidInterrupted
    /\ Goto("cleanup")
    /\ IF p = "fork" THEN Destroy({"fork.read"}) ELSE UNCHANGED <<fds, bad>>
    /\ UNCHANGED <<pipe, end, handle, mask, childVars, cause>>

\* The end of process_start.  The write end may have been closed already.
Cleanup ==
    /\ pc = "cleanup"
    /\ Goto("finish")
    /\ r' = IF r < 0 THEN r ELSE 1
    /\ Destroy(ErrorPipe \cap fds)
    /\ UNCHANGED <<pipe, end, handle, mask, child, childVars, cause, faults>>

HandlePipes == {pipe[s] : s \in Streams \cup {"exit"}}

\* The end of reproc_start.
Finish ==
    /\ pc = "finish"
    /\ Goto("returned")
    /\ end' = Invalid
    /\ IF r < 0
       THEN /\ Destroy(Owned(end) \cup {end["exit"]} \cup HandlePipes)
            /\ handle' = "invalid"
            /\ pipe' = Invalid
       ELSE /\ Destroy(Owned(end) \cup {end["exit"]})
            /\ UNCHANGED <<handle, pipe>>
    /\ UNCHANGED <<r, mask, child, childVars, cause, faults>>
-----------------------------------------------------------------------------
(* The child, from fork to the program. *)

CGoto(where) == cpc' = where /\ UNCHANGED <<options, parentVars>>

\* The child writes errno to error pipe p and exits.
CReport(p, errno) ==
    /\ message' = [message EXCEPT ![p] = errno]
    /\ CGoto("failed")
    /\ cfds' = {}
    /\ child' = "zombie"

CFailed(p) ==
    /\ \E e \in Errnos : cause' = e /\ CReport(p, e)
    /\ faults' = faults \cup {cpc}

\* The loop resets signals 0 to 31 and no others.
ResetHandlers ==
    /\ cpc = "handlers"
    /\ \/ /\ Fails("handlers")
          /\ CFailed("fork")
          /\ UNCHANGED handlers
       \/ /\ handlers' = handlers \ {"standard"}
          /\ CGoto("unmask")
          /\ UNCHANGED <<child, cfds, message, cause, faults>>
    /\ UNCHANGED <<cends, cmask, bad>>

UnmaskSignals ==
    /\ cpc = "unmask"
    /\ \/ /\ Fails("unmask")
          /\ CFailed("fork")
          /\ UNCHANGED cmask
       \/ /\ cmask' = "none"
          /\ CGoto("limit")
          /\ UNCHANGED <<child, cfds, message, cause, faults>>
    /\ UNCHANGED <<cends, handlers, bad>>

\* get_max_fd.  With too many descriptors to close r is EMFILE, and errno is
\* still what sigaction(2) has left for SIGKILL: EINVAL.
LimitFds ==
    /\ cpc = "limit"
    /\ \/ Fails("limit") /\ CFailed("fork")
       \/ /\ Fails("refuse")
          /\ cause' = EMFILE
          /\ faults' = faults \cup {"refuse"}
          /\ CReport("fork", EINVAL)
       \/ CGoto("close") /\ UNCHANGED <<child, cfds, message, cause, faults>>
    /\ UNCHANGED <<cends, cmask, handlers, bad>>

\* Mutant: the child's exit handle is forgotten.
ExceptStreams == {cends[s] : s \in Streams} \cup ErrorPipe \cup ForkPipe

Except == {cends[s] : s \in Streams \cup {"exit"}} \cup ErrorPipe \cup ForkPipe

\* The loop that closes what was not made close-on-exec.
CloseFds ==
    /\ cpc = "close"
    /\ cfds' = cfds \cap Except
    /\ CGoto("detach")
    /\ UNCHANGED <<child, cends, cmask, handlers, message, cause, faults, bad>>

Detach ==
    /\ cpc = "detach"
    /\ CDestroy(ForkPipe)
    /\ CGoto("dup")
    /\ UNCHANGED <<child, cends, cmask, handlers, message, cause, faults>>

CNext == [dup |-> "cloexec", cloexec |-> "chdir", chdir |-> "exec"]

\* dup2 onto the standard streams, keeping the exit handle open, chdir.
SetUp ==
    /\ cpc \in DOMAIN CNext
    /\ \/ Fails(cpc) /\ CFailed("error")
       \/ CGoto(CNext[cpc]) /\ UNCHANGED <<child, cfds, message, cause, faults>>
    /\ UNCHANGED <<cends, cmask, handlers, bad>>

\* The program inherits the exit handle, all else is close-on-exec, and execve(2)
\* leaves no handler installed.
Exec ==
    /\ cpc = "exec"
    /\ ~options.fork
    /\ \/ Fails("exec") /\ CFailed("error") /\ UNCHANGED handlers
       \/ /\ cfds' = cfds \cap {"exit.write"}
          /\ handlers' = {}
          /\ CGoto("program")
          /\ UNCHANGED <<child, message, cause, faults>>
    /\ UNCHANGED <<cends, cmask, bad>>

\* process_start and reproc_start return 0 in the child.
ReturnInChild ==
    /\ \/ /\ cpc = "exec"
          /\ options.fork
          /\ CDestroy(ErrorPipe)
          /\ CGoto("finish")
       \/ /\ cpc = "finish"
          /\ CDestroy(Owned(cends) \cup {cends["exit"]})
          /\ CGoto("program")
    /\ UNCHANGED <<child, cends, cmask, handlers, message, cause, faults>>

\* The program, or in fork mode the application's own code, comes to its end.
ProgramEnds ==
    /\ cpc = "program"
    /\ child = "alive"
    /\ child' = "zombie"
    /\ cfds' = {}
    /\ UNCHANGED <<options, parentVars, cpc, cends, cmask, handlers, message, cause, faults, bad>>
-----------------------------------------------------------------------------
Parent ==
    \/ ParseOptions \/ (\E s \in Streams : Redirect(s)) \/ InitExitPipe \/ SetupInput
    \/ Prepare \/ MaskSignals \/ InitForkPipe \/ ForkFails \/ Fork \/ RestoreMask
    \/ \E p \in {"fork", "error"} : CloseWrite(p) \/ ReadEnd(p) \/ ReadErrno(p) \/ Reap(p)
    \/ Cleanup \/ Finish

Child ==
    \/ ResetHandlers \/ UnmaskSignals \/ LimitFds \/ CloseFds \/ Detach
    \/ SetUp \/ Exec \/ ReturnInChild

Next ==
    \/ Parent
    \/ \E p \in {"fork", "error"} : ReadInterrupted(p)
    \/ Child
    \/ ProgramEnds

Spec == Init /\ [][Next]_vars

\* Both processes are scheduled; the program need not end, and no signal need
\* interrupt a read.
FairSpec == Spec /\ WF_vars(Parent) /\ WF_vars(Child)
-----------------------------------------------------------------------------
(* Properties. *)

Fds == {"in.read", "in.write", "out.read", "out.write", "err.read", "err.write",
        "exit.read", "exit.write"} \cup ErrorPipe \cup ForkPipe

Ends == [Streams \cup {"exit"} -> Fds \cup {"invalid", "caller's"}]

Pcs == {"options", "in", "out", "err", "exit", "input", "errorPipe", "program", "env",
        "mask", "forkPipe", "fork", "restore", "fork.close", "fork.read", "fork.reap",
        "error.close", "error.read", "error.reap", "cleanup", "finish", "returned"}

CPcs == {"none", "handlers", "unmask", "limit", "close", "detach", "dup", "cloexec",
         "chdir", "exec", "finish", "program", "failed"}

Errors == Errnos \cup {EINTR, EINVAL, EMFILE}

Results == {0, 1, -1} \cup {-e : e \in Errors}

\* Every variable keeps its type on every path through reproc_start.
TypeOK ==
    /\ options \in Configs
    /\ pc \in Pcs
    /\ r \in Results
    /\ fds \subseteq Fds
    /\ pipe \in Ends
    /\ end \in Ends
    /\ handle \in {"invalid", "child"}
    /\ mask \in {"caller's", "all"}
    /\ child \in {"none", "alive", "zombie", "reaped"}
    /\ cpc \in CPcs
    /\ cfds \subseteq Fds
    /\ cends \in Ends
    /\ cmask \in {"none", "all"}
    /\ handlers \subseteq Signals
    /\ message \in [{"error", "fork"} -> {0} \cup Errors]
    /\ cause \in {0} \cup Errors
    /\ faults \subseteq Fallible \cup {"interrupted"}
    /\ bad \in BOOLEAN

\* No path closes a descriptor twice, one that was never opened, or one that
\* belongs to the caller, in the parent or in the child.
ClosesOwn == ~bad

\* The null devices that redirect_init opens in place of streams the parent does not
\* have (redirect.c:64-67).  redirect_destroy goes by the type PARENT and closes none.
NullDevices == {ChildEnd[s] : s \in {t \in Streams : options[t] = "missing"}}

\* When reproc_start returns, the open descriptors are those the handle holds: the
\* ends of the piped streams and of the exit pipe, none after an error; and for good
\* the NullDevices.
DescriptorsAccounted ==
    pc = "returned" => /\ fds \ NullDevices = HandlePipes \ {"invalid"}
                       /\ r < 0 => fds \subseteq NullDevices
                       /\ r > 0 => "exit.read" \in fds

\* The calling thread's signal mask is what it was, unless fork or the pipe
\* before it fails: process_fork then leaves every signal blocked.
MaskRestored ==
    pc = "returned" /\ faults \cap {"fork", "forkPipe"} = {} => mask = "caller's"

\* reproc.h: "If an error occurs during `reproc_start` all allocated resources
\* are cleaned up": descriptors, each of them once, and the signal mask.  Excepted
\* are the NullDevices, and the mask where fork or its pipe fails.
StartCleansUp == ClosesOwn /\ DescriptorsAccounted /\ MaskRestored

\* reproc.h: "If this function does not return an error the child process will
\* have started running", unless the environment cannot be allocated or a signal
\* handler interrupts the read of an error pipe.
StartedMeansRunning ==
    pc = "returned" /\ r > 0 /\ faults \cap {"env", "interrupted"} = {}
        => handle = "child" /\ cpc \in {"finish", "program"}

\* An error is that of the step that failed, in the parent or in the child,
\* unless it is the child's refusal to close too many descriptors,
ErrorIsCause ==
    pc = "returned" /\ r < 0 /\ faults \cap {"refuse", "interrupted"} = {} => r = -cause

\* and an error leaves no child, running or to be reaped, unless a signal handler
\* interrupts waitpid.
NoOrphan ==
    pc = "returned" /\ r < 0 /\ "interrupted" \notin faults => child \in {"none", "reaped"}

\* What an error of reproc_start tells: which step has failed, and that no child
\* is left.
ErrorTrue == ErrorIsCause /\ NoOrphan

\* No handler of the parent for signals 1 to 31 runs in the child, and the program
\* starts with no handler and nothing blocked.  Handlers of real-time signals are
\* excepted: process_fork unblocks them without a reset (process.posix.c:231), so
\* that they may run until exec, and in fork mode from then on.
HandlersContained ==
    /\ child = "alive" /\ "standard" \in handlers => cmask = "all"
    /\ cpc = "program" => /\ cmask = "none"
                          /\ handlers \subseteq (IF options.fork THEN {"real-time"} ELSE {})

\* A program inherits the exit handle, by which the parent learns of its end,
\* and no other descriptor of ours; a forked application inherits none but the
\* NullDevices, which are not closed in the child either.
ProgramInherits ==
    cpc = "program" /\ child = "alive"
        => IF options.fork THEN cfds \subseteq NullDevices ELSE cfds = {"exit.write"}

\* What a child takes over from its parent: no handler, blocked signal or descriptor
\* but the two exceptions above (real-time handlers, NullDevices).
ChildContained == HandlersContained /\ ProgramInherits

\* reproc_start returns, though the program it has started may run forever.
StartReturns == <>(pc = "returned")
=============================================================================
