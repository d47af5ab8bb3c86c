--------------------------- MODULE ReprocSpawnProofs ---------------------------
(***************************************************************************)
(* Theorems about ReprocSpawn, for all redirects, all errors and failures  *)
(* at any steps.  The invariant StartInv says what the parent and the      *)
(* child know of each other, and which descriptors each has open.          *)
(***************************************************************************)
EXTENDS ReprocSpawn, TLAPS

\* Where the parent is: before fork, with a child to hear from, or done.
BeforeFork == {"options", "in", "out", "err", "exit", "input", "errorPipe", "program", "env",
               "mask", "forkPipe", "fork"}
Hearing == {"restore", "fork.close", "fork.read", "fork.reap", "error.close", "error.read",
            "error.reap"}
Over == {"cleanup", "finish", "returned"}

\* Where the child is: in process_fork, in process_start, or past it.
InFork == {"handlers", "unmask", "limit", "close", "detach"}
InStart == {"dup", "cloexec", "chdir", "exec"}
Past == {"finish", "program"}

\* What the child is at a statement: a failed one has written its errno to one
\* pipe, and the errno is the cause unless the child refused.
ChildInv ==
    /\ cpc = "none" <=> child = "none"
    /\ cpc \in InFork \cup InStart \cup {"finish"} => child = "alive"
    /\ cpc = "program" => child \in {"alive", "zombie"}
    /\ cpc = "failed" => /\ child \in {"zombie", "reaped"}
                         /\ \E p \in {"fork", "error"} : message[p] # 0
    /\ \A p \in {"fork", "error"} :
         /\ message[p] # 0 => cpc = "failed" /\ ("refuse" \notin faults => message[p] = cause)
         /\ message[p] \in Nat
    /\ message["fork"] = 0 \/ message["error"] = 0

\* What the parent knows of the child at a statement.
ParentInv ==
    /\ pc \in BeforeFork => /\ child = "none" /\ handle = "invalid" /\ faults = {}
                            /\ pc = "options" \/ r = 0
    /\ pc \in Hearing => child \in {"alive", "zombie"} /\ r = 0
    /\ pc \in {"restore", "fork.close", "fork.read"} => "interrupted" \notin faults
    /\ pc \in {"error.close", "error.read", "error.reap"} /\ "interrupted" \notin faults
         => cpc \notin InFork /\ message["fork"] = 0
    /\ \A p \in {"fork", "error"} : pc = ReapAt[p] => message[p] # 0
    /\ child = "reaped" => pc \in Over /\ r < 0

\* What a result means once it is decided.
ResultInv ==
    /\ pc \in Over /\ r < 0 /\ "interrupted" \notin faults =>
         /\ child \in {"none", "reaped"}
         /\ "refuse" \in faults \/ r = -cause
    /\ pc \in Over /\ r >= 0 /\ faults \cap {"env", "interrupted"} = {}
         => handle = "child" /\ cpc \in Past
    /\ pc \in Over => r \in Int

\* The signal mask and the handlers of the parent and of the child.
MaskInv ==
    /\ pc \in {"forkPipe", "fork"} => mask = "all"
    /\ pc \notin {"forkPipe", "fork", "restore"} /\ faults \cap {"fork", "forkPipe"} = {}
         => mask = "caller's"
    /\ cpc \in {"handlers", "unmask"} => cmask = "all"
    /\ cpc \notin {"none", "handlers", "failed"} => handlers \subseteq {"real-time"}
    /\ cpc = "finish" => options.fork
    /\ cpc = "program" /\ ~options.fork => handlers = {}
    /\ cpc \notin {"none", "handlers", "unmask", "failed"} => cmask = "none"

\* The statements before the one that opens the descriptors of s.
Before == [in |-> {"options", "in"}, out |-> {"options", "in", "out"},
           err |-> {"options", "in", "out", "err"}, exit |-> {"options", "in", "out", "err", "exit"}]

\* The ends that the parent holds for the child, and when.
EndInv ==
    /\ \A s \in Streams :
         /\ options[s] \in {"pipe", "discard", "missing"} => end[s] \in {"invalid", ChildEnd[s]}
         /\ options[s] = "parent" => end[s] \in {"invalid", "caller's"}
         /\ options[s] = "stdout" => end[s] \in {"invalid", end["out"]}
    /\ end["exit"] \in {"invalid", "exit.write"}
    /\ \A s \in Streams \cup {"exit"} :
         /\ pc \in Before[s] => end[s] = "invalid" /\ pipe[s] = "invalid"
         /\ pc \notin Before[s] \cup {"finish", "returned"} => end[s] # "invalid"
    /\ pc = "returned" => end = Invalid

\* The descriptors that are open are those that the handle and the ends name, and
\* perhaps null devices that nobody closes.
OpenInv ==
    /\ \A s \in Streams :
         /\ pipe[s] \in {"invalid", ParentEnd[s]}
         /\ ParentEnd[s] \in fds <=> pipe[s] = ParentEnd[s]
         /\ options[s] # "missing" =>
              (ChildEnd[s] \in fds <=> options[s] \in {"pipe", "discard"} /\ end[s] = ChildEnd[s])
    /\ pipe["exit"] \in {"invalid", "exit.read"}
    /\ "exit.read" \in fds <=> pipe["exit"] = "exit.read"
    /\ "exit.write" \in fds <=> end["exit"] = "exit.write"
    /\ pc \notin Before["exit"] /\ (pc \in {"finish", "returned"} => r >= 0) => pipe["exit"] = "exit.read"
    /\ pc = "returned" /\ r < 0 => pipe = Invalid

\* The error pipes in the parent.
PipeInv ==
    /\ pc \in {"program", "env", "mask", "forkPipe", "fork", "restore", "fork.close", "fork.read",
               "fork.reap", "error.close"} => ErrorPipe \subseteq fds
    /\ pc \in {"error.read", "error.reap"} => fds \cap ErrorPipe = {"error.read"}
    /\ pc \in Before["exit"] \cup {"input", "errorPipe", "finish", "returned"} => fds \cap ErrorPipe = {}
    /\ pc \in {"fork", "restore", "fork.close"} => ForkPipe \subseteq fds
    /\ pc \in {"fork.read", "fork.reap"} => fds \cap ForkPipe = {"fork.read"}
    /\ pc \notin {"fork", "restore", "fork.close", "fork.read", "fork.reap"} => fds \cap ForkPipe = {}

\* The descriptors of the child.
InheritInv ==
    /\ cpc \in InFork => ForkPipe \subseteq cfds
    /\ cpc \in InFork \cup InStart => ErrorPipe \subseteq cfds
    /\ cpc \in InFork \cup InStart \cup {"finish"} =>
         /\ cends["exit"] = "exit.write" /\ "exit.write" \in cfds
         /\ \A s \in Streams :
              /\ options[s] \in {"pipe", "discard"} => cends[s] = ChildEnd[s] /\ ChildEnd[s] \in cfds
              /\ options[s] = "missing" => cends[s] = ChildEnd[s]
              /\ options[s] = "parent" => cends[s] = "caller's"
              /\ options[s] = "stdout" => cends[s] = cends["out"]
    /\ cpc = "detach" => cfds \subseteq Except
    /\ cpc \in InStart => cfds \subseteq Except \ ForkPipe
    /\ cpc = "finish" => options.fork /\ cfds \subseteq Except \ (ForkPipe \cup ErrorPipe)
    /\ cpc = "program" /\ child = "alive" =>
         IF options.fork
         THEN \A f \in cfds : \E s \in Streams : options[s] = "missing" /\ f = ChildEnd[s]
         ELSE cfds = {"exit.write"}

SpawnInv == ChildInv /\ ParentInv /\ ResultInv
DescriptorInv == EndInv /\ OpenInv /\ PipeInv /\ InheritInv /\ ClosesOwn
-----------------------------------------------------------------------------
(* Types. *)

LEMMA ResultTypes ==
    /\ 0 \in Results /\ 1 \in Results /\ -1 \in Results
    /\ \A e \in Errors : -e \in Results
  BY DEF Results

LEMMA RoleTypes ==
    /\ ErrorPipe \subseteq Fds /\ ForkPipe \subseteq Fds
    /\ {"exit.read", "exit.write"} \subseteq Fds
    /\ \A s \in Streams : ParentEnd[s] \in Fds /\ ChildEnd[s] \in Fds
  BY DEF Fds, ErrorPipe, ForkPipe, Streams, ParentEnd, ChildEnd

LEMMA EndTypes ==
    /\ \A f \in Ends, s \in Streams \cup {"exit"}, h \in Fds \cup {"invalid", "caller's"} :
         [f EXCEPT ![s] = h] \in Ends
    /\ Invalid \in Ends
  BY DEF Ends, Invalid

LEMMA FailedTypes ==
    ASSUME TypeOK, NEW where \in Pcs, pc \in Fallible, Failed(where)
    PROVE  /\ pc' = where /\ options' = options
           /\ r' \in Results /\ cause' \in {0} \cup Errors
           /\ faults' \subseteq Fallible \cup {"interrupted"}
  BY ResultTypes DEF Failed, TypeOK, Goto, Errors

LEMMA CFailedTypes ==
    ASSUME TypeOK, NEW p \in {"fork", "error"}, cpc \in Fallible, CFailed(p)
    PROVE  /\ cpc' = "failed" /\ cfds' = {} /\ child' = "zombie"
           /\ UNCHANGED <<options, parentVars>>
           /\ message' \in [{"error", "fork"} -> {0} \cup Errors]
           /\ cause' \in {0} \cup Errors
           /\ faults' \subseteq Fallible \cup {"interrupted"}
  BY DEF CFailed, CReport, CGoto, TypeOK, Errors

LEMMA DestroyTypes ==
    ASSUME NEW S, Destroy(S), fds \subseteq Fds
    PROVE  fds' \subseteq Fds /\ bad' \in BOOLEAN
<1>1. bad' \in BOOLEAN
    BY Zenon DEF Destroy
<1> QED
    BY <1>1 DEF Destroy

LEMMA CDestroyTypes ==
    ASSUME NEW S, CDestroy(S), cfds \subseteq Fds
    PROVE  cfds' \subseteq Fds /\ bad' \in BOOLEAN
<1>1. bad' \in BOOLEAN
    BY Zenon DEF CDestroy
<1> QED
    BY <1>1 DEF CDestroy

\* The types after a step of reproc_start, of process_start and of the child.
LEMMA TypeNext ==
    ASSUME TypeOK, pc = "fork" => mask = "all", [Next]_vars
    PROVE  TypeOK'
<1> USE DEF TypeOK, Goto, CGoto, Pcs, CPcs, parentVars, childVars
<1>1. CASE ParseOptions
  <2>1. CASE r' = 0
    BY <2>1, <1>1, ResultTypes DEF ParseOptions, EINVAL
  <2>2. CASE ~(r' = 0)
    BY <2>2, <1>1, ResultTypes DEF ParseOptions, Errors, EINVAL, Fallible
  <2> QED
    BY <2>1, <2>2
<1>2. ASSUME NEW s \in Streams, Redirect(s) PROVE TypeOK'
    BY <1>2, EndTypes, FailedTypes, ResultTypes DEF Redirect, Fds, Streams, After, ParentEnd,
       ChildEnd, Fallible, Ends
<1>3. CASE InitExitPipe
  <2>1. CASE Failed("finish")
    BY <2>1, <1>3, FailedTypes DEF InitExitPipe, Fallible
  <2>2. CASE ~(Failed("finish"))
    BY <2>2, <1>3, EndTypes, RoleTypes, ResultTypes DEF InitExitPipe
  <2> QED
    BY <2>1, <2>2
<1>4. CASE SetupInput
  <2>1. CASE Failed("finish")
    BY <2>1, <1>4, FailedTypes DEF SetupInput, Fallible
  <2>2. CASE ~(Failed("finish"))
    BY <2>2, <1>4, EndTypes, ResultTypes, DestroyTypes DEF SetupInput, Streams
  <2> QED
    BY <2>1, <2>2
<1>5. CASE Prepare
  <2>1. CASE Failed("cleanup")
    BY <2>1, <1>5, FailedTypes DEF Prepare, Fallible
  <2>2. CASE pc = "errorPipe" /\ ~Failed("cleanup")
    BY <2>2, <1>5, RoleTypes DEF Prepare
  <2>3. CASE pc = "program" /\ ~Failed("cleanup")
    BY <2>3, <1>5 DEF Prepare
  <2>4. CASE pc = "env" /\ pc' = "mask"
    BY <2>4, <1>5 DEF Prepare
  <2>5. CASE pc = "env" /\ faults' = {"env"}
    BY <2>5, <1>5 DEF Prepare, Fallible
  <2> QED
    BY <2>1, <2>2, <2>3, <2>4, <2>5, <1>5 DEF Prepare
<1>6. CASE MaskSignals
  <2>1. CASE Failed("cleanup")
    BY <2>1, <1>6, FailedTypes DEF MaskSignals, Fallible
  <2>2. CASE ~(Failed("cleanup"))
    BY <2>2, <1>6 DEF MaskSignals, BlockedForFork
  <2> QED
    BY <2>1, <2>2
<1>7. CASE InitForkPipe
  <2>1. CASE Failed("cleanup")
    BY <2>1, <1>7, FailedTypes DEF InitForkPipe, Fallible
  <2>2. CASE ~(Failed("cleanup"))
    BY <2>2, <1>7, RoleTypes DEF InitForkPipe
  <2> QED
    BY <2>1, <2>2
<1>8. CASE ForkFails
    BY <1>8, FailedTypes, DestroyTypes DEF ForkFails, Fallible
<1>9. CASE Fork
    BY <1>9 DEF Fork
<1>10. CASE RestoreMask
    BY <1>10 DEF RestoreMask, RestoredMask
<1>11. ASSUME NEW p \in {"fork", "error"}, CloseWrite(p) PROVE TypeOK'
    BY <1>11, DestroyTypes DEF CloseWrite, CloseAt, ReadAt
<1>12. ASSUME NEW p \in {"fork", "error"}, ReadEnd(p) PROVE TypeOK'
    BY <1>12, ResultTypes, DestroyTypes DEF ReadEnd, NoErrno
<1>13. ASSUME NEW p \in {"fork", "error"}, ReadInterrupted(p) PROVE TypeOK'
    BY <1>13, ResultTypes, DestroyTypes DEF ReadInterrupted, NoErrno
<1>14. ASSUME NEW p \in {"fork", "error"}, ReadErrno(p) PROVE TypeOK'
    BY <1>14 DEF ReadErrno, ReadAt, ReapAt
<1>15. ASSUME NEW p \in {"fork", "error"}, Reap(p) PROVE TypeOK'
    BY <1>15, ResultTypes, DestroyTypes DEF Reap, Waitpid, WaitpidInterrupted, Errors, EINTR
<1>16. CASE Cleanup
    BY <1>16, ResultTypes, DestroyTypes DEF Cleanup
<1>17. CASE Finish
    BY <1>17, EndTypes, DestroyTypes DEF Finish
<1>18. CASE ResetHandlers
    BY <1>18, CFailedTypes DEF ResetHandlers, Fallible
<1>19. CASE UnmaskSignals
    BY <1>19, CFailedTypes DEF UnmaskSignals, Fallible
<1>20. CASE LimitFds
  <2>1. CASE CFailed("fork")
    BY <2>1, <1>20, CFailedTypes DEF LimitFds, Fallible
  <2>2. CASE CReport("fork", EINVAL) /\ cause' = EMFILE /\ faults' = faults \cup {"refuse"}
    BY <2>2, <1>20 DEF LimitFds, CReport, Fallible, Errors, EINVAL, EMFILE
  <2>3. CASE CGoto("close") /\ UNCHANGED <<child, cfds, message, cause, faults>>
    BY <2>3, <1>20 DEF LimitFds, CFailed, CReport
  <2> QED
    BY <2>1, <2>2, <2>3, <1>20 DEF LimitFds
<1>21. CASE CloseFds
    BY <1>21 DEF CloseFds
<1>22. CASE Detach
    BY <1>22, CDestroyTypes DEF Detach
<1>23. CASE SetUp
  <2>1. CASE CFailed("error")
    BY <2>1, <1>23, CFailedTypes DEF SetUp, CNext, Fallible
  <2>2. CASE ~(CFailed("error"))
    BY <2>2, <1>23 DEF SetUp, CNext
  <2> QED
    BY <2>1, <2>2
<1>24. CASE Exec
  <2>1. CASE CFailed("error")
    BY <2>1, <1>24, CFailedTypes DEF Exec, Fallible
  <2>2. CASE ~(CFailed("error"))
    BY <2>2, <1>24 DEF Exec
  <2> QED
    BY <2>1, <2>2
<1>25. CASE ReturnInChild
    BY <1>25, CDestroyTypes DEF ReturnInChild
<1>26. CASE ProgramEnds
    BY <1>26 DEF ProgramEnds
<1>27. CASE UNCHANGED vars
    BY <1>27 DEF vars
<1> QED
    BY <1>1, <1>2, <1>3, <1>4, <1>5, <1>6, <1>7, <1>8, <1>9, <1>10, <1>11, <1>12, <1>13,
       <1>14, <1>15, <1>16, <1>17, <1>18, <1>19, <1>20, <1>21, <1>22, <1>23, <1>24, <1>25,
       <1>26, <1>27 DEF Next, Parent, Child

-----------------------------------------------------------------------------
(* Signals. *)

\* The masks and the handlers after a step.
LEMMA MaskNext ==
    ASSUME TypeOK, ParentInv, MaskInv, [Next]_vars
    PROVE  MaskInv'
<1> USE DEF MaskInv, Goto, CGoto, parentVars, childVars
<1>1. CASE ParseOptions
    BY <1>1 DEF ParseOptions, BeforeFork, ParentInv
<1>2. ASSUME NEW s \in Streams, Redirect(s) PROVE MaskInv'
    BY <1>2 DEF Redirect, After, Streams, Failed
<1>3. CASE InitExitPipe
    BY <1>3 DEF InitExitPipe, Failed
<1>4. CASE SetupInput
    BY <1>4 DEF SetupInput, Failed
<1>5. CASE Prepare
    BY <1>5 DEF Prepare, Failed, BeforeFork, ParentInv
<1>6. CASE MaskSignals
    BY <1>6 DEF MaskSignals, Failed, BlockedForFork
<1>7. CASE InitForkPipe
    BY <1>7 DEF InitForkPipe, Failed
<1>8. CASE ForkFails
    BY <1>8 DEF ForkFails, Failed
<1>9. CASE Fork
    BY <1>9 DEF Fork
<1>10. CASE RestoreMask
    BY <1>10 DEF RestoreMask, RestoredMask
<1>11. ASSUME NEW p \in {"fork", "error"}, CloseWrite(p) PROVE MaskInv'
    BY <1>11 DEF CloseWrite, CloseAt, ReadAt
<1>12. ASSUME NEW p \in {"fork", "error"}, ReadEnd(p) PROVE MaskInv'
    BY <1>12 DEF ReadEnd, NoErrno, ReadAt
<1>13. ASSUME NEW p \in {"fork", "error"}, ReadInterrupted(p) PROVE MaskInv'
    BY <1>13 DEF ReadInterrupted, NoErrno, ReadAt
<1>14. ASSUME NEW p \in {"fork", "error"}, ReadErrno(p) PROVE MaskInv'
    BY <1>14 DEF ReadErrno, ReadAt, ReapAt
<1>15. ASSUME NEW p \in {"fork", "error"}, Reap(p) PROVE MaskInv'
    BY <1>15 DEF Reap, ReapAt, Waitpid, WaitpidInterrupted
<1>16. CASE Cleanup
    BY <1>16 DEF Cleanup
<1>17. CASE Finish
    BY <1>17 DEF Finish
<1>18. CASE ResetHandlers
  <2>1. handlers \ {"standard"} \subseteq {"real-time"}
    BY DEF TypeOK, Signals
  <2> QED
    BY <2>1, <1>18 DEF ResetHandlers, CFailed, CReport
<1>19. CASE UnmaskSignals
    BY <1>19 DEF UnmaskSignals, CFailed, CReport
<1>20. CASE LimitFds
    BY <1>20 DEF LimitFds, CFailed, CReport
<1>21. CASE CloseFds
    BY <1>21 DEF CloseFds
<1>22. CASE Detach
    BY <1>22 DEF Detach
<1>23. CASE SetUp
    BY <1>23 DEF SetUp, CNext, CFailed, CReport
<1>24. CASE Exec
    BY <1>24 DEF Exec, CFailed, CReport
<1>25. CASE ReturnInChild
    BY <1>25 DEF ReturnInChild
<1>26. CASE ProgramEnds
    BY <1>26 DEF ProgramEnds
<1>27. CASE UNCHANGED vars
    BY <1>27 DEF vars
<1> QED
    BY <1>1, <1>2, <1>3, <1>4, <1>5, <1>6, <1>7, <1>8, <1>9, <1>10, <1>11, <1>12, <1>13,
       <1>14, <1>15, <1>16, <1>17, <1>18, <1>19, <1>20, <1>21, <1>22, <1>23, <1>24, <1>25,
       <1>26, <1>27 DEF Next, Parent, Child
-----------------------------------------------------------------------------
(* Results. *)

LEMMA ErrorTypes == \A e \in Errors : e \in Nat /\ e > 0 /\ -e < 0
  BY SpawnAssumption DEF Errors, EINTR, EINVAL, EMFILE

LEMMA FailedEffect ==
    ASSUME NEW where, Failed(where)
    PROVE  /\ pc' = where /\ options' = options
           /\ r' \in Int /\ r' < 0 /\ r' = -cause'
  BY ErrorTypes DEF Failed, Goto, Errors

\* What the child is and what it has written, after a step.
LEMMA ChildNext ==
    ASSUME TypeOK, ChildInv, ParentInv, [Next]_vars
    PROVE  ChildInv'
<1> USE DEF ChildInv, Goto, CGoto, parentVars, childVars, InFork, InStart
<1>1. CASE ParseOptions
    BY <1>1, TypeOK DEF ParseOptions, BeforeFork, ParentInv
<1>2. ASSUME NEW s \in Streams, Redirect(s) PROVE ChildInv'
    BY <1>2 DEF Redirect, After, Streams, Failed, BeforeFork, ParentInv
<1>3. CASE InitExitPipe
    BY <1>3 DEF InitExitPipe, Failed, BeforeFork, ParentInv
<1>4. CASE SetupInput
    BY <1>4 DEF SetupInput, Failed, BeforeFork, ParentInv
<1>5. CASE Prepare
    BY <1>5 DEF Prepare, Failed, BeforeFork, ParentInv
<1>6. CASE MaskSignals
    BY <1>6 DEF MaskSignals, Failed, BeforeFork, ParentInv
<1>7. CASE InitForkPipe
    BY <1>7 DEF InitForkPipe, Failed, BeforeFork, ParentInv
<1>8. CASE ForkFails
    BY <1>8 DEF ForkFails, Failed, BeforeFork, ParentInv
<1>9. CASE Fork
    BY <1>9 DEF Fork, BeforeFork, ParentInv
<1>10. CASE RestoreMask
    BY <1>10 DEF RestoreMask
<1>11. ASSUME NEW p \in {"fork", "error"}, CloseWrite(p) PROVE ChildInv'
    BY <1>11 DEF CloseWrite
<1>12. ASSUME NEW p \in {"fork", "error"}, ReadEnd(p) PROVE ChildInv'
    BY <1>12 DEF ReadEnd, NoErrno
<1>13. ASSUME NEW p \in {"fork", "error"}, ReadInterrupted(p) PROVE ChildInv'
    BY <1>13 DEF ReadInterrupted, NoErrno
<1>14. ASSUME NEW p \in {"fork", "error"}, ReadErrno(p) PROVE ChildInv'
    BY <1>14 DEF ReadErrno
<1>15. ASSUME NEW p \in {"fork", "error"}, Reap(p) PROVE ChildInv'
    BY <1>15 DEF Reap, Waitpid, WaitpidInterrupted, ParentInv, ReapAt
<1>16. CASE Cleanup
    BY <1>16 DEF Cleanup
<1>17. CASE Finish
    BY <1>17 DEF Finish
<1>18. CASE ResetHandlers
    BY <1>18, ErrorTypes DEF ResetHandlers, Errors, TypeOK, CFailed, CReport
<1>19. CASE UnmaskSignals
    BY <1>19, ErrorTypes DEF UnmaskSignals, Errors, TypeOK, CFailed, CReport
<1>20. CASE LimitFds
    BY <1>20, ErrorTypes DEF LimitFds, Errors, EINVAL, EMFILE, TypeOK, CFailed, CReport
<1>21. CASE CloseFds
    BY <1>21 DEF CloseFds
<1>22. CASE Detach
    BY <1>22 DEF Detach
<1>23. CASE SetUp
    BY <1>23, ErrorTypes, TypeOK DEF SetUp, CNext, Errors, TypeOK, CFailed, CReport
<1>24. CASE Exec
    BY <1>24, ErrorTypes DEF Exec, Errors, TypeOK, CFailed, CReport
<1>25. CASE ReturnInChild
    BY <1>25 DEF ReturnInChild
<1>26. CASE ProgramEnds
    BY <1>26 DEF ProgramEnds
<1>27. CASE UNCHANGED vars
    BY <1>27 DEF vars
<1> QED
    BY <1>1, <1>2, <1>3, <1>4, <1>5, <1>6, <1>7, <1>8, <1>9, <1>10, <1>11, <1>12, <1>13,
       <1>14, <1>15, <1>16, <1>17, <1>18, <1>19, <1>20, <1>21, <1>22, <1>23, <1>24, <1>25,
       <1>26, <1>27 DEF Next, Parent, Child

\* What the parent knows, after a step.
LEMMA ParentNext ==
    ASSUME TypeOK, ChildInv, ParentInv, PipeInv, InheritInv, [Next]_vars
    PROVE  ParentInv'
<1> USE DEF ParentInv, Goto, CGoto, parentVars, childVars, BeforeFork, Hearing, Over, ReapAt
<1>1. CASE ParseOptions
    BY <1>1, ErrorTypes DEF ParseOptions, Errors, EINVAL
<1>2. ASSUME NEW s \in Streams, Redirect(s) PROVE ParentInv'
    BY <1>2, ErrorTypes, TypeOK DEF Redirect, After, Streams, Failed, Errors
<1>3. CASE InitExitPipe
    BY <1>3, ErrorTypes DEF InitExitPipe, Failed, Errors
<1>4. CASE SetupInput
    BY <1>4, ErrorTypes DEF SetupInput, Failed, Errors
<1>5. CASE Prepare
    BY <1>5, ErrorTypes DEF Prepare, Failed, Errors
<1>6. CASE MaskSignals
    BY <1>6, ErrorTypes DEF MaskSignals, Failed, Errors
<1>7. CASE InitForkPipe
    BY <1>7, ErrorTypes DEF InitForkPipe, Failed, Errors
<1>8. CASE ForkFails
    BY <1>8, ErrorTypes DEF ForkFails, Failed, Errors
<1>9. CASE Fork
    BY <1>9 DEF Fork, InFork
<1>10. CASE RestoreMask
    BY <1>10 DEF RestoreMask
<1>11. ASSUME NEW p \in {"fork", "error"}, CloseWrite(p) PROVE ParentInv'
    BY <1>11 DEF CloseWrite, CloseAt, ReadAt
<1>12. ASSUME NEW p \in {"fork", "error"}, ReadEnd(p) PROVE ParentInv'
    BY <1>12, TypeOK DEF ReadEnd, NoErrno, ReadAt, EndOfFile, Writer, InheritInv, ForkPipe,
       ChildInv, InFork, InStart
<1>13. ASSUME NEW p \in {"fork", "error"}, ReadInterrupted(p) PROVE ParentInv'
    BY <1>13 DEF ReadInterrupted, NoErrno, ReadAt
<1>14. ASSUME NEW p \in {"fork", "error"}, ReadErrno(p) PROVE ParentInv'
    BY <1>14 DEF ReadErrno, ReadAt, InFork, ChildInv
<1>15. ASSUME NEW p \in {"fork", "error"}, Reap(p) PROVE ParentInv'
    BY <1>15, ErrorTypes DEF Reap, Waitpid, WaitpidInterrupted, TypeOK, EINTR, Errors
<1>16. CASE Cleanup
    BY <1>16, TypeOK DEF Cleanup
<1>17. CASE Finish
    BY <1>17 DEF Finish
<1>18. CASE ResetHandlers
    BY <1>18, ErrorTypes DEF ResetHandlers, ChildInv, InFork, Errors, TypeOK, CFailed, CReport
<1>19. CASE UnmaskSignals
    BY <1>19, ErrorTypes DEF UnmaskSignals, ChildInv, InFork, Errors, TypeOK, CFailed, CReport
<1>20. CASE LimitFds
    BY <1>20, ErrorTypes DEF LimitFds, ChildInv, InFork, Errors, EINVAL, TypeOK, CFailed,
       CReport
<1>21. CASE CloseFds
    BY <1>21 DEF CloseFds, InFork
<1>22. CASE Detach
    BY <1>22 DEF Detach, InFork
<1>23. CASE SetUp
    BY <1>23, ErrorTypes DEF SetUp, CNext, ChildInv, TypeOK, Errors, InFork, InStart, CFailed,
       CReport
<1>24. CASE Exec
    BY <1>24, ErrorTypes DEF Exec, ChildInv, TypeOK, InFork, InStart, Errors, CFailed, CReport
<1>25. CASE ReturnInChild
    BY <1>25 DEF ReturnInChild, InFork
<1>26. CASE ProgramEnds
    BY <1>26 DEF ProgramEnds, ChildInv, InFork
<1>27. CASE UNCHANGED vars
    BY <1>27 DEF vars
<1> QED
    BY <1>1, <1>2, <1>3, <1>4, <1>5, <1>6, <1>7, <1>8, <1>9, <1>10, <1>11, <1>12, <1>13,
       <1>14, <1>15, <1>16, <1>17, <1>18, <1>19, <1>20, <1>21, <1>22, <1>23, <1>24, <1>25,
       <1>26, <1>27 DEF Next, Parent, Child

\* What the result means, after a step.
LEMMA ResultNext ==
    ASSUME TypeOK, ChildInv, ParentInv, ResultInv, InheritInv, [Next]_vars
    PROVE  ResultInv'
<1> USE DEF ResultInv, Goto, CGoto, parentVars, childVars, Over
<1>1. CASE ParseOptions
    BY <1>1, ErrorTypes DEF ParseOptions, Errors, EINVAL, ParentInv, BeforeFork
<1>2. ASSUME NEW s \in Streams, Redirect(s) PROVE ResultInv'
    BY <1>2, FailedEffect DEF Redirect, ParentInv, BeforeFork, After, Streams
<1>3. CASE InitExitPipe
    BY <1>3, FailedEffect DEF InitExitPipe, ParentInv, BeforeFork
<1>4. CASE SetupInput
    BY <1>4, FailedEffect DEF SetupInput, ParentInv, BeforeFork
<1>5. CASE Prepare
    BY <1>5, FailedEffect DEF Prepare, ParentInv, BeforeFork
<1>6. CASE MaskSignals
    BY <1>6, FailedEffect DEF MaskSignals, ParentInv, BeforeFork
<1>7. CASE InitForkPipe
    BY <1>7, FailedEffect DEF InitForkPipe, ParentInv, BeforeFork
<1>8. CASE ForkFails
    BY <1>8, FailedEffect DEF ForkFails, ParentInv, BeforeFork
<1>9. CASE Fork
    BY <1>9 DEF Fork
<1>10. CASE RestoreMask
    BY <1>10 DEF RestoreMask
<1>11. ASSUME NEW p \in {"fork", "error"}, CloseWrite(p) PROVE ResultInv'
    BY <1>11 DEF CloseWrite, CloseAt, ReadAt
<1>12. ASSUME NEW p \in {"fork", "error"}, ReadEnd(p) PROVE ResultInv'
    BY <1>12, TypeOK DEF ReadEnd, NoErrno, ReadAt, EndOfFile, Writer, InheritInv, ErrorPipe,
       ChildInv, ParentInv, InFork, InStart, Past, Hearing, CPcs, TypeOK
<1>13. ASSUME NEW p \in {"fork", "error"}, ReadInterrupted(p) PROVE ResultInv'
    BY <1>13, TypeOK DEF ReadInterrupted, NoErrno, ReadAt, ParentInv, Hearing
<1>14. ASSUME NEW p \in {"fork", "error"}, ReadErrno(p) PROVE ResultInv'
    BY <1>14 DEF ReadErrno, ReadAt, ReapAt
<1>15. ASSUME NEW p \in {"fork", "error"}, Reap(p) PROVE ResultInv'
    BY <1>15, ErrorTypes DEF Reap, Waitpid, WaitpidInterrupted, EINTR, Errors, TypeOK,
       ChildInv, ParentInv, Hearing, ReapAt
<1>16. CASE Cleanup
    BY <1>16, ErrorTypes DEF Cleanup, TypeOK
<1>17. CASE Finish
    BY <1>17, ErrorTypes DEF Finish, TypeOK
<1>18. CASE ResetHandlers
    BY <1>18, ErrorTypes DEF ResetHandlers, ChildInv, ParentInv, InFork, InStart, Past,
       CFailed, CReport
<1>19. CASE UnmaskSignals
    BY <1>19, ErrorTypes DEF UnmaskSignals, ChildInv, ParentInv, InFork, InStart, Past,
       CFailed, CReport
<1>20. CASE LimitFds
    BY <1>20, ErrorTypes DEF LimitFds, ChildInv, ParentInv, InFork, InStart, Past, CFailed,
       CReport
<1>21. CASE CloseFds
    BY <1>21 DEF CloseFds, ChildInv, ParentInv, InFork, InStart, Past
<1>22. CASE Detach
    BY <1>22 DEF Detach, ChildInv, ParentInv, InFork, InStart, Past
<1>23. CASE SetUp
    BY <1>23, ErrorTypes DEF SetUp, ChildInv, ParentInv, InFork, InStart, Past, CFailed,
       CReport, CNext
<1>24. CASE Exec
    BY <1>24, ErrorTypes DEF Exec, ChildInv, ParentInv, InFork, InStart, Past, CFailed, CReport
<1>25. CASE ReturnInChild
    BY <1>25 DEF ReturnInChild, ChildInv, ParentInv, InFork, InStart, Past
<1>26. CASE ProgramEnds
    BY <1>26 DEF ProgramEnds, ChildInv, ParentInv, InFork, InStart, Past
<1>27. CASE UNCHANGED vars
    BY <1>27 DEF vars
<1> QED
    BY <1>1, <1>2, <1>3, <1>4, <1>5, <1>6, <1>7, <1>8, <1>9, <1>10, <1>11, <1>12, <1>13,
       <1>14, <1>15, <1>16, <1>17, <1>18, <1>19, <1>20, <1>21, <1>22, <1>23, <1>24, <1>25,
       <1>26, <1>27 DEF Next, Parent, Child
-----------------------------------------------------------------------------
(* Descriptors. *)

LEMMA OptionTypes ==
    ASSUME options \in Configs
    PROVE  /\ \A s \in Streams : options[s] \in {"pipe", "parent", "missing", "discard", "stdout"}
           /\ options["in"] # "stdout" /\ options["out"] # "stdout"
           /\ options.input => options["in"] = "pipe"
  BY SpawnAssumption DEF Options, Redirects, Streams

\* The ends of the child, after a step.
LEMMA EndNext ==
    ASSUME TypeOK, EndInv, [Next]_vars
    PROVE  EndInv'
<1> USE DEF EndInv, Goto, CGoto, parentVars, childVars, Before, Streams
<1>1. CASE ParseOptions
    BY <1>1 DEF ParseOptions
<1>2. ASSUME NEW s \in Streams, Redirect(s) PROVE EndInv'
    BY <1>2, FailedEffect, OptionTypes DEF Redirect, TypeOK, Ends, After, ChildEnd, ParentEnd
<1>3. CASE InitExitPipe
    BY <1>3, FailedEffect DEF InitExitPipe, TypeOK, Ends
<1>4. CASE SetupInput
    BY <1>4, FailedEffect DEF SetupInput, TypeOK, Ends
<1>5. CASE Prepare
    BY <1>5, FailedEffect DEF Prepare
<1>6. CASE MaskSignals
    BY <1>6, FailedEffect DEF MaskSignals
<1>7. CASE InitForkPipe
    BY <1>7, FailedEffect DEF InitForkPipe
<1>8. CASE ForkFails
    BY <1>8, FailedEffect DEF ForkFails
<1>9. CASE Fork
    BY <1>9 DEF Fork
<1>10. CASE RestoreMask
    BY <1>10 DEF RestoreMask
<1>11. ASSUME NEW p \in {"fork", "error"}, CloseWrite(p) PROVE EndInv'
    BY <1>11 DEF CloseWrite, CloseAt, ReadAt
<1>12. ASSUME NEW p \in {"fork", "error"}, ReadEnd(p) PROVE EndInv'
    BY <1>12 DEF ReadEnd, NoErrno, ReadAt
<1>13. ASSUME NEW p \in {"fork", "error"}, ReadInterrupted(p) PROVE EndInv'
    BY <1>13 DEF ReadInterrupted, NoErrno, ReadAt
<1>14. ASSUME NEW p \in {"fork", "error"}, ReadErrno(p) PROVE EndInv'
    BY <1>14 DEF ReadErrno, ReadAt, ReapAt
<1>15. ASSUME NEW p \in {"fork", "error"}, Reap(p) PROVE EndInv'
    BY <1>15 DEF Reap, ReapAt
<1>16. CASE Cleanup
    BY <1>16 DEF Cleanup
<1>17. CASE Finish
    BY <1>17 DEF Finish, Invalid
<1>18. CASE ResetHandlers
    BY <1>18 DEF ResetHandlers, CFailed, CReport
<1>19. CASE UnmaskSignals
    BY <1>19 DEF UnmaskSignals, CFailed, CReport
<1>20. CASE LimitFds
    BY <1>20 DEF LimitFds, CFailed, CReport
<1>21. CASE CloseFds
    BY <1>21 DEF CloseFds
<1>22. CASE Detach
    BY <1>22 DEF Detach
<1>23. CASE SetUp
    BY <1>23 DEF SetUp, CFailed, CReport
<1>24. CASE Exec
    BY <1>24 DEF Exec, CFailed, CReport
<1>25. CASE ReturnInChild
    BY <1>25 DEF ReturnInChild
<1>26. CASE ProgramEnds
    BY <1>26 DEF ProgramEnds
<1>27. CASE UNCHANGED vars
    BY <1>27 DEF vars
<1> QED
    BY <1>1, <1>2, <1>3, <1>4, <1>5, <1>6, <1>7, <1>8, <1>9, <1>10, <1>11, <1>12, <1>13,
       <1>14, <1>15, <1>16, <1>17, <1>18, <1>19, <1>20, <1>21, <1>22, <1>23, <1>24, <1>25,
       <1>26, <1>27 DEF Next, Parent, Child

\* The error pipes in the parent, after a step.
LEMMA PipeNext ==
    ASSUME TypeOK, PipeInv, EndInv, OpenInv, [Next]_vars
    PROVE  PipeInv'
<1> USE DEF PipeInv, Goto, CGoto, parentVars, childVars, Before, ErrorPipe, ForkPipe
<1>1. CASE ParseOptions
    BY <1>1 DEF ParseOptions
<1>2. ASSUME NEW s \in Streams, Redirect(s) PROVE PipeInv'
    BY <1>2, FailedEffect, OptionTypes DEF Redirect, TypeOK, Streams, After, ChildEnd, ParentEnd
<1>3. CASE InitExitPipe
    BY <1>3, FailedEffect DEF InitExitPipe
<1>4. CASE SetupInput
    BY <1>4, FailedEffect DEF SetupInput, Destroy, OpenInv, EndInv, ParentEnd, Streams
<1>5. CASE Prepare
    BY <1>5, FailedEffect DEF Prepare
<1>6. CASE MaskSignals
    BY <1>6, FailedEffect DEF MaskSignals
<1>7. CASE InitForkPipe
    BY <1>7, FailedEffect DEF InitForkPipe
<1>8. CASE ForkFails
    BY <1>8, FailedEffect DEF ForkFails, Destroy
<1>9. CASE Fork
    BY <1>9 DEF Fork
<1>10. CASE RestoreMask
    BY <1>10 DEF RestoreMask
<1>11. ASSUME NEW p \in {"fork", "error"}, CloseWrite(p) PROVE PipeInv'
    BY <1>11 DEF CloseWrite, CloseAt, ReadAt, WriteEnd, Writer, Destroy
<1>12. ASSUME NEW p \in {"fork", "error"}, ReadEnd(p) PROVE PipeInv'
    BY <1>12 DEF ReadEnd, NoErrno, ReadAt, Destroy
<1>13. ASSUME NEW p \in {"fork", "error"}, ReadInterrupted(p) PROVE PipeInv'
    BY <1>13 DEF ReadInterrupted, NoErrno, ReadAt, Destroy
<1>14. ASSUME NEW p \in {"fork", "error"}, ReadErrno(p) PROVE PipeInv'
    BY <1>14 DEF ReadErrno, ReadAt, ReapAt
<1>15. ASSUME NEW p \in {"fork", "error"}, Reap(p) PROVE PipeInv'
    BY <1>15 DEF Reap, ReapAt, Waitpid, WaitpidInterrupted, Destroy
<1>16. CASE Cleanup
    BY <1>16 DEF Cleanup, Destroy
<1>17. CASE Finish
    BY <1>17 DEF Finish, Destroy, HandlePipes, Owned
<1>18. CASE ResetHandlers
    BY <1>18 DEF ResetHandlers, CFailed, CReport
<1>19. CASE UnmaskSignals
    BY <1>19 DEF UnmaskSignals, CFailed, CReport
<1>20. CASE LimitFds
    BY <1>20 DEF LimitFds, CFailed, CReport
<1>21. CASE CloseFds
    BY <1>21 DEF CloseFds
<1>22. CASE Detach
    BY <1>22 DEF Detach
<1>23. CASE SetUp
    BY <1>23 DEF SetUp, CFailed, CReport
<1>24. CASE Exec
    BY <1>24 DEF Exec, CFailed, CReport
<1>25. CASE ReturnInChild
    BY <1>25 DEF ReturnInChild
<1>26. CASE ProgramEnds
    BY <1>26 DEF ProgramEnds
<1>27. CASE UNCHANGED vars
    BY <1>27 DEF vars
<1> QED
    BY <1>1, <1>2, <1>3, <1>4, <1>5, <1>6, <1>7, <1>8, <1>9, <1>10, <1>11, <1>12, <1>13,
       <1>14, <1>15, <1>16, <1>17, <1>18, <1>19, <1>20, <1>21, <1>22, <1>23, <1>24, <1>25,
       <1>26, <1>27 DEF Next, Parent, Child

\* The descriptors that the handle and the ends name, after a step.
LEMMA OpenNext ==
    ASSUME TypeOK, OpenInv, EndInv, PipeInv, [Next]_vars
    PROVE  OpenInv'
<1> USE DEF OpenInv, Goto, CGoto, parentVars, childVars, Before
<1>1. CASE ParseOptions
    BY <1>1 DEF ParseOptions, EINVAL
<1>2. ASSUME NEW s \in Streams, Redirect(s) PROVE OpenInv'
    BY <1>2, FailedEffect, OptionTypes DEF Redirect, TypeOK, Ends, EndInv, After, Streams,
       ParentEnd, ChildEnd
<1>3. CASE InitExitPipe
    BY <1>3, FailedEffect DEF InitExitPipe, TypeOK, Ends, EndInv, Streams, ParentEnd, ChildEnd
<1>4. CASE SetupInput
    BY <1>4, FailedEffect, OptionTypes DEF SetupInput, TypeOK, Ends, Destroy, Streams,
       ParentEnd, ChildEnd
<1>5. CASE Prepare
    BY <1>5, FailedEffect DEF Prepare, ErrorPipe, Streams, ParentEnd, ChildEnd
<1>6. CASE MaskSignals
    BY <1>6, FailedEffect DEF MaskSignals, Streams
<1>7. CASE InitForkPipe
    BY <1>7, FailedEffect DEF InitForkPipe, ForkPipe, Streams, ParentEnd, ChildEnd
<1>8. CASE ForkFails
    BY <1>8, FailedEffect DEF ForkFails, ForkPipe, Destroy, Streams, ParentEnd, ChildEnd
<1>9. CASE Fork
    BY <1>9 DEF Fork
<1>10. CASE RestoreMask
    BY <1>10 DEF RestoreMask
<1>11. ASSUME NEW p \in {"fork", "error"}, CloseWrite(p) PROVE OpenInv'
    BY <1>11 DEF CloseWrite, CloseAt, ReadAt, WriteEnd, Writer, Destroy, Streams, ParentEnd,
       ChildEnd
<1>12. ASSUME NEW p \in {"fork", "error"}, ReadEnd(p) PROVE OpenInv'
    BY <1>12 DEF ReadEnd, NoErrno, ReadAt, Destroy, Streams, ParentEnd, ChildEnd
<1>13. ASSUME NEW p \in {"fork", "error"}, ReadInterrupted(p) PROVE OpenInv'
    BY <1>13 DEF ReadInterrupted, NoErrno, ReadAt, Destroy, Streams, ParentEnd, ChildEnd
<1>14. ASSUME NEW p \in {"fork", "error"}, ReadErrno(p) PROVE OpenInv'
    BY <1>14 DEF ReadErrno, ReadAt, ReapAt
<1>15. ASSUME NEW p \in {"fork", "error"}, Reap(p) PROVE OpenInv'
    BY <1>15 DEF Reap, ReapAt, Waitpid, WaitpidInterrupted, Destroy, Streams, ParentEnd,
       ChildEnd
<1>16. CASE Cleanup
    BY <1>16, TypeOK, ErrorTypes DEF Cleanup, Destroy, ErrorPipe, TypeOK, Results, Streams,
       ParentEnd, ChildEnd
<1>17. CASE Finish
  <2>0. /\ pc' = "returned" /\ end' = Invalid /\ options' = options /\ r' = r
        /\ \A s \in Streams : Invalid[s] = "invalid" /\ ParentEnd[s] # "invalid"
                             /\ ChildEnd[s] # "invalid"
        /\ Invalid["exit"] = "invalid"
    BY <1>17 DEF Finish, Invalid, Streams, ParentEnd, ChildEnd
  <2>1. CASE r < 0
    <3>1. /\ fds' = fds \ (Owned(end) \cup {end["exit"]} \cup HandlePipes)
          /\ pipe' = Invalid
      BY <2>1, <1>17 DEF Finish, Destroy
    <3>2. \A s \in Streams : ParentEnd[s] \notin fds'
      BY <3>1 DEF HandlePipes
    <3>3. "exit.read" \notin fds' /\ "exit.write" \notin fds'
      BY <3>1 DEF HandlePipes
    <3>4. \A s \in Streams : options[s] # "missing" => ChildEnd[s] \notin fds'
      BY <3>1 DEF Owned
    <3>5. ~(r >= 0)
      BY <2>1, ErrorTypes DEF TypeOK, Results
    <3>6. QED
      BY <2>0, <3>1, <3>2, <3>3, <3>4, <3>5
  <2>2. CASE ~(r < 0)
    <3>1. fds' = fds \ (Owned(end) \cup {end["exit"]}) /\ pipe' = pipe
      BY <2>2, <1>17 DEF Finish, Destroy
    <3>2. \A s \in Streams : ParentEnd[s] \in fds' <=> ParentEnd[s] \in fds
      BY <3>1, OptionTypes DEF Owned, EndInv, TypeOK, Streams, ParentEnd, ChildEnd
    <3>3. "exit.read" \in fds' <=> "exit.read" \in fds
      BY <3>1, OptionTypes DEF Owned, EndInv, TypeOK, Streams, ChildEnd
    <3>4. "exit.write" \notin fds'
      BY <3>1
    <3>5. \A s \in Streams : options[s] # "missing" => ChildEnd[s] \notin fds'
      BY <3>1 DEF Owned
    <3>6. pipe["exit"] = "exit.read"
      BY <2>2, <1>17 DEF Finish, TypeOK, Results
    <3>7. QED
      BY <2>0, <2>2, <3>1, <3>2, <3>3, <3>4, <3>5, <3>6
  <2> QED
    BY <2>1, <2>2, <1>17 DEF Finish
<1>18. CASE ResetHandlers
    BY <1>18 DEF ResetHandlers, CFailed, CReport
<1>19. CASE UnmaskSignals
    BY <1>19 DEF UnmaskSignals, CFailed, CReport
<1>20. CASE LimitFds
    BY <1>20 DEF LimitFds, CFailed, CReport
<1>21. CASE CloseFds
    BY <1>21 DEF CloseFds
<1>22. CASE Detach
    BY <1>22 DEF Detach
<1>23. CASE SetUp
    BY <1>23 DEF SetUp, CFailed, CReport
<1>24. CASE Exec
    BY <1>24 DEF Exec, CFailed, CReport
<1>25. CASE ReturnInChild
    BY <1>25 DEF ReturnInChild
<1>26. CASE ProgramEnds
    BY <1>26 DEF ProgramEnds
<1>27. CASE UNCHANGED vars
    BY <1>27 DEF vars
<1> QED
    BY <1>1, <1>2, <1>3, <1>4, <1>5, <1>6, <1>7, <1>8, <1>9, <1>10, <1>11, <1>12, <1>13,
       <1>14, <1>15, <1>16, <1>17, <1>18, <1>19, <1>20, <1>21, <1>22, <1>23, <1>24, <1>25,
       <1>26, <1>27 DEF Next, Parent, Child

\* The descriptors of the child, after a step.
LEMMA InheritNext ==
    ASSUME TypeOK, ChildInv, EndInv, OpenInv, PipeInv, InheritInv, [Next]_vars
    PROVE  InheritInv'
<1> USE DEF InheritInv, Goto, CGoto, parentVars, childVars, InFork, InStart,
        Except, Streams
<1>1. CASE ParseOptions
    BY <1>1 DEF ParseOptions
<1>2. ASSUME NEW s \in Streams, Redirect(s) PROVE InheritInv'
    BY <1>2, FailedEffect DEF Redirect
<1>3. CASE InitExitPipe
    BY <1>3, FailedEffect DEF InitExitPipe
<1>4. CASE SetupInput
    BY <1>4, FailedEffect DEF SetupInput
<1>5. CASE Prepare
    BY <1>5, FailedEffect DEF Prepare
<1>6. CASE MaskSignals
    BY <1>6, FailedEffect DEF MaskSignals
<1>7. CASE InitForkPipe
    BY <1>7, FailedEffect DEF InitForkPipe
<1>8. CASE ForkFails
    BY <1>8, FailedEffect DEF ForkFails
<1>9. CASE Fork
    BY <1>9, OptionTypes DEF Fork, TypeOK, EndInv, OpenInv, PipeInv, Before, ChildEnd
<1>10. CASE RestoreMask
    BY <1>10 DEF RestoreMask
<1>11. ASSUME NEW p \in {"fork", "error"}, CloseWrite(p) PROVE InheritInv'
    BY <1>11 DEF CloseWrite
<1>12. ASSUME NEW p \in {"fork", "error"}, ReadEnd(p) PROVE InheritInv'
    BY <1>12 DEF ReadEnd, NoErrno
<1>13. ASSUME NEW p \in {"fork", "error"}, ReadInterrupted(p) PROVE InheritInv'
    BY <1>13 DEF ReadInterrupted, NoErrno
<1>14. ASSUME NEW p \in {"fork", "error"}, ReadErrno(p) PROVE InheritInv'
    BY <1>14 DEF ReadErrno
<1>15. ASSUME NEW p \in {"fork", "error"}, Reap(p) PROVE InheritInv'
    BY <1>15, TypeOK DEF Reap, Waitpid, WaitpidInterrupted, ParentInv, ReapAt, ChildInv
<1>16. CASE Cleanup
    BY <1>16 DEF Cleanup
<1>17. CASE Finish
    BY <1>17 DEF Finish
<1>18. CASE ResetHandlers
    BY <1>18 DEF ResetHandlers, CFailed, CReport
<1>19. CASE UnmaskSignals
    BY <1>19 DEF UnmaskSignals, CFailed, CReport
<1>20. CASE LimitFds
    BY <1>20 DEF LimitFds, CFailed, CReport
<1>21. CASE CloseFds
    BY <1>21 DEF CloseFds
<1>22. CASE Detach
    BY <1>22 DEF Detach, CDestroy, ForkPipe, ErrorPipe, ChildEnd
<1>23. CASE SetUp
    BY <1>23 DEF SetUp, CFailed, CReport, CNext
<1>24. CASE Exec
    BY <1>24 DEF Exec, CFailed, CReport, TypeOK
<1>25. CASE ReturnInChild
  <2>1. CASE cpc = "exec"
    BY <2>1, <1>25 DEF ReturnInChild, CDestroy, ErrorPipe, ForkPipe, ChildEnd
  <2>2. CASE cpc = "finish"
    <3>1. ASSUME NEW f \in cfds, f \notin Owned(cends) \cup {cends["exit"]}
          PROVE  \E s \in Streams : options[s] = "missing" /\ f = ChildEnd[s]
      <4>1. f # "caller's"
        BY DEF TypeOK, Fds, ErrorPipe, ForkPipe
      <4>2. PICK s \in Streams : f = cends[s]
        BY <2>2, <3>1
      <4>3. options[s] \notin {"pipe", "discard"}
        BY <3>1, <4>2 DEF Owned
      <4>4. options[s] # "parent"
        BY <2>2, <4>1, <4>2
      <4>5. CASE options[s] = "missing"
        BY <2>2, <4>2, <4>5
      <4>6. CASE options[s] = "stdout"
        <5>1. f = cends["out"]
          BY <2>2, <4>2, <4>6
        <5>2. options["out"] \notin {"pipe", "discard"}
          BY <3>1, <5>1 DEF Owned
        <5>3. options["out"] # "parent"
          BY <2>2, <4>1, <5>1
        <5>4. options["out"] = "missing"
          BY <5>2, <5>3, OptionTypes DEF TypeOK
        <5> QED
          BY <2>2, <5>1, <5>4
      <4> QED
        BY <4>3, <4>4, <4>5, <4>6, OptionTypes DEF TypeOK
    <3>2. cfds' = cfds \ (Owned(cends) \cup {cends["exit"]}) /\ cpc' = "program" /\ options.fork
      BY <2>2, <1>25 DEF ReturnInChild, CDestroy
    <3>3. options' = options
      BY <1>25 DEF ReturnInChild
    <3> QED
      BY <3>1, <3>2, <3>3
  <2> QED
    BY <2>1, <2>2, <1>25 DEF ReturnInChild
<1>26. CASE ProgramEnds
    BY <1>26 DEF ProgramEnds
<1>27. CASE UNCHANGED vars
    BY <1>27 DEF vars
<1> QED
    BY <1>1, <1>2, <1>3, <1>4, <1>5, <1>6, <1>7, <1>8, <1>9, <1>10, <1>11, <1>12, <1>13,
       <1>14, <1>15, <1>16, <1>17, <1>18, <1>19, <1>20, <1>21, <1>22, <1>23, <1>24, <1>25,
       <1>26, <1>27 DEF Next, Parent, Child

LEMMA DestroyOwn ==
    ASSUME NEW S, Destroy(S), ClosesOwn, S \ {"invalid"} \subseteq fds
    PROVE  ClosesOwn'
  BY Zenon DEF Destroy, ClosesOwn

\* No step closes what it must not.
LEMMA ClosesOwnNext ==
    ASSUME TypeOK, ClosesOwn, EndInv, OpenInv, PipeInv, InheritInv, [Next]_vars
    PROVE  ClosesOwn'
<1> USE DEF ClosesOwn, Goto, CGoto, parentVars, childVars
<1>1. CASE ParseOptions
    BY <1>1 DEF ParseOptions
<1>2. ASSUME NEW s \in Streams, Redirect(s) PROVE ClosesOwn'
    BY <1>2 DEF Redirect
<1>3. CASE InitExitPipe
    BY <1>3 DEF InitExitPipe
<1>4. CASE SetupInput
    BY <1>4 DEF SetupInput, Destroy, OpenInv, Streams
<1>5. CASE Prepare
    BY <1>5 DEF Prepare
<1>6. CASE MaskSignals
    BY <1>6 DEF MaskSignals
<1>7. CASE InitForkPipe
    BY <1>7 DEF InitForkPipe
<1>8. CASE ForkFails
    BY <1>8 DEF ForkFails, Destroy, PipeInv
<1>9. CASE Fork
    BY <1>9 DEF Fork
<1>10. CASE RestoreMask
    BY <1>10 DEF RestoreMask
<1>11. ASSUME NEW p \in {"fork", "error"}, CloseWrite(p) PROVE ClosesOwn'
  <2>1. WriteEnd(p) \subseteq fds
    BY <1>11 DEF CloseWrite, CloseAt, WriteEnd, Writer, PipeInv, ErrorPipe, ForkPipe
  <2> QED
    BY <2>1, <1>11, DestroyOwn DEF CloseWrite
<1>12. ASSUME NEW p \in {"fork", "error"}, ReadEnd(p) PROVE ClosesOwn'
  <2>1. CASE p = "fork"
    <3>1. "fork.read" \in fds
      BY <2>1, <1>12 DEF ReadEnd, ReadAt, PipeInv
    <3> QED
      BY <2>1, <3>1, <1>12, DestroyOwn DEF ReadEnd, NoErrno
  <2>2. CASE p = "error"
    BY <2>2, <1>12 DEF ReadEnd, NoErrno
  <2> QED
    BY <2>1, <2>2
<1>13. ASSUME NEW p \in {"fork", "error"}, ReadInterrupted(p) PROVE ClosesOwn'
  <2>1. CASE p = "fork"
    <3>1. "fork.read" \in fds
      BY <2>1, <1>13 DEF ReadInterrupted, ReadAt, PipeInv
    <3> QED
      BY <2>1, <3>1, <1>13, DestroyOwn DEF ReadInterrupted, NoErrno
  <2>2. CASE p = "error"
    BY <2>2, <1>13 DEF ReadInterrupted, NoErrno
  <2> QED
    BY <2>1, <2>2
<1>14. ASSUME NEW p \in {"fork", "error"}, ReadErrno(p) PROVE ClosesOwn'
    BY <1>14 DEF ReadErrno
<1>15. ASSUME NEW p \in {"fork", "error"}, Reap(p) PROVE ClosesOwn'
  <2>1. CASE p = "fork"
    <3>1. "fork.read" \in fds
      BY <2>1, <1>15 DEF Reap, ReapAt, PipeInv
    <3> QED
      BY <2>1, <3>1, <1>15, DestroyOwn DEF Reap
  <2>2. CASE p = "error"
    BY <2>2, <1>15 DEF Reap
  <2> QED
    BY <2>1, <2>2
<1>16. CASE Cleanup
    BY <1>16 DEF Cleanup, Destroy
<1>17. CASE Finish
    BY <1>17, OptionTypes DEF Finish, Destroy, HandlePipes, Owned, EndInv, OpenInv, TypeOK,
       Streams, ParentEnd, ChildEnd
<1>18. CASE ResetHandlers
    BY <1>18 DEF ResetHandlers
<1>19. CASE UnmaskSignals
    BY <1>19 DEF UnmaskSignals
<1>20. CASE LimitFds
    BY <1>20 DEF LimitFds
<1>21. CASE CloseFds
    BY <1>21 DEF CloseFds
<1>22. CASE Detach
    BY <1>22 DEF Detach, CDestroy, InheritInv, InFork
<1>23. CASE SetUp
    BY <1>23 DEF SetUp
<1>24. CASE Exec
    BY <1>24 DEF Exec
<1>25. CASE ReturnInChild
    BY <1>25, OptionTypes DEF ReturnInChild, CDestroy, InheritInv, InFork, InStart, Owned,
       TypeOK, Streams, ParentEnd, ChildEnd
<1>26. CASE ProgramEnds
    BY <1>26 DEF ProgramEnds
<1>27. CASE UNCHANGED vars
    BY <1>27 DEF vars
<1> QED
    BY <1>1, <1>2, <1>3, <1>4, <1>5, <1>6, <1>7, <1>8, <1>9, <1>10, <1>11, <1>12, <1>13,
       <1>14, <1>15, <1>16, <1>17, <1>18, <1>19, <1>20, <1>21, <1>22, <1>23, <1>24, <1>25,
       <1>26, <1>27 DEF Next, Parent, Child
-----------------------------------------------------------------------------
(* The theorems. *)

\* What holds in every state of reproc_start.
StartInv == TypeOK /\ SpawnInv /\ MaskInv /\ DescriptorInv

LEMMA StartInit == Init => StartInv
<1> SUFFICES ASSUME Init PROVE StartInv
  OBVIOUS
<1> USE SpawnAssumption DEF Init
<1>1. TypeOK
  BY ResultTypes, EndTypes DEF TypeOK, Pcs, CPcs, Errors
<1>2. ChildInv
  BY DEF ChildInv, InFork, InStart
<1>3. ParentInv
  BY DEF ParentInv, BeforeFork, Hearing, Over, ReapAt
<1>4. ResultInv
  BY DEF ResultInv, Over
<1>5. MaskInv
  BY DEF MaskInv
<1>6. EndInv
  BY DEF EndInv, Invalid, Before, Streams
<1>7. OpenInv
  BY OptionTypes DEF OpenInv, Invalid, Before, Streams, ParentEnd, ChildEnd
<1>8. PipeInv /\ InheritInv /\ ClosesOwn
  BY DEF PipeInv, InheritInv, ClosesOwn, InFork, InStart
<1> QED
  BY <1>1, <1>2, <1>3, <1>4, <1>5, <1>6, <1>7, <1>8 DEF StartInv, SpawnInv, DescriptorInv

LEMMA StartNext == StartInv /\ [Next]_vars => StartInv'
<1> SUFFICES ASSUME StartInv, [Next]_vars PROVE StartInv'
  OBVIOUS
<1>1. /\ TypeOK /\ ChildInv /\ ParentInv /\ ResultInv /\ MaskInv
      /\ EndInv /\ OpenInv /\ PipeInv /\ InheritInv /\ ClosesOwn
  BY DEF StartInv, SpawnInv, DescriptorInv
<1>2. pc = "fork" => mask = "all"
  BY <1>1 DEF MaskInv
<1>3. TypeOK'
  BY <1>1, <1>2, TypeNext
<1>4. ChildInv' /\ ParentInv' /\ ResultInv' /\ MaskInv'
  BY <1>1, ChildNext, ParentNext, ResultNext, MaskNext
<1>5. EndInv' /\ OpenInv' /\ PipeInv' /\ InheritInv' /\ ClosesOwn'
  BY <1>1, EndNext, OpenNext, PipeNext, InheritNext, ClosesOwnNext
<1> QED
  BY <1>3, <1>4, <1>5 DEF StartInv, SpawnInv, DescriptorInv

LEMMA StartAlways == Spec => []StartInv
  BY StartInit, StartNext, PTL DEF Spec

\* Every variable of reproc_start keeps its type, whichever step fails.
THEOREM StartTypeCorrect == Spec => []TypeOK
<1>1. StartInv => TypeOK
  BY DEF StartInv
<1> QED
  BY <1>1, StartAlways, PTL

\* No descriptor is closed twice or is not the call's own; when reproc_start
\* returns the open ones are those of the handle, none after an error, and null
\* devices in place of streams the parent does not have; and the signal mask is
\* restored unless fork or its pipe fails.
THEOREM StartIsClean == Spec => []StartCleansUp
<1>1. StartInv => StartCleansUp
  <2> SUFFICES ASSUME StartInv PROVE StartCleansUp
    OBVIOUS
  <2> USE DEF StartInv, DescriptorInv
  <2>1. ASSUME pc = "returned" PROVE fds \ NullDevices = HandlePipes \ {"invalid"}
    <3>1. \A f \in {"exit.write"} \cup ErrorPipe \cup ForkPipe : f \notin fds
      BY <2>1 DEF EndInv, OpenInv, PipeInv, Invalid, Streams, ErrorPipe, ForkPipe, Before
    <3>2. \A s \in Streams : ChildEnd[s] \in fds => ChildEnd[s] \in NullDevices
      <4>1. \A s \in Streams : ChildEnd[s] \in fds => options[s] = "missing"
        BY <2>1 DEF EndInv, OpenInv, Invalid, Streams, ChildEnd
      <4> QED
        BY <4>1 DEF NullDevices
    <3>3. \A f \in fds \ NullDevices : f = "exit.read" \/ \E s \in Streams : f = ParentEnd[s]
      BY <3>1, <3>2 DEF TypeOK, Fds, Streams, ParentEnd, ChildEnd
    <3>4. \A f \in fds \ NullDevices : f \in HandlePipes \ {"invalid"}
      BY <3>3 DEF OpenInv, HandlePipes, Streams, ParentEnd
    <3>5. \A f \in HandlePipes \ {"invalid"} :
            f \in fds /\ f \in {"exit.read", "in.write", "out.read", "err.read"}
      BY DEF OpenInv, HandlePipes, Streams, ParentEnd
    <3>6. \A f \in NullDevices : f \notin {"exit.read", "in.write", "out.read", "err.read"}
      BY DEF NullDevices, Streams, ChildEnd
    <3> QED
      BY <3>4, <3>5, <3>6
  <2>2. ASSUME pc = "returned", r < 0 PROVE fds \subseteq NullDevices
    <3>1. HandlePipes \ {"invalid"} = {}
      BY <2>2 DEF OpenInv, HandlePipes, Invalid, Streams
    <3> QED
      BY <2>1, <2>2, <3>1
  <2>3. ASSUME pc = "returned", r > 0 PROVE "exit.read" \in fds
    <3>1. pc \notin Before["exit"] /\ r >= 0
      BY <2>3, ErrorTypes DEF TypeOK, Results, Before
    <3> QED
      BY <3>1 DEF OpenInv
  <2>4. MaskRestored
    BY DEF MaskInv, MaskRestored
  <2> QED
    BY <2>1, <2>2, <2>3, <2>4 DEF StartCleansUp, DescriptorsAccounted
<1> QED
  BY <1>1, StartAlways, PTL

\* An error that reproc_start returns is that of the step that failed, in the
\* parent or in the child, and no child is left, running or to be reaped.
THEOREM StartErrorTrue == Spec => []ErrorTrue
<1>1. StartInv => ErrorTrue
  BY DEF StartInv, SpawnInv, ResultInv, Over, ErrorTrue, ErrorIsCause, NoOrphan
<1> QED
  BY <1>1, StartAlways, PTL

\* When reproc_start succeeds its child has got past exec, or in fork mode past
\* process_start.
THEOREM StartedRuns == Spec => []StartedMeansRunning
<1>1. StartInv => StartedMeansRunning
  BY ErrorTypes DEF StartInv, SpawnInv, ResultInv, TypeOK, Results, Over, Past,
     StartedMeansRunning
<1> QED
  BY <1>1, StartAlways, PTL

\* No handler of the parent for signals 1 to 31 runs in the child, the program starts
\* with no handler and nothing blocked, and of the call's descriptors it inherits the
\* exit handle alone.  In fork mode real-time handlers and null devices may stay.
THEOREM StartContains == Spec => []ChildContained
<1>1. StartInv => HandlersContained
  BY DEF StartInv, MaskInv, SpawnInv, ChildInv, TypeOK, CPcs, HandlersContained
<1>2. StartInv => ProgramInherits
  BY DEF StartInv, DescriptorInv, InheritInv, ProgramInherits, NullDevices
<1>3. StartInv => ChildContained
  BY <1>1, <1>2 DEF ChildContained
<1> QED
  BY <1>3, StartAlways, PTL
=============================================================================
