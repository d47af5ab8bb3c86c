-------------------------- MODULE ReprocRefinement --------------------------
(***************************************************************************)
(* ReprocHandle implements ReprocContract: the refinement mapping.         *)
(***************************************************************************)
EXTENDS ReprocHandle

Contract == INSTANCE ReprocContract WITH
    Statuses    <- Codes \cup {SIGOFFSET + SIGTERM, SIGOFFSET + SIGKILL},
    BrokenOffResult <- EINTR,
    life    <- CASE child = "none"    -> "none"
                 [] child = "running" -> "alive"
                 [] OTHER             -> "ended",
    outcome <- code,
    doomed  <- SIGKILL \in signals,
    known   <- CASE status = STATUS_NOT_STARTED -> "nothing"
                 [] status = STATUS_IN_PROGRESS -> "started"
                 [] status = STATUS_IN_CHILD    -> "inChild"
                 [] OTHER                       -> "status",
    api     <- [t \in Threads |->
                  [op |-> call[t].op, busy |-> call[t].pc # "idle",
                   ret |-> IF call[t].pc = "idle" THEN call[t].ret ELSE 0,
                   event |-> call[t].event]]

\* Every behaviour of the code is one the documentation of the calls allows.
ImplementsContract == Contract!Spec
=============================================================================
