---------------------------- MODULE ReprocContract ----------------------------
(***************************************************************************)
(* What reproc.h promises the callers of one reproc_t handle, with every   *)
(* call reduced to its beginning and its return: no exit pipe, no polls,   *)
(* no reaping.  ReprocHandle implements it.                                *)
(***************************************************************************)
EXTENDS Integers

CONSTANTS
    Threads,     \* threads that call the library
    Statuses,    \* exit statuses a child may end with
    BrokenOffResult  \* the result of a call that a signal handler broke off

VARIABLES
    life,     \* the child: "none", "alive" or "ended"
    outcome,  \* the status it ended with
    doomed,   \* it has been sent SIGKILL, and dies of it some time later
    known,    \* "nothing", "started", "inChild" or "status": what the handle knows
    freed,    \* the handle is gone
    api       \* per thread: the current or the last call

vars == <<life, outcome, doomed, known, freed, api>>

Ops == {"none", "start", "wait", "terminate", "kill", "stop", "poll", "destroy"}
Calls == [op : Ops, busy : BOOLEAN, ret : Int, event : {"none", "exit", "deadline"}]

Init ==
    /\ life = "none"
    /\ outcome = 0
    /\ doomed = FALSE
    /\ known = "nothing"
    /\ freed = FALSE
    /\ api = [t \in Threads |->
                [op |-> "none", busy |-> FALSE, ret |-> 0, event |-> "none"]]

\* The child is born when the handle is started, and ends once.
Live ==
    \/ UNCHANGED <<life, outcome>>
    \/ /\ life = "none"
       /\ known = "nothing" /\ known' = "started"
       /\ life' = "alive"
       /\ UNCHANGED outcome
    \/ /\ life = "alive"
       /\ life' = "ended"
       /\ outcome' \in Statuses

\* Only calls that kill send SIGKILL, while they are in progress, and only to a
\* child that lives.
Doom ==
    \/ UNCHANGED doomed
    \/ /\ life = "alive"
       /\ \E t \in Threads : api[t].busy /\ api[t].op \in {"kill", "stop", "destroy"}
       /\ doomed'

\* The handle learns the status of a child that has ended, and never forgets it.
Learn ==
    \/ UNCHANGED known
    \/ known = "nothing" /\ known' = "started" /\ life = "none" /\ life' = "alive"
    \/ known = "nothing" /\ known' = "inChild" /\ UNCHANGED life
    \/ known = "started" /\ known' = "status" /\ life = "ended"

\* What the result of thread t's call means at the moment the call returns it.
\* reproc_stop may also return 0 without a status.  That reproc_kill succeeds does
\* not mean that the child is over: it still has to be waited for.
Means(t) ==
    LET c == api'[t] IN
    /\ c.op = "wait" /\ c.ret >= 0         => known' = "status" /\ c.ret = outcome'
    /\ c.op = "stop" /\ c.ret > 0          => known' = "status" /\ c.ret = outcome'
    /\ c.op = "kill" /\ c.ret = 0          => life' = "ended" \/ doomed'
    /\ c.op = "poll" /\ c.event = "exit"   => life' = "ended"
    /\ c.op = "start" /\ c.ret > 0         => known = "nothing" /\ known' = "started"
    /\ c.op = "destroy" /\ life' = "alive" => doomed' \/ c.ret = BrokenOffResult

Others(t) == \A u \in Threads \ {t} : api'[u] = api[u]

Begin(t) ==
    /\ ~freed
    /\ ~api[t].busy
    /\ api'[t].busy
    /\ Others(t)
    /\ UNCHANGED freed

\* A call in progress returns, or one returns as soon as it is made.
Return(t) ==
    /\ api[t].busy => api'[t].op = api[t].op
    /\ ~freed
    /\ ~api'[t].busy
    /\ Means(t)
    /\ freed' = (api'[t].op = "destroy")
    /\ Others(t)

Next ==
    /\ Live
    /\ Doom
    /\ Learn
    /\ api' \in [Threads -> Calls]
    /\ \/ UNCHANGED <<api, freed>>
       \/ \E t \in Threads : Begin(t) \/ Return(t)

Spec == Init /\ [][Next]_vars
=============================================================================
