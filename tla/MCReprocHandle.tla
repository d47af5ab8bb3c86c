--------------------------- MODULE MCReprocHandle ---------------------------
(* Instances of ReprocHandle for TLC. *)
EXTENDS ReprocRefinement, TLC

Act(a, limit) == [action |-> a, timeout |-> limit]

MCCodes == {0, 3}

\* The example of reproc.h:482-486.
ExamplePlan == <<Act("wait", "finite"), Act("terminate", "finite"), Noop>>

\* The default, the example, and an early signal followed by a wait for the deadline
\* and a kill.
MCPlans == {
    NoPlan,
    ExamplePlan,
    <<Act("terminate", "zero"), Act("wait", "deadline"), Act("kill", "finite")>> }

ExamplePlans == {ExamplePlan}

OnePlan == {<<Act("wait", "zero"), Act("terminate", "finite"), Act("kill", "finite")>>}

\* Callers that keep the operations that wait apart from all others.
SerialOverlaps == {{"terminate", "kill"}, {"terminate", "poll"}, {"kill", "poll"}}

\* Callers that wait, stop and kill at the same time.
SloppyOverlaps == {{"wait", "stop"}, {"stop", "kill"}}

Symmetry == Permutations(Threads)
=============================================================================
