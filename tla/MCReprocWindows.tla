-------------------------- MODULE MCReprocWindows --------------------------
(* An instance of ReprocWindows for TLC. *)
EXTENDS ReprocWindows

CONSTANTS t1, t2

Config(in, out, err) ==
    [in |-> in, out |-> out, err |-> err, std |-> TRUE, input |-> FALSE, fork |-> FALSE]

\* t1 meets every redirect and every failure; t2, which inherits the standard
\* handles, is there to meet t1 in process_start.
MCConfigs == [t \in Threads |->
    IF t = t1 THEN {
        Config("pipe", "pipe", "stdout"),
        [Config("pipe", "discard", "parent") EXCEPT !.input = TRUE],
        [Config("parent", "pipe", "pipe") EXCEPT !.std = FALSE],
        [Config("discard", "discard", "discard") EXCEPT !.fork = TRUE] }
    ELSE {Config("parent", "parent", "parent")}]

MCFailures == [t \in Threads |-> IF t = t1 THEN Fallible ELSE {"create"}]

\* Success, and an exit code that is REPROC_ETIMEDOUT as an int.
MCCodes == {0, REPROC_ETIMEDOUT}
=============================================================================
