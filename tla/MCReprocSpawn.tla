----------------------------- MODULE MCReprocSpawn -----------------------------
(* Instances of ReprocSpawn for TLC. *)
EXTENDS ReprocSpawn

MCErrnos == {12, 13}  \* ENOMEM, EACCES

\* Every combination of redirects the options allow, without and with input,
\* with a program and in fork mode.
MCConfigs ==
    {o \in Options : /\ "stdout" \notin {o.in, o.out}
                     /\ o.input => o.in = "pipe"}
=============================================================================
