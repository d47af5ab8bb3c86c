------------------------------ MODULE MCReprocPoll ------------------------------
(* Instances of ReprocPoll for TLC. *)
EXTENDS ReprocPoll

MCDeadlines == {REPROC_INFINITE, 1, 2}
MCTimeouts  == {REPROC_INFINITE, 1}
MCInterests == {{"out"}, {"exit"}}
MCPiped == {{"out", "exit"}}
=============================================================================
