---------------------------- MODULE MCReprocStreams ----------------------------
(* Instances of ReprocStreams for TLC. *)
EXTENDS ReprocStreams

MCInputs  == {NoInput, 1, 2}
OutAndErr == {{"out", "err"}}
=============================================================================
