------------------------------ MODULE MCReprocRun ------------------------------
(* An instance of ReprocRun for TLC. *)
EXTENDS MCReprocHandle, ReprocRun

\* Sinks that fail, and one that stops the drain with a positive result.
MCSinkResults == {-1, 1}
=============================================================================
