----------------------------- MODULE MCPcqApply -----------------------------
(* PcqApply for TLC. *)
EXTENDS PcqApply

\* A bound: gaps of one kind at a time.
OneReason == \A r, s \in missed : r = s
=============================================================================
