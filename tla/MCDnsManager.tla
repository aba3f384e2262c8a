---------------------------- MODULE MCDnsManager ----------------------------
(* DnsService for TLC.  Requests are interchangeable, and so are processes and *)
(* the ids of rows, which may hold anything.                                   *)
EXTENDS DnsService, TLC

MCParent == [n \in Names |-> CASE n = "a.example.com" -> "example.com" [] OTHER -> "com"]

Symmetry == Permutations(Requests) \union Permutations(Kids) \union Permutations(Records)

\* A bound: gaps of one kind at a time.
OneReason == \A r, s \in missed : r = s

\* A bound: from a failure to the next reading of the settings one request is served.
AloneAfterFailure == "failure" \in missed => \E p \in Requests : pc[p] = "idle"
=============================================================================
