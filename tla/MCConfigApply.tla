--------------------------- MODULE MCConfigApply ----------------------------
(* ConfigApply for TLC.  Requests are interchangeable. *)
EXTENDS ConfigApply, TLC

Symmetry == Permutations(Requests)

\* A bound: gaps of one kind at a time, besides settings that wait for a restart.
OneReason == Cardinality(missed \ {"settings"}) <= 1

\* What a file says that nobody is writing, will rename or will read makes no
\* difference: the next push truncates it first (OpenFile).
Unread(n) ==
    \A p \in Procs :
        pc[p] \notin (IF n = "tmp" THEN {"fill", "rename"} ELSE {"fillcopy", "sync"})

\* A state without the texts of such files and the doubts about them.
View ==
    LET text(n) == IF n # "conf" /\ file[n] # NULL /\ Unread(n) THEN Torn ELSE file[n]
        doubts == IF Unread("tmp") THEN suspect \ {"tmp"} ELSE suspect
    IN  <<db, live, own, at, back, missed, doubts, [n \in Names |-> text(n)]>>
=============================================================================
