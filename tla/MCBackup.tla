------------------------------ MODULE MCBackup ------------------------------
(* Backup for TLC.  The values of each set are interchangeable. *)
EXTENDS Backup, TLC

Symmetry == Permutations(Configs) \union Permutations(Keys) \union Permutations(Names)

\* Who has a backup does not take another; it can be restored many times.
OneBackup ==
    \A p \in Requests : pc[p] \in {"key", "peers", "groups", "presets"} => shelf = Blank

\* No two accounts are given the same pair, as no two are in practice.
OwnPairs == \A u, v \in Accounts : u # v => peer[u].pub # peer[v].pub
=============================================================================
