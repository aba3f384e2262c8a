--------------------------- MODULE MCProvisioning ---------------------------
(* Provisioning for TLC. *)
EXTENDS Provisioning, TLC

\* Nothing tells names, administrators or requests apart.
Symmetry ==
    Permutations(Admins) \union Permutations(Names) \union Permutations(Requests)
=============================================================================
