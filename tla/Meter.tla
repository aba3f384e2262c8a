------------------------------- MODULE Meter -------------------------------
(***************************************************************************)
(* What the WireGuard syncer promises about metering, without saying how:  *)
(* every user account has a meter.  Traffic flows; from time to time the   *)
(* meters are read, and a reading adds to the meter some of the traffic    *)
(* that has really flowed, never more, and takes exactly what it added     *)
(* from the quota.  Administrators set quotas and open or close accounts.  *)
(*                                                                         *)
(* PeerSync implements this specification from polled, restarting counters.*)
(***************************************************************************)
EXTENDS Integers

CONSTANTS
    Users,      \* the accounts
    NULL        \* no quota: unlimited

VARIABLES
    flowed,     \* flowed[u]: bytes the tunnel of u has really carried
    metered,    \* metered[u]: bytes the account of u shows
    quota       \* quota[u]: bytes u may still use, or NULL

vars == <<flowed, metered, quota>>

TypeOK ==
    /\ flowed \in [Users -> Nat]
    /\ metered \in [Users -> Nat]
    /\ quota \in [Users -> Nat \union {NULL}]

Init ==
    /\ flowed = [u \in Users |-> 0]
    /\ metered = [u \in Users |-> 0]
    /\ quota = [u \in Users |-> NULL]

\* What is left of a quota q once n more bytes are charged to it.
Charge(q, n) ==
    CASE q = NULL -> NULL
      [] q # NULL /\ q > n -> q - n
      [] OTHER -> 0

\* The function f changes at u at most.
OnlyAt(u, f, g) == \A v \in Users \ {u} : g[v] = f[v]

Flow(u) ==
    /\ flowed' \in [Users -> Nat]
    /\ flowed[u] <= flowed'[u]
    /\ OnlyAt(u, flowed, flowed')
    /\ UNCHANGED <<metered, quota>>

Read ==
    /\ metered' \in [Users -> Nat]
    /\ \A u \in Users : /\ metered[u] <= metered'[u]
                        /\ metered'[u] <= flowed[u]
    /\ quota' = [u \in Users |-> Charge(quota[u], metered'[u] - metered[u])]
    /\ UNCHANGED flowed

Grant(u) ==
    /\ quota' \in [Users -> Nat \union {NULL}]
    /\ OnlyAt(u, quota, quota')
    /\ UNCHANGED <<flowed, metered>>

Close(u) ==
    /\ quota' = [quota EXCEPT ![u] = NULL]
    /\ metered' = [metered EXCEPT ![u] = 0]
    /\ UNCHANGED flowed

Next ==
    \/ \E u \in Users : Flow(u) \/ Grant(u) \/ Close(u)
    \/ Read

Spec == Init /\ [][Next]_vars

\* No account shows more bytes than its tunnel carried.
NeverOvercharged == \A u \in Users : metered[u] <= flowed[u]

=============================================================================
