-------------------------- MODULE PeerSyncRenewal ---------------------------
(***************************************************************************)
(* PeerSync with the time each account is paid until: the moment its       *)
(* remaining_days was last entered plus 24 hours for each day.             *)
(* UserUpdatePost stores the new day count and leaves last_day_check as it *)
(* was (handlers.go:1351-1363), and the syncer takes from the new count    *)
(* all the days since that check (syncer.go:218-224).                      *)
(***************************************************************************)
EXTENDS PeerSync

VARIABLES
    paidUntil,    \* history: paidUntil[u], an hour, or NULL without a limit
    unseen        \* history: unseen[u], hours from the last check to the renewal

renewalVars == <<vars, paidUntil, unseen>>

RenewalInit ==
    /\ Init
    /\ paidUntil = [u \in Users |-> NULL]
    /\ unseen = [u \in Users |-> 0]

PaidUntil(n) == IF n = NULL THEN NULL ELSE now + 24 * n
SinceCheck(t) == IF t = NULL THEN 0 ELSE now - t

Renew(u) ==
    /\ UserCreate(u) \/ UserUpdate(u)
    /\ paidUntil' = [paidUntil EXCEPT ![u] = PaidUntil(user'[u].days)]
    /\ unseen' = [unseen EXCEPT ![u] = SinceCheck(user'[u].lastCheck)]

RenewalNext ==
    \/ \E u \in Users : Renew(u)
    \/ /\ \/ \E u \in Users : UserToggle(u) \/ UserDelete(u)
          \/ SyncDump \/ SyncCommit \/ SyncAbort \/ WireGuardPost
          \/ PushStep
          \/ \E u \in Users, d \in Dir : Transfer(u, d)
          \/ InterfaceLost \/ Restart \/ Tick
       /\ UNCHANGED <<paidUntil, unseen>>

RenewalSpec == RenewalInit /\ [][RenewalNext]_renewalVars

-----------------------------------------------------------------------------

\* An account does not run out of days more than a day before the time it was
\* renewed for.  The day of grace is the part of a day that the previous
\* period may have left to be charged.
RenewalLasts ==
    \A u \in Users :
        user[u] # NULL /\ paidUntil[u] # NULL /\ user[u].days = 0
            => now + 24 >= paidUntil[u]

\* What an account can lose is that and no more: the hours between the last check
\* and the renewal, in which its peer was away or its days stood at none.  An
\* account that was checked within a day is served as RenewalLasts says.
RenewalLosesUnseen ==
    \A u \in Users :
        user[u] # NULL /\ paidUntil[u] # NULL /\ user[u].days = 0
            => now + unseen[u] >= paidUntil[u]

\* The days that are left reach from the last check to the time paid for.
RenewalInv ==
    /\ paidUntil \in [Users -> Nat \union {NULL}] /\ unseen \in [Users -> Nat]
    /\ \A u \in Users :
          user[u] # NULL /\ user[u].days # NULL =>
             /\ paidUntil[u] # NULL
             /\ paidUntil[u] <= unseen[u] + 24 * user[u].days
                                 + (IF user[u].lastCheck = NULL THEN now ELSE user[u].lastCheck)
=============================================================================
