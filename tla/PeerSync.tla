------------------------------ MODULE PeerSync ------------------------------
(***************************************************************************)
(* The WireGuard syncer (wireguard/syncer.go) between the three copies of  *)
(* a peer it depends on: the row of vpn_users, the peer list of wg0.conf   *)
(* and the peers of the running interface with their transfer counters.    *)
(*                                                                         *)
(* The syncer polls: it dumps the interface, and only then opens the       *)
(* transaction that reads and rewrites the rows, so the rows it reads may  *)
(* be newer than the dump it compares them with.  Administrators write     *)
(* rows and then push them: handler -> WriteWireGuardConfig -> ApplyConfig *)
(* or RestartConfig.  One administrator acts at a time here; concurrent    *)
(* pushes are another module's subject, and so are restores of backups,    *)
(* which put the counters, days and quotas of a file into the rows.        *)
(***************************************************************************)
EXTENDS Integers

CONSTANTS
    Users,        \* ids of vpn_users rows
    KeyPairs,     \* key pairs an account may be given; no two accounts share one
    Quotas,       \* byte quotas an administrator may enter
    Days,         \* day counts an administrator may enter
    TickHours,    \* hours that pass at once
    MaxBytes,     \* bound: bytes a peer carries in one direction
    MaxHours,     \* bound: hours the run lasts
    NULL          \* SQL NULL; no row; no peer; no dump

ASSUME ConstantsAssumption ==
    /\ Quotas \subseteq Nat /\ Days \subseteq Nat
    /\ TickHours \in Nat /\ MaxBytes \in Nat /\ MaxHours \in Nat
    /\ NULL \notin Nat

VARIABLES
    user,      \* vpn_users: user[u] is a row, or NULL
    conf,      \* wg0.conf: conf[u] is the key pair listed for u, or NULL
    up,        \* the WireGuard interface exists
    wg,        \* its peers: wg[u] is u's peer, or NULL
    admin,     \* how far the administrator's request has got
    dump,      \* the syncer's dump while its transaction is to come, or NULL
    now,       \* hours
    carried,   \* history: carried[u][d], bytes u's peers ever carried
    charged    \* history: charged[u], the creation time of the row plus 24 for
               \* each day taken from remaining_days since

vars == <<user, conf, up, wg, admin, dump, now, carried, charged>>

-----------------------------------------------------------------------------
(* Types.  A row keeps the columns the syncer's decisions read.  rx and tx *)
(* are bytes_received and bytes_sent, the counters of the last dump the    *)
(* row saw; total holds what earlier lives of the counters amounted to.    *)
(* lastCheck is NULL for both NULL and '': neither parses as a time.       *)

Dir == {"rx", "tx"}
Counters == [Dir -> Nat]
Zero == [d \in Dir |-> 0]

Row == [key : KeyPairs, enabled : BOOLEAN, stored : Counters, total : Counters,
        days : Nat \union {NULL}, quota : Nat \union {NULL},
        lastCheck : Nat \union {NULL}]

Peer == [key : KeyPairs, ctr : Counters]
Peers == [Users -> Peer \union {NULL}]

ASSUME NoPeerAssumption == NULL \notin Peer
ASSUME NoRowAssumption == NULL \notin Row

\* The last component records carried when the dump was taken (history).
Dump == [peers : Peers, carried : [Users -> Counters]]

AdminStates == {"idle", "write", "save", "load", "rewrite", "down", "up"}

TypeOK ==
    /\ user \in [Users -> Row \union {NULL}]
    /\ conf \in [Users -> KeyPairs \union {NULL}]
    /\ up \in BOOLEAN
    /\ wg \in Peers
    /\ admin \in AdminStates
    /\ dump \in Dump \union {NULL}
    /\ now \in Nat
    /\ carried \in [Users -> Counters]
    /\ charged \in [Users -> Nat]

-----------------------------------------------------------------------------
(* One row against its peer: the loop body of syncOnce.  A definition named  *)
(* Mutant... is a plausible mistake in the one after it; the property that   *)
(* notices the mistake is named in PROJECT.json.                             *)

AtLeast0(n) == IF n > 0 THEN n ELSE 0

MutantResetOnEqual(r, p) == \E d \in Dir : p.ctr[d] <= r.stored[d]
MutantResetOnBoth(r, p) == \A d \in Dir : p.ctr[d] < r.stored[d]

\* "detect counter reset (reconnect / wg restart)": either counter fell.
CounterReset(r, p) == \E d \in Dir : p.ctr[d] < r.stored[d]

MutantTotalOfNew(r, p) ==
    IF CounterReset(r, p) THEN [d \in Dir |-> r.total[d] + p.ctr[d]] ELSE r.total

NewTotal(r, p) ==
    IF CounterReset(r, p) THEN [d \in Dir |-> r.total[d] + r.stored[d]] ELSE r.total

Usage(total, ctr) == total["rx"] + total["tx"] + ctr["rx"] + ctr["tx"]

UsageInc(r, p) == Usage(NewTotal(r, p), p.ctr) - Usage(r.total, r.stored)

MutantUnclampedQuota(r, p) == IF r.quota = NULL THEN NULL ELSE r.quota - UsageInc(r, p)

NewQuota(r, p) == IF r.quota = NULL THEN NULL ELSE AtLeast0(r.quota - UsageInc(r, p))

MutantStartedDays(t) == (now - t + 23) \div 24

\* Whole days since the last check, as int64(Hours() / 24) counts them.
DaysSince(t) == (now - t) \div 24

\* remaining_days is watched: it is set, not used up.
DaysRunning(r) == r.days # NULL /\ r.days # 0

NewDays(r) ==
    IF DaysRunning(r) /\ r.lastCheck # NULL
    THEN AtLeast0(r.days - DaysSince(r.lastCheck)) ELSE r.days

MutantFirstCheckKept(r) ==
    IF DaysRunning(r) /\ r.lastCheck = NULL THEN now ELSE r.lastCheck

NewLastCheck(r) ==
    IF DaysRunning(r) /\ (r.lastCheck = NULL \/ DaysSince(r.lastCheck) >= 1)
    THEN now ELSE r.lastCheck

Spent(quota, days) == quota = 0 \/ days = 0

MutantQuotaIgnored(r, p) == NewDays(r) # 0

\* A spent account is disabled; a disabled one that is not spent is enabled
\* again: hasTraffic and hasDays (syncer.go:262) hold whenever disable does not.
NewEnabled(r, p) == ~Spent(NewQuota(r, p), NewDays(r))

SyncedRow(r, p) ==
    [r EXCEPT !.stored = p.ctr,
              !.total = NewTotal(r, p),
              !.quota = NewQuota(r, p),
              !.days = NewDays(r),
              !.lastCheck = NewLastCheck(r),
              !.enabled = NewEnabled(r, p)]

\* The row's public key is in the dump.
InDump(u) == /\ user[u] # NULL
             /\ dump.peers[u] # NULL
             /\ dump.peers[u].key = user[u].key

-----------------------------------------------------------------------------
(* The syncer. *)

NoPeers == [u \in Users |-> NULL]

\* wg show interfaces, then wg show <iface> dump; nothing when none is up.
SyncDump ==
    /\ dump = NULL
    /\ up
    /\ dump' = [peers |-> wg, carried |-> carried]
    /\ UNCHANGED <<user, conf, up, wg, admin, now, carried, charged>>

DaysCharged(u) == IF InDump(u) /\ DaysRunning(user[u])
                  THEN user[u].days - NewDays(user[u]) ELSE 0

\* The transaction over all rows.
SyncCommit ==
    /\ dump # NULL
    /\ user' = [u \in Users |-> IF InDump(u) THEN SyncedRow(user[u], dump.peers[u])
                                ELSE user[u]]
    /\ dump' = NULL
    /\ charged' = [u \in Users |-> charged[u] + 24 * DaysCharged(u)]
    /\ UNCHANGED <<conf, up, wg, admin, now, carried>>

\* Any statement of the transaction fails: all of it is rolled back.
SyncAbort ==
    /\ dump # NULL
    /\ dump' = NULL
    /\ UNCHANGED <<user, conf, up, wg, admin, now, carried, charged>>

-----------------------------------------------------------------------------
(* The administrator's requests: each writes its row, then pushes. *)

Request(next) ==
    /\ admin = "idle"
    /\ admin' = next
    /\ UNCHANGED <<conf, up, wg, dump, now, carried>>

UserCreate(u) ==
    /\ user[u] = NULL
    /\ \E k \in KeyPairs, e \in BOOLEAN, n \in Days \union {NULL}, q \in Quotas \union {NULL} :
          user' = [user EXCEPT ![u] =
                      [key |-> k, enabled |-> e, stored |-> Zero, total |-> Zero,
                       days |-> n, quota |-> q, lastCheck |-> NULL]]
    /\ charged' = [charged EXCEPT ![u] = now]
    /\ Request("write")

\* The form always carries days, quota and the switch, and perhaps a new key.
UserUpdate(u) ==
    /\ user[u] # NULL
    /\ \E k \in KeyPairs, e \in BOOLEAN, n \in Days \union {NULL}, q \in Quotas \union {NULL} :
          user' = [user EXCEPT ![u].key = k, ![u].enabled = e,
                               ![u].days = n, ![u].quota = q]
    /\ Request("write")
    /\ UNCHANGED charged

UserToggle(u) ==
    /\ user[u] # NULL
    /\ user' = [user EXCEPT ![u].enabled = ~@]
    /\ Request("write")
    /\ UNCHANGED charged

UserDelete(u) ==
    /\ user[u] # NULL
    /\ user' = [user EXCEPT ![u] = NULL]
    /\ Request("write")
    /\ UNCHANGED charged

\* Save stores server settings, which no peer depends on; Reload and Restart
\* store nothing.
WireGuardPost ==
    /\ \E next \in {"save", "write", "rewrite"} : Request(next)
    /\ UNCHANGED <<user, charged>>

-----------------------------------------------------------------------------
(* WriteWireGuardConfig, ApplyConfig, RestartConfig. *)

AfterWrite == CASE admin = "rewrite" -> "down" [] OTHER -> "load"

MutantListedAnyway(u) == IF user[u] # NULL THEN user[u].key ELSE NULL

\* The peer section written for u: enabled rows only.
Listed(u) == IF user[u] # NULL /\ user[u].enabled THEN user[u].key ELSE NULL

WriteConfig ==
    /\ admin \in {"write", "save", "rewrite"}
    /\ conf' = [u \in Users |-> Listed(u)]
    /\ admin' = AfterWrite
    /\ UNCHANGED <<user, up, wg, dump, now, carried, charged>>

\* SaveWireGuardState goes on to apply the old file; the others give up.
WriteConfigFails ==
    /\ admin \in {"write", "save", "rewrite"}
    /\ admin' = IF admin = "save" THEN "load" ELSE "idle"
    /\ UNCHANGED <<user, conf, up, wg, dump, now, carried, charged>>

\* A peer that stays keeps its counters; one that comes starts from zero.
Loaded(u) ==
    CASE conf[u] = NULL -> NULL
      [] conf[u] # NULL /\ wg[u] # NULL /\ wg[u].key = conf[u] -> wg[u]
      [] OTHER -> [key |-> conf[u], ctr |-> Zero]

\* wg syncconf, or wg-quick up when there is no interface.
LoadConfig ==
    /\ admin \in {"load", "up"}
    /\ up' = TRUE
    /\ wg' = [u \in Users |-> Loaded(u)]
    /\ admin' = "idle"
    /\ UNCHANGED <<user, conf, dump, now, carried, charged>>

\* wg-quick down, the first half of a restart.
TakeDown ==
    /\ admin = "down"
    /\ up' = FALSE
    /\ wg' = NoPeers
    /\ admin' = "up"
    /\ UNCHANGED <<user, conf, dump, now, carried, charged>>

ApplyFails ==
    /\ admin \in {"load", "down", "up"}
    /\ admin' = "idle"
    /\ UNCHANGED <<user, conf, up, wg, dump, now, carried, charged>>

-----------------------------------------------------------------------------
(* The rest of the world. *)

\* u's peer carries a byte.
Transfer(u, d) ==
    /\ wg[u] # NULL
    /\ carried[u][d] < MaxBytes
    /\ wg' = [wg EXCEPT ![u].ctr[d] = @ + 1]
    /\ carried' = [carried EXCEPT ![u][d] = @ + 1]
    /\ UNCHANGED <<user, conf, up, admin, dump, now, charged>>

\* The interface goes away behind the program's back.
InterfaceLost ==
    /\ up
    /\ up' = FALSE
    /\ wg' = NoPeers
    /\ UNCHANGED <<user, conf, admin, dump, now, carried, charged>>

\* The process dies; main reloads WireGuard from the database when it starts.
Restart ==
    /\ dump' = NULL
    /\ admin' = "write"
    /\ UNCHANGED <<user, conf, up, wg, now, carried, charged>>

\* A transaction waits for seconds at most, so hours pass between syncs.
Tick ==
    /\ dump = NULL
    /\ now + TickHours <= MaxHours
    /\ now' = now + TickHours
    /\ UNCHANGED <<user, conf, up, wg, admin, dump, carried, charged>>

Init ==
    /\ user = [u \in Users |-> NULL]
    /\ conf = [u \in Users |-> NULL]
    /\ up = FALSE
    /\ wg = NoPeers
    /\ admin = "idle"
    /\ dump = NULL
    /\ now = 0
    /\ carried = [u \in Users |-> Zero]
    /\ charged = [u \in Users |-> 0]

AdminStep == \E u \in Users : UserCreate(u) \/ UserUpdate(u) \/ UserToggle(u) \/ UserDelete(u)

PushStep == WriteConfig \/ WriteConfigFails \/ LoadConfig \/ TakeDown \/ ApplyFails

Next ==
    \/ SyncDump \/ SyncCommit \/ SyncAbort
    \/ AdminStep \/ WireGuardPost
    \/ PushStep
    \/ \E u \in Users, d \in Dir : Transfer(u, d)
    \/ InterfaceLost \/ Restart \/ Tick

Spec == Init /\ [][Next]_vars

\* The ticker never stops and the database is not broken for ever
\* (loop, syncer.go:58-73: an error is logged and the next tick tries again).
SyncFairness == WF_vars(SyncDump) /\ SF_vars(SyncCommit)

\* A request that was begun is carried through: nothing hangs for ever, for
\* every command has a timeout, and it is not every attempt that fails.
PushFairness == SF_vars(WriteConfig) /\ SF_vars(LoadConfig) /\ SF_vars(TakeDown)

SyncSpec == Spec /\ SyncFairness

FairSpec == SyncSpec /\ PushFairness

-----------------------------------------------------------------------------
(* Properties of the accounting. *)

\* What the account page shows for u: all lives of its counters together.
Recorded(u, d) == IF user[u] = NULL THEN 0 ELSE user[u].total[d] + user[u].stored[d]

\* The syncer never books a byte twice, whatever restarts, re-added peers, new
\* keys and stale dumps it meets: a row shows no more than u's peers carried
\* (the counter-reset rule, syncer.go:194-200).
NoOvercount == \A u \in Users, d \in Dir : Recorded(u, d) <= carried[u][d]

\* The promise of the metering as a whole: the columns of vpn_users behave as
\* the meters and quotas of Meter, so that a sync charges a quota exactly what
\* it adds to the meter and meters never run backwards (syncer.go:194-253).
Meters == INSTANCE Meter WITH
    flowed <- [u \in Users |-> carried[u]["rx"] + carried[u]["tx"]],
    metered <- [u \in Users |-> Recorded(u, "rx") + Recorded(u, "tx")],
    quota <- [u \in Users |-> IF user[u] = NULL THEN NULL ELSE user[u].quota]

MeterSpec == Meters!Spec

\* No hour of an account's life is charged to its remaining_days twice, however
\* often the daemon restarts and the peer comes and goes: the days taken so far
\* fit into the time since the row was created (syncer.go:211-236).
NoDayChargedTwice == \A u \in Users : charged[u] <= now

-----------------------------------------------------------------------------
(* Why the accounting is right.  base is what earlier lives of the counters  *)
(* carried; a life that began after the row was last synced is entirely      *)
(* above what the row holds, one that was seen before contains stored.       *)

FitsIn(r, base, ctr) ==
    \/ \A d \in Dir : r.total[d] + r.stored[d] <= base[d]
    \/ \A d \in Dir : r.total[d] <= base[d] /\ r.stored[d] <= ctr[d]

Ctr(p) == IF p = NULL THEN Zero ELSE p.ctr
Base(c, p) == [d \in Dir |-> c[d] - Ctr(p)[d]]

CountersFit(c, p) == \A d \in Dir : Ctr(p)[d] <= c[d]

\* The old peer and bytes carried show an earlier moment of the life that p
\* and c show, or an earlier life.
IsPast(oldc, old, c, p) ==
    \/ \A d \in Dir : Base(oldc, old)[d] = Base(c, p)[d] /\ Ctr(old)[d] <= Ctr(p)[d]
    \/ \A d \in Dir : oldc[d] <= Base(c, p)[d]

Accounted(u) ==
    /\ CountersFit(carried[u], wg[u])
    /\ user[u] # NULL => FitsIn(user[u], Base(carried[u], wg[u]), Ctr(wg[u]))
    /\ dump # NULL =>
        /\ CountersFit(dump.carried[u], dump.peers[u])
        /\ IsPast(dump.carried[u], dump.peers[u], carried[u], wg[u])
        /\ user[u] # NULL =>
             FitsIn(user[u], Base(dump.carried[u], dump.peers[u]), Ctr(dump.peers[u]))

AccountInv == \A u \in Users : Accounted(u)

\* The last check is no earlier than the last hour charged.
DaysInv ==
    \A u \in Users :
        /\ charged[u] <= now
        /\ user[u] # NULL /\ user[u].lastCheck # NULL =>
             charged[u] <= user[u].lastCheck /\ user[u].lastCheck <= now

-----------------------------------------------------------------------------
(* Properties of the switch. *)

\* u is disabled, and neither the files, the interface nor a dump in the
\* syncer's hands has a peer of u any more.
Settled(u) ==
    /\ user[u] # NULL /\ ~user[u].enabled
    /\ conf[u] = NULL /\ wg[u] = NULL
    /\ dump # NULL => dump.peers[u] = NULL

\* Once a disabled account has settled, nothing but a request of the administrator
\* for that account brings it back (handlers.go:1258-1607).  A restore, which this
\* module leaves out, is such a request for the accounts that its file names.
SettledHolds ==
    [][\A u \in Users : Settled(u) /\ ~Settled(u)' =>
          UserUpdate(u) \/ UserToggle(u) \/ UserDelete(u)]_vars

\* u's peer is on the interface, for an enabled row that has no days left or
\* whose quota the peer's counters have used up.
Exhausted(u) ==
    /\ user[u] # NULL /\ user[u].enabled
    /\ wg[u] # NULL /\ wg[u].key = user[u].key
    /\ Spent(NewQuota(user[u], wg[u]), NewDays(user[u]))

\* The syncer notices: no account stays enabled on the interface for ever
\* after its quota or its days are used up (syncer.go:238-274).
ExhaustedIsDisabled == \A u \in Users : Exhausted(u) ~> ~Exhausted(u)

\* u is disabled in the database and its peer still runs.
RunsDisabled(u) == user[u] # NULL /\ ~user[u].enabled /\ wg[u] # NULL

\* What an administrator who sets a "Maximum data transfer limit" is told: a
\* disabled account stops being served.  The syncer never pushes, so it is not.
DisabledIsCut == \A u \in Users : RunsDisabled(u) ~> ~RunsDisabled(u)

\* What the "Enable or disable this user" switch says: an account that was
\* disabled and pushed stays disabled until somebody enables it.  A dump taken
\* before the push undoes it (syncer.go:97, 260-266).
DisableSticks ==
    [][SyncCommit => \A u \in Users :
          user[u] # NULL /\ ~user[u].enabled /\ conf[u] = NULL /\ wg[u] = NULL
             => ~user'[u].enabled]_vars
=============================================================================
