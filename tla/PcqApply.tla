------------------------------ MODULE PcqApply ------------------------------
(***************************************************************************)
(* The queue presets of the groups and the tc state of the WireGuard       *)
(* interface.  A request writes the database statement by statement, most  *)
(* requests then push WireGuard, and most end in reconcilePCQ, which calls *)
(* pcq.Apply: under applyMu it loads all limits, removes both qdiscs and   *)
(* builds them again command by command.  Requests run concurrently; the   *)
(* syncer switches accounts on and off beside them.                        *)
(***************************************************************************)
EXTENDS Integers

CONSTANTS
    Users,      \* ids of vpn_users rows, each with one tunnel address
    Groups,     \* ids of vpn_groups rows
    Rates,      \* limits in kb/s
    Requests,   \* HTTP requests served at the same time
    Main,       \* the start of the daemon, which reconciles like a request
    NULL        \* SQL NULL; no row; no qdisc; no limit

ASSUME RatesAssumption == Rates \subseteq Nat /\ NULL \notin Nat

Dir == {"down", "up"}
Procs == Requests \union {Main}

ASSUME MainAssumption == Main \notin Requests /\ NULL \notin Procs

VARIABLES
    account,   \* account[u]: "enabled", "disabled" or NULL
    groups,    \* the rows of vpn_groups
    member,    \* vpn_group_members: member[g] is a set of users
    preset,    \* vpn_group_pcq: preset[g] is a row or NULL
    up,        \* the WireGuard interface exists
    tc,        \* its qdiscs: tc["down"] is the root, tc["up"] the ingress one
    applyMu,   \* the request that holds the lock of Apply, or NULL
    pc,        \* where each request is
    form,      \* form[p]: the group a toggle or a bulk add of p is about
    seenOff,   \* seenOff[p]: the is_disabled that p's toggle has read
    want,      \* want[p]: the limits p's Apply has loaded
    left,      \* left[p]: users whose limit p's Apply has yet to add
    missed     \* history: why the interface may differ from the presets

db == <<account, groups, member, preset>>
local == <<form, seenOff, want, left>>
vars == <<account, groups, member, preset, up, tc, applyMu, pc, form, seenOff, want, left, missed>>

-----------------------------------------------------------------------------
(* rate[d] is the limit that is left of a row when its classifier has been   *)
(* applied (classifyRow).  A qdisc is the function of the limits below it;   *)
(* a class and its filter count as one, for neither limits alone.            *)

Limits == [Users -> Rates \union {NULL}]
Preset == [rate : [Dir -> Rates \union {NULL}], off : BOOLEAN]
Shape == [Dir -> Limits \union {NULL}]

NoLimits == [u \in Users |-> NULL]
NoShape == [d \in Dir |-> NULL]

ASSUME NoRowAssumption == NULL \notin Preset /\ NULL \notin Limits

QdiscState == [down |-> "root", up |-> "ingress"]
PeersState == [down |-> "classes", up |-> "police"]

Building == {"delIngress", "delRoot", "root", "classes", "ingress", "police"}
Applying == {"load"} \union Building
PcStates == {"idle", "toggle", "bulk", "cut", "push", "save", "wait"} \union Applying

Reasons == {"delete", "syncer", "failure"}

TypeOK ==
    /\ account \in [Users -> {"enabled", "disabled", NULL}]
    /\ groups \subseteq Groups
    /\ member \in [Groups -> SUBSET Users]
    /\ preset \in [Groups -> Preset \union {NULL}]
    /\ up \in BOOLEAN
    /\ tc \in Shape
    /\ applyMu \in Procs \union {NULL}
    /\ pc \in [Procs -> PcStates]
    /\ form \in [Procs -> Groups \union {NULL}]
    /\ seenOff \in [Procs -> BOOLEAN]
    /\ want \in [Procs -> Shape]
    /\ left \in [Procs -> SUBSET Users]
    /\ missed \subseteq Reasons

-----------------------------------------------------------------------------
(* What LoadPeerLimits answers (PcqLimits is about how).  As elsewhere, a     *)
(* definition named Mutant... is a plausible mistake in the one after it.     *)

MutantLeastOrZero(S) == IF S = {} THEN 0 ELSE CHOOSE n \in S : \A m \in S : n <= m

Least(S) == IF S = {} THEN NULL ELSE CHOOSE n \in S : \A m \in S : n <= m

\* Takes the presets that are switched off as well.
MutantLimit(u, d) ==
    LET mine == {g \in Groups : /\ account[u] = "enabled" /\ u \in member[g]
                                /\ preset[g] # NULL}
    IN  Least({preset[g].rate[d] : g \in mine} \ {NULL})

\* The lowest limit of u's presets in one direction, NULL if there is none.
Limit(u, d) ==
    LET mine == {g \in Groups : /\ account[u] = "enabled" /\ u \in member[g]
                                /\ preset[g] # NULL /\ ~preset[g].off}
    IN  Least({preset[g].rate[d] : g \in mine} \ {NULL})

\* A direction gets a qdisc when some peer is limited in it.
Wanted == [d \in Dir |-> LET l == [u \in Users |-> Limit(u, d)]
                         IN  IF l = NoLimits THEN NULL ELSE l]

-----------------------------------------------------------------------------
(* The requests.  The server accepts them once main has started up. *)

Begin(p, next) ==
    /\ p \in Requests /\ pc[p] = "idle" /\ pc[Main] = "idle"
    /\ pc' = [pc EXCEPT ![p] = next]
    /\ UNCHANGED <<up, tc, applyMu, want, left, missed>>

PresetSave(p, g) ==
    /\ g \in groups
    /\ \E r \in [Dir -> Rates \union {NULL}] :
          preset' = [preset EXCEPT ![g] =
                        [rate |-> r, off |-> IF @ = NULL THEN FALSE ELSE @.off]]
    /\ Begin(p, "wait")
    /\ UNCHANGED <<account, groups, member, form, seenOff>>

PresetClear(p, g) ==
    /\ g \in groups
    /\ preset' = [preset EXCEPT ![g] = NULL]
    /\ Begin(p, "wait")
    /\ UNCHANGED <<account, groups, member, form, seenOff>>

ToggleRead(p, g) ==
    /\ preset[g] # NULL
    /\ form' = [form EXCEPT ![p] = g]
    /\ seenOff' = [seenOff EXCEPT ![p] = preset[g].off]
    /\ Begin(p, "toggle")
    /\ UNCHANGED db

\* The row may have changed or gone since it was read.
ToggleWrite(p) ==
    /\ pc[p] = "toggle"
    /\ preset' = [g \in Groups |->
                     IF g = form[p] /\ preset[g] # NULL
                     THEN [preset[g] EXCEPT !.off = ~seenOff[p]] ELSE preset[g]]
    /\ pc' = [pc EXCEPT ![p] = "wait"]
    /\ form' = [form EXCEPT ![p] = NULL]
    /\ seenOff' = [seenOff EXCEPT ![p] = FALSE]
    /\ UNCHANGED <<account, groups, member, up, tc, applyMu, want, left, missed>>

MemberAdd(p, g, u) ==
    /\ g \in groups /\ account[u] # NULL
    /\ member' = [member EXCEPT ![g] = @ \union {u}]
    /\ Begin(p, "wait")
    /\ UNCHANGED <<account, groups, preset, form, seenOff>>

MutantSilentRemove(p, g, u) ==
    /\ member' = [member EXCEPT ![g] = @ \ {u}]
    /\ Begin(p, "idle")
    /\ UNCHANGED <<account, groups, preset, form, seenOff>>

MemberRemove(p, g, u) ==
    /\ member' = [member EXCEPT ![g] = @ \ {u}]
    /\ Begin(p, "wait")
    /\ UNCHANGED <<account, groups, preset, form, seenOff>>

\* Many users at once, one statement for each.
BulkAdd(p, g) ==
    /\ g \in groups
    /\ form' = [form EXCEPT ![p] = g]
    /\ Begin(p, "bulk")
    /\ UNCHANGED <<db, seenOff>>

BulkInsert(p, u) ==
    /\ pc[p] = "bulk"
    /\ form[p] \in groups /\ account[u] # NULL
    /\ member' = [member EXCEPT ![form[p]] = @ \union {u}]
    /\ UNCHANGED <<account, groups, preset, up, tc, applyMu, pc, local, missed>>

BulkDone(p) ==
    /\ pc[p] = "bulk"
    /\ pc' = [pc EXCEPT ![p] = "wait"]
    /\ form' = [form EXCEPT ![p] = NULL]
    /\ UNCHANGED <<db, up, tc, applyMu, seenOff, want, left, missed>>

\* A user or the group is gone: the handler returns and does not reconcile
\* what it has inserted.
BulkFails(p) ==
    /\ pc[p] = "bulk"
    /\ pc' = [pc EXCEPT ![p] = "idle"]
    /\ form' = [form EXCEPT ![p] = NULL]
    /\ missed' = missed \union {"failure"}
    /\ UNCHANGED <<db, up, tc, applyMu, seenOff, want, left>>

GroupCreate(g) ==
    /\ pc[Main] = "idle"
    /\ groups' = groups \union {g}
    /\ UNCHANGED <<account, member, preset, up, tc, applyMu, pc, local, missed>>

\* Members and preset go with the group (ON DELETE CASCADE); no reconcile.
GroupDelete(g) ==
    /\ pc[Main] = "idle"
    /\ g \in groups
    /\ groups' = groups \ {g}
    /\ member' = [member EXCEPT ![g] = {}]
    /\ preset' = [preset EXCEPT ![g] = NULL]
    /\ missed' = missed \union {"delete"}
    /\ UNCHANGED <<account, up, tc, applyMu, pc, local>>

UserCreate(p, u) ==
    /\ account[u] = NULL
    /\ \E s \in {"enabled", "disabled"} : account' = [account EXCEPT ![u] = s]
    /\ Begin(p, "push")
    /\ UNCHANGED <<groups, member, preset, form, seenOff>>

\* The edit form and the switch.
UserUpdate(p, u) ==
    /\ account[u] # NULL
    /\ \E s \in {"enabled", "disabled"} : account' = [account EXCEPT ![u] = s]
    /\ Begin(p, "push")
    /\ UNCHANGED <<groups, member, preset, form, seenOff>>

UserDelete(p, u) ==
    /\ account[u] # NULL
    /\ account' = [account EXCEPT ![u] = NULL]
    /\ member' = [g \in Groups |-> member[g] \ {u}]
    /\ Begin(p, "push")
    /\ UNCHANGED <<groups, preset, form, seenOff>>

\* Save, Reload, Restart of WireGuard.
WireGuardPost(p) ==
    /\ \E next \in {"save", "push", "cut"} : Begin(p, next)
    /\ UNCHANGED <<db, form, seenOff>>

-----------------------------------------------------------------------------
(* The push of WireGuard, as far as the interface's tc state is concerned. *)

\* RestartConfig takes the interface down first, and the qdiscs with it.
TakeDown(p) ==
    /\ pc[p] = "cut"
    /\ up' = FALSE
    /\ tc' = NoShape
    /\ pc' = [pc EXCEPT ![p] = "push"]
    /\ UNCHANGED <<db, applyMu, local, missed>>

Push(p) ==
    /\ pc[p] \in {"push", "save"}
    /\ up' = TRUE
    /\ pc' = [pc EXCEPT ![p] = "wait"]
    /\ UNCHANGED <<db, tc, applyMu, local, missed>>

\* Saving reports the failure in its message and reconciles all the same.
PushFails(p) ==
    /\ pc[p] \in {"cut", "push", "save"}
    /\ pc' = [pc EXCEPT ![p] = IF pc[p] = "save" THEN "wait" ELSE "idle"]
    /\ missed' = IF pc[p] = "save" THEN missed ELSE missed \union {"failure"}
    /\ UNCHANGED <<db, up, tc, applyMu, local>>

-----------------------------------------------------------------------------
(* pcq.Apply. *)

MutantLock(p) ==
    /\ pc[p] = "wait"
    /\ applyMu' = p
    /\ pc' = [pc EXCEPT ![p] = "load"]
    /\ UNCHANGED <<db, up, tc, local, missed>>

Lock(p) ==
    /\ pc[p] = "wait"
    /\ applyMu = NULL
    /\ applyMu' = p
    /\ pc' = [pc EXCEPT ![p] = "load"]
    /\ UNCHANGED <<db, up, tc, local, missed>>

Load(p) ==
    /\ pc[p] = "load"
    /\ want' = [want EXCEPT ![p] = Wanted]
    /\ pc' = [pc EXCEPT ![p] = "delIngress"]
    /\ missed' = {}
    /\ UNCHANGED <<db, up, tc, applyMu, form, seenOff, left>>

\* Deleting a qdisc never fails: it may be there or not.
DelIngress(p) ==
    /\ pc[p] = "delIngress"
    /\ tc' = [tc EXCEPT !["up"] = NULL]
    /\ pc' = [pc EXCEPT ![p] = "delRoot"]
    /\ UNCHANGED <<db, up, applyMu, local, missed>>

\* The rest of the plan, or its end; the locals of a finished Apply are garbage.
Go(p, next) ==
    /\ pc' = [pc EXCEPT ![p] = next]
    /\ applyMu' = IF next = "idle" THEN NULL ELSE applyMu
    /\ want' = IF next = "idle" THEN [want EXCEPT ![p] = NoShape] ELSE want
    /\ left' = [left EXCEPT ![p] = {}]
    /\ UNCHANGED <<db, up, form, seenOff>>

AfterPeers(w) == [down |-> IF w["up"] = NULL THEN "idle" ELSE "ingress", up |-> "idle"]

AfterDel(w) == IF w["down"] = NULL THEN AfterPeers(w)["down"] ELSE "root"

DelRoot(p) ==
    /\ pc[p] = "delRoot"
    /\ tc' = [tc EXCEPT !["down"] = NULL]
    /\ Go(p, AfterDel(want[p]))
    /\ UNCHANGED missed

\* Adding a qdisc fails when there is one, or no interface.
AddQdisc(p, d) ==
    /\ pc[p] = QdiscState[d]
    /\ up /\ tc[d] = NULL
    /\ tc' = [tc EXCEPT ![d] = NoLimits]
    /\ left' = [left EXCEPT ![p] = {u \in Users : want[p][d][u] # NULL}]
    /\ pc' = [pc EXCEPT ![p] = PeersState[d]]
    /\ UNCHANGED <<db, up, applyMu, form, seenOff, want, missed>>

\* The next address, in any order here.
AddPeer(p, d, u) ==
    /\ pc[p] = PeersState[d]
    /\ tc[d] # NULL
    /\ u \in left[p]
    /\ tc' = [tc EXCEPT ![d][u] = want[p][d][u]]
    /\ left' = [left EXCEPT ![p] = @ \ {u}]
    /\ UNCHANGED <<db, up, applyMu, pc, form, seenOff, want, missed>>

PeersDone(p, d) ==
    /\ pc[p] = PeersState[d]
    /\ left[p] = {}
    /\ Go(p, AfterPeers(want[p])[d])
    /\ UNCHANGED <<tc, missed>>

MutantKeepsLock(p) ==
    /\ pc' = [pc EXCEPT ![p] = "idle"]
    /\ want' = [want EXCEPT ![p] = NoShape]
    /\ left' = [left EXCEPT ![p] = {}]
    /\ UNCHANGED <<db, up, applyMu, form, seenOff>>

\* Apply gives up; its deferred unlock runs.
GiveUp(p) == Go(p, "idle")

\* The load or a command fails: the rest of the plan is not run.
ApplyFails(p) ==
    /\ pc[p] \in Applying
    /\ GiveUp(p)
    /\ missed' = missed \union {"failure"}
    /\ UNCHANGED tc

-----------------------------------------------------------------------------
(* The rest of the world. *)

\* The syncer switches an account (PeerSync) and does not reconcile.
SyncerFlip(u) ==
    /\ account[u] # NULL
    /\ account' = [account EXCEPT ![u] = IF @ = "enabled" THEN "disabled" ELSE "enabled"]
    /\ missed' = missed \union {"syncer"}
    /\ UNCHANGED <<groups, member, preset, up, tc, applyMu, pc, local>>

InterfaceLost ==
    /\ up
    /\ up' = FALSE
    /\ tc' = NoShape
    /\ missed' = missed \union {"failure"}
    /\ UNCHANGED <<db, applyMu, pc, local>>

\* The daemon dies anywhere; its start pushes WireGuard and applies the queues.
Restart ==
    /\ pc' = [p \in Procs |-> IF p = Main THEN "push" ELSE "idle"]
    /\ applyMu' = NULL
    /\ form' = [p \in Procs |-> NULL]
    /\ seenOff' = [p \in Procs |-> FALSE]
    /\ want' = [p \in Procs |-> NoShape]
    /\ left' = [p \in Procs |-> {}]
    /\ UNCHANGED <<db, up, tc, missed>>

Init ==
    /\ account = [u \in Users |-> NULL]
    /\ groups = {}
    /\ member = [g \in Groups |-> {}]
    /\ preset = [g \in Groups |-> NULL]
    /\ up = FALSE
    /\ tc = NoShape
    /\ applyMu = NULL
    /\ pc = [p \in Procs |-> "idle"]
    /\ form = [p \in Procs |-> NULL]
    /\ seenOff = [p \in Procs |-> FALSE]
    /\ want = [p \in Procs |-> NoShape]
    /\ left = [p \in Procs |-> {}]
    /\ missed = {}

GroupStep ==
    \E p \in Procs, g \in Groups :
        \/ PresetSave(p, g) \/ PresetClear(p, g) \/ ToggleRead(p, g) \/ BulkAdd(p, g)
        \/ \E u \in Users : MemberAdd(p, g, u) \/ MemberRemove(p, g, u)

UserStep ==
    \E p \in Procs, u \in Users : UserCreate(p, u) \/ UserUpdate(p, u) \/ UserDelete(p, u)

HandlerStep(p) == ToggleWrite(p) \/ BulkDone(p) \/ BulkFails(p)

PushStep(p) == TakeDown(p) \/ Push(p) \/ PushFails(p)

ApplyStep(p) ==
    \/ Load(p) \/ DelIngress(p) \/ DelRoot(p) \/ ApplyFails(p)
    \/ \E d \in Dir : \/ AddQdisc(p, d) \/ PeersDone(p, d)
                      \/ \E u \in Users : AddPeer(p, d, u)

Next ==
    \/ GroupStep \/ UserStep
    \/ \E g \in Groups : GroupCreate(g) \/ GroupDelete(g)
    \/ \E p \in Procs : \/ WireGuardPost(p) \/ HandlerStep(p) \/ PushStep(p)
                        \/ Lock(p) \/ ApplyStep(p)
                        \/ \E u \in Users : BulkInsert(p, u)
    \/ \E u \in Users : SyncerFlip(u)
    \/ InterfaceLost \/ Restart

Spec == Init /\ [][Next]_vars

\* A request is carried on (a statement, a push, a tc command returns), and a
\* Go mutex is handed to one who waits long enough.
Fairness ==
    \A p \in Procs : /\ WF_vars(HandlerStep(p) \/ PushStep(p) \/ ApplyStep(p))
                     /\ SF_vars(Lock(p))

FairSpec == Spec /\ Fairness

-----------------------------------------------------------------------------
(* Properties. *)

Quiet == \A p \in Procs : pc[p] = "idle"

\* When every request has ended and none of the known gaps has opened since the
\* limits were last loaded, the interface is shaped exactly as the database
\* says: no interleaving of writes, pushes and Apply leaves old or mixed limits
\* behind (apply.go:13-37, handlers.go:1169-1173).
InSync == Quiet /\ missed = {} => tc = Wanted

\* The preset of g limits u in direction d.
Binds(g, u, d) ==
    /\ g \in groups /\ account[u] = "enabled" /\ u \in member[g]
    /\ preset[g] # NULL /\ ~preset[g].off /\ preset[g].rate[d] # NULL

\* Then, too, no peer is faster than any preset of its groups allows, and every
\* limit on the interface is the one of a group that exists, is switched on and
\* has the enabled user as its member: "minimum wins per tunnel peer"
\* (group_pcq.tmpl:74, load.go:46-94, schema_patches.go:11-43).
LimitsBind ==
    Quiet /\ missed = {} =>
        \A u \in Users, d \in Dir :
            LET limited == tc[d] # NULL /\ tc[d][u] # NULL
            IN  /\ \A g \in Groups :
                      Binds(g, u, d) => limited /\ tc[d][u] <= preset[g].rate[d]
                /\ limited => \E g \in Groups :
                                 Binds(g, u, d) /\ tc[d][u] = preset[g].rate[d]

Cleared == {"root", "classes", "ingress", "police"}

\* From the deletions on, what stands on the interface has been loaded by the
\* request that is building it: whatever fails, dies or is written meanwhile, the
\* limits of two loads are never mixed (apply.go:13-14, plan.go:148-149).
Unmixed ==
    \A p \in Procs, d \in Dir :
        pc[p] \in Cleared /\ tc[d] # NULL =>
            /\ want[p][d] # NULL
            /\ \A u \in Users : tc[d][u] \in {NULL, want[p][d][u]}

\* Whatever fails, no request hangs in or before Apply: the lock always comes
\* free (apply.go:14).
EveryRequestEnds == \A p \in Requests : pc[p] # "idle" ~> pc[p] = "idle"
=============================================================================
