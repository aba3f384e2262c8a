----------------------------- MODULE DnsManager -----------------------------
(***************************************************************************)
(* The CoreDNS child and the manager that starts and stops it.  A request  *)
(* writes dns_settings or the tables of rewrites and rules, or pushes      *)
(* WireGuard, and then calls ApplyFromDB: it reads the settings and the    *)
(* tables, and only then takes the manager's lock to stop the child and to *)
(* start another.  Each child has a watcher, a goroutine that waits for    *)
(* its end beside the one that stopLocked starts.                          *)
(***************************************************************************)

CONSTANTS
    Own,        \* resolver addresses an administrator may type
    Server,     \* the address of the WireGuard server
    LinkLocal,  \* DefaultAutoDNSHost
    Records,    \* rewrites and domain rules that may be there
    Kids,       \* processes: the model has no more of them at a time
    Requests,   \* HTTP requests served at the same time
    Main,       \* the start of the daemon
    NULL        \* blank; nobody; no process

Hosts == Own \union {Server, LinkLocal}
Procs == Requests \union {Main}

ASSUME AddressAssumption ==
    NULL \notin Hosts /\ {Server, LinkLocal} \intersect Own = {} /\ Server # LinkLocal
ASSUME ProcessAssumption == Main \notin Requests /\ NULL \notin Procs \union Kids

VARIABLES
    row,         \* dns_settings
    records,     \* dns_records and dns_domain_rules
    configured,  \* the WireGuard server has an address
    up,          \* its interface exists
    alias,       \* resolver addresses on it besides the server's
    mu,          \* who holds the manager's lock, or NULL
    cmd,         \* m.cmd: a child or NULL; m.running says no more
    serves,      \* serves[k]: what a living child answers from, or NULL
    pipe,        \* pipe[k]: the end of the copying of k's output is still unread
    watcher,     \* watcher[k]: where the watcher of k is
    pc,          \* where each request is
    want,        \* want[p]: what p's ApplyFromDB has read
    ahead,       \* history: ahead[p] had read before p, and wait for the lock too
    late,        \* history: requests that newer ones have overtaken to the lock
    missed       \* history: why the child may differ from the database

db == <<row, records, configured>>
net == <<up, alias>>
child == <<cmd, serves, pipe, watcher>>
history == <<ahead, late, missed>>
vars == <<row, records, configured, up, alias, mu, cmd, serves, pipe, watcher,
          pc, want, ahead, late, missed>>

-----------------------------------------------------------------------------
(* What of a row counts is the switch and the address; whether the client's  *)
(* or the listening one is given is left out.                                *)

Row == [on : BOOLEAN, host : Hosts \union {NULL}]
Snapshot == [host : Hosts, recs : SUBSET Records]
Plan == [row : Row, recs : SUBSET Records]

Off == [on |-> FALSE, host |-> NULL]
NoPlan == [row |-> Off, recs |-> {}]

HasRead == {"ensure", "list", "lock"}
Holding == {"stop", "wait", "recv", "unalias", "alias", "exec"}
PcStates == {"idle", "cut", "push", "read"} \union HasRead \union Holding

Reasons == {"failure", "crash", "stale", "overwrite"}

TypeOK ==
    /\ row \in Row /\ records \subseteq Records /\ configured \in BOOLEAN
    /\ up \in BOOLEAN /\ alias \subseteq Own \union {LinkLocal}
    /\ mu \in Procs \union {NULL}
    /\ cmd \in Kids \union {NULL}
    /\ serves \in [Kids -> Snapshot \union {NULL}]
    /\ pipe \in [Kids -> BOOLEAN]
    /\ watcher \in [Kids -> {"none", "wait", "recv", "done"}]
    /\ pc \in [Procs -> PcStates]
    /\ want \in [Procs -> Plan]
    /\ ahead \in [Procs -> SUBSET Procs] /\ late \subseteq Procs
    /\ missed \subseteq Reasons

ASSUME NoSnapshotAssumption == NULL \notin Snapshot

-----------------------------------------------------------------------------
(* Addresses.  As elsewhere, a definition named Mutant... is a plausible      *)
(* mistake in the one that follows it.                                        *)

\* allocateAutoDNSHost: the server's own address, when there is one.
AutoHost == IF configured THEN Server ELSE LinkLocal

MutantEnsureHost(r) == IF r.host = LinkLocal THEN [r EXCEPT !.host = AutoHost] ELSE r

\* EnsureAutoDNSHost: a blank address, or the fallback, gives way.
EnsureHost(r) == IF r.host \in {NULL, LinkLocal} THEN [r EXCEPT !.host = AutoHost] ELSE r

\* dnsAliasHost: an address that is not the server's must be put on the interface.
AliasOf(host) == {host} \ {NULL, Server}

-----------------------------------------------------------------------------
(* The requests.  The server accepts them once main has started up. *)

Begin(p, next) ==
    /\ p \in Requests /\ pc[p] = "idle" /\ pc[Main] = "idle"
    /\ pc' = [pc EXCEPT ![p] = next]
    /\ UNCHANGED <<net, mu, child, want, ahead, late, missed>>

DNSSavePost(p, on, host) ==
    /\ LET cfg == [on |-> on, host |-> host]
       IN  row' = IF on THEN EnsureHost(cfg) ELSE cfg
    /\ Begin(p, "read")
    /\ UNCHANGED <<records, configured>>

DNSRecordPost(p, r) ==
    /\ records' = IF r \in records THEN records \ {r} ELSE records \union {r}
    /\ Begin(p, "read")
    /\ UNCHANGED <<row, configured>>

DNSReloadPost(p) == Begin(p, "read") /\ UNCHANGED db

\* Save, Reload, Restart of WireGuard; saving can give the server its address.
WireGuardPost(p) ==
    /\ \E next \in {"push", "cut"} : Begin(p, next)
    /\ configured' \in {configured, TRUE}
    /\ UNCHANGED <<row, records>>

\* The set-up of WireGuard and the pushes of accounts start no DNS.
OtherPush ==
    /\ pc[Main] = "idle"
    /\ configured' = TRUE /\ up' \in {up, TRUE}
    /\ UNCHANGED <<row, records, alias, mu, child, pc, want, history>>

\* A restore takes the interface down, its other addresses with it, and up again,
\* and starts no DNS either: that counts as a failure.
RestorePost ==
    /\ pc[Main] = "idle"
    /\ configured' \in {configured, TRUE} /\ up' \in {FALSE, configured'}
    /\ alias' = {}
    /\ missed' = missed \union {"failure"}
    /\ UNCHANGED <<row, records, mu, child, pc, want, ahead, late>>

\* Addresses of the interface go with it.
TakeDown(p) ==
    /\ pc[p] = "cut"
    /\ up' = FALSE /\ alias' = {}
    /\ pc' = [pc EXCEPT ![p] = "push"]
    /\ UNCHANGED <<db, mu, child, want, history>>

Push(p) ==
    /\ pc[p] = "push" /\ configured
    /\ up' = TRUE
    /\ pc' = [pc EXCEPT ![p] = "read"]
    /\ UNCHANGED <<db, alias, mu, child, want, history>>

PushFails(p) ==
    /\ pc[p] \in {"cut", "push"}
    /\ pc' = [pc EXCEPT ![p] = "idle"]
    /\ missed' = missed \union {"failure"}
    /\ UNCHANGED <<db, net, mu, child, want, ahead, late>>

-----------------------------------------------------------------------------
(* ApplyFromDB, before the lock. *)

\* What p knows of the settings is newer than what the others do.
Follow(p) ==
    ahead' = [q \in Procs |-> IF q = p THEN {r \in Procs \ {p} : pc[r] \in HasRead}
                                       ELSE ahead[q] \ {p}]

\* The settings.  To switch DNS off nothing more is read.
Read(p) ==
    /\ pc[p] = "read"
    /\ want' = [want EXCEPT ![p].row = row]
    /\ pc' = [pc EXCEPT ![p] = IF row.on THEN "ensure" ELSE "lock"]
    /\ Follow(p)
    /\ missed' = {}
    /\ UNCHANGED <<db, net, mu, child, late>>

MutantEnsure(p) ==
    /\ pc[p] = "ensure" /\ up
    /\ want' = [want EXCEPT ![p].row = EnsureHost(@)]
    /\ pc' = [pc EXCEPT ![p] = "list"]
    /\ UNCHANGED <<db, net, mu, child, history>>

\* A generated address is stored with all the settings that were read.
Ensure(p) ==
    /\ pc[p] = "ensure" /\ up
    /\ LET cfg == EnsureHost(want[p].row)
       IN  \/ cfg = want[p].row /\ UNCHANGED <<row, want, ahead, missed>>
          \/ /\ cfg # want[p].row
             /\ want' = [want EXCEPT ![p].row = cfg]
             /\ row' = cfg
             /\ Follow(p)
             /\ missed' = IF row = want[p].row THEN missed ELSE missed \union {"overwrite"}
    /\ pc' = [pc EXCEPT ![p] = "list"]
    /\ UNCHANGED <<records, configured, net, mu, child, late>>

List(p) ==
    /\ pc[p] = "list"
    /\ want' = [want EXCEPT ![p].recs = records]
    /\ pc' = [pc EXCEPT ![p] = "lock"]
    /\ UNCHANGED <<db, net, mu, child, history>>

-----------------------------------------------------------------------------
(* Start and Stop, under the lock. *)

\* A process that is gone, and has no watcher that could still do anything.
Free(k) ==
    /\ k # cmd /\ serves[k] = NULL
    /\ watcher[k] = "none" \/ (watcher[k] = "recv" /\ ~pipe[k])

\* A bound of the model: a request may only enter when there is a process left.
Room == \E k \in Kids : Free(k)

\* Those who read before p and come later are late from now on.
Forget(p) == ahead' = [q \in Procs |-> IF q = p THEN {} ELSE ahead[q] \ {p}]

Lock(p) ==
    /\ pc[p] = "lock" /\ mu = NULL
    /\ Room
    /\ mu' = p
    /\ pc' = [pc EXCEPT ![p] = "stop"]
    /\ Forget(p)
    /\ late' = (late \union ahead[p]) \ {p}
    /\ missed' = IF p \in late THEN missed \union {"stale"} ELSE missed
    /\ UNCHANGED <<db, net, child, want>>

MutantStopped(p) ==
    /\ cmd' = cmd
    /\ pc' = [pc EXCEPT ![p] = IF want[p].row.on THEN "alias" ELSE "unalias"]
    /\ UNCHANGED <<db, net, mu, serves, watcher, want, history>>

Stopped(p) ==
    /\ cmd' = NULL
    /\ pc' = [pc EXCEPT ![p] = IF want[p].row.on THEN "alias" ELSE "unalias"]
    /\ UNCHANGED <<db, net, mu, serves, watcher, want, history>>

NoChild(p) == pc[p] = "stop" /\ cmd = NULL /\ Stopped(p) /\ UNCHANGED pipe

\* SIGTERM, later SIGKILL.  Waiting for a child whose watcher has collected it
\* already returns at once.
Signal(p) ==
    /\ pc[p] = "stop" /\ cmd # NULL
    /\ \/ /\ watcher[cmd] # "wait"
          /\ Stopped(p) /\ UNCHANGED pipe
       \/ /\ watcher[cmd] = "wait"
          /\ pc' = [pc EXCEPT ![p] = "wait"]
          /\ UNCHANGED <<db, net, mu, child, want, history>>

MutantStopWaits(p) ==
    /\ pc[p] = "wait"
    /\ \/ /\ pipe[cmd]
          /\ pc' = [pc EXCEPT ![p] = "recv"]
          /\ UNCHANGED <<db, net, mu, child, want, history>>
       \/ ~pipe[cmd] /\ Stopped(p) /\ UNCHANGED pipe

\* exec.Cmd.Wait of two goroutines: both learn that the process ended, both look
\* whether the copying of the output is still to be waited for, and the one
\* message about its end goes to one of them.
StopWaits(p) ==
    /\ pc[p] = "wait" /\ serves[cmd] = NULL
    /\ \/ /\ pipe[cmd]
          /\ pc' = [pc EXCEPT ![p] = "recv"]
          /\ UNCHANGED <<db, net, mu, child, want, history>>
       \/ ~pipe[cmd] /\ Stopped(p) /\ UNCHANGED pipe

StopReceives(p) ==
    /\ pc[p] = "recv" /\ pipe[cmd]
    /\ pipe' = [pipe EXCEPT ![cmd] = FALSE]
    /\ Stopped(p)

\* The end of an Apply.
Leave(p) ==
    /\ pc' = [pc EXCEPT ![p] = "idle"]
    /\ mu' = IF mu = p THEN NULL ELSE mu
    /\ want' = [want EXCEPT ![p] = NoPlan]
    /\ late' = late \ {p}

\* Stop takes the address away that the settings name now.
Unalias(p) ==
    /\ pc[p] = "unalias"
    /\ alias' \in {alias, alias \ AliasOf(row.host)}
    /\ Leave(p)
    /\ UNCHANGED <<db, up, child, ahead, missed>>

\* Start adds its own; there must be an interface for it.
AddAlias(p) ==
    /\ pc[p] = "alias"
    /\ AliasOf(want[p].row.host) # {} => up
    /\ alias' = alias \union AliasOf(want[p].row.host)
    /\ pc' = [pc EXCEPT ![p] = "exec"]
    /\ UNCHANGED <<db, up, mu, child, want, history>>

\* Zone files, Corefile, the process, its watcher.
Exec(p) ==
    /\ pc[p] = "exec"
    /\ \E k \in Kids :
          /\ Free(k)
          /\ cmd' = k
          /\ serves' = [serves EXCEPT ![k] = [host |-> want[p].row.host, recs |-> want[p].recs]]
          /\ pipe' = [pipe EXCEPT ![k] = TRUE]
          /\ watcher' = [watcher EXCEPT ![k] = "wait"]
    /\ Leave(p)
    /\ UNCHANGED <<db, net, ahead, missed>>

\* A statement, a command or a file fails, or there is no interface.  When the
\* route to an address cannot be set, the address is taken away again.
ApplyFails(p) ==
    /\ pc[p] \in {"read", "ensure", "list", "alias", "exec"}
    /\ Leave(p) /\ Forget(p)
    /\ \/ alias' = alias
       \/ pc[p] = "alias" /\ alias' = alias \ AliasOf(want[p].row.host)
    /\ missed' = missed \union {"failure"}
    /\ UNCHANGED <<db, up, child>>

-----------------------------------------------------------------------------
(* The child and its watcher. *)

Signalled(k) == cmd = k /\ \E p \in Procs : pc[p] = "wait"

\* A child ends when it is told to, or crashes.
Exit(k) ==
    /\ serves[k] # NULL
    /\ serves' = [serves EXCEPT ![k] = NULL]
    /\ missed' = IF Signalled(k) THEN missed ELSE missed \union {"crash"}
    /\ UNCHANGED <<db, net, mu, cmd, pipe, watcher, pc, want, ahead, late>>

WatchWaits(k) ==
    /\ watcher[k] = "wait" /\ serves[k] = NULL
    /\ watcher' = [watcher EXCEPT ![k] = IF pipe[k] THEN "recv" ELSE "done"]
    /\ UNCHANGED <<db, net, mu, cmd, serves, pipe, pc, want, history>>

WatchReceives(k) ==
    /\ watcher[k] = "recv" /\ pipe[k]
    /\ pipe' = [pipe EXCEPT ![k] = FALSE]
    /\ watcher' = [watcher EXCEPT ![k] = "done"]
    /\ UNCHANGED <<db, net, mu, cmd, serves, pc, want, history>>

MutantWatchClears(k) ==
    /\ watcher[k] = "done" /\ mu = NULL
    /\ cmd' = NULL
    /\ watcher' = [watcher EXCEPT ![k] = "none"]
    /\ UNCHANGED <<db, net, mu, serves, pipe, pc, want, history>>

MutantWatchRushes(k) ==
    /\ watcher[k] = "done"
    /\ cmd' = IF cmd = k THEN NULL ELSE cmd
    /\ watcher' = [watcher EXCEPT ![k] = "none"]
    /\ UNCHANGED <<db, net, mu, serves, pipe, pc, want, history>>

\* Under the lock, and only if the manager still has this child.
WatchClears(k) ==
    /\ watcher[k] = "done" /\ mu = NULL
    /\ cmd' = IF cmd = k THEN NULL ELSE cmd
    /\ watcher' = [watcher EXCEPT ![k] = "none"]
    /\ UNCHANGED <<db, net, mu, serves, pipe, pc, want, history>>

-----------------------------------------------------------------------------
(* The rest of the world. *)

InterfaceLost ==
    /\ up
    /\ up' = FALSE /\ alias' = {}
    /\ missed' = missed \union {"failure"}
    /\ UNCHANGED <<db, mu, child, pc, want, ahead, late>>

\* The daemon ends anywhere, in its container the child with it; its start, if
\* there is a server, pushes WireGuard and applies DNS.
Restart ==
    /\ mu' = NULL /\ cmd' = NULL
    /\ serves' = [k \in Kids |-> NULL]
    /\ pipe' = [k \in Kids |-> FALSE]
    /\ watcher' = [k \in Kids |-> "none"]
    /\ pc' = [p \in Procs |-> IF p = Main THEN "push" ELSE "idle"]
    /\ want' = [p \in Procs |-> NoPlan]
    /\ ahead' = [p \in Procs |-> {}] /\ late' = {}
    /\ UNCHANGED <<db, net, missed>>

Init ==
    /\ row = Off /\ records = {} /\ configured = FALSE
    /\ up = FALSE /\ alias = {}
    /\ mu = NULL /\ cmd = NULL
    /\ serves = [k \in Kids |-> NULL]
    /\ pipe = [k \in Kids |-> FALSE]
    /\ watcher = [k \in Kids |-> "none"]
    /\ pc = [p \in Procs |-> "idle"]
    /\ want = [p \in Procs |-> NoPlan]
    /\ ahead = [p \in Procs |-> {}] /\ late = {}
    /\ missed = {}

Post(p) ==
    \/ \E on \in BOOLEAN, host \in Own \union {NULL} : DNSSavePost(p, on, host)
    \/ \E r \in Records : DNSRecordPost(p, r)
    \/ DNSReloadPost(p) \/ WireGuardPost(p)

ApplyStep(p) ==
    \/ TakeDown(p) \/ Push(p) \/ PushFails(p)
    \/ Read(p) \/ Ensure(p) \/ List(p)
    \/ NoChild(p) \/ Signal(p) \/ StopWaits(p) \/ StopReceives(p)
    \/ Unalias(p) \/ AddAlias(p) \/ Exec(p) \/ ApplyFails(p)

WatchStep(k) == WatchWaits(k) \/ WatchReceives(k)

Next ==
    \/ \E p \in Procs : Post(p) \/ ApplyStep(p) \/ Lock(p)
    \/ \E k \in Kids : Exit(k) \/ WatchStep(k) \/ WatchClears(k)
    \/ OtherPush \/ RestorePost \/ InterfaceLost \/ Restart

Spec == Init /\ [][Next]_vars

\* Statements and commands return, a child that is killed ends, goroutines run,
\* and a Go mutex is handed to one who waits long enough.
Fairness ==
    /\ \A p \in Procs : WF_vars(ApplyStep(p)) /\ SF_vars(Lock(p))
    /\ \A k \in Kids : /\ WF_vars(Signalled(k) /\ Exit(k)) /\ WF_vars(WatchStep(k))
                       /\ SF_vars(WatchClears(k))

FairSpec == Spec /\ Fairness

-----------------------------------------------------------------------------
(* Properties. *)

\* There is never a CoreDNS that the manager does not know of: what it forgets
\* has ended, so that the next one finds its address free, and no watcher of an
\* old child takes the new one from it (manager.go:185-223).
OneChild == \A k \in Kids : serves[k] # NULL => k = cmd

Quiet == \A p \in Procs : pc[p] = "idle"

\* The child runs as the database says, on an address that the interface has.
Matches ==
    IF row.on THEN /\ cmd # NULL
                   /\ serves[cmd] = [host |-> row.host, recs |-> records]
                   /\ AliasOf(row.host) \subseteq alias
              ELSE cmd = NULL

\* When every request has ended, the child is what the database says, unless one
\* of the known gaps has opened since the settings were last read: a failure, a
\* crash, a restore of a backup, a newer request that overtook an older one on the
\* way to the lock, or a write of settings that were old (apply.go:21-63).
InSync == Quiet /\ missed = {} => Matches

\* The end of a child reaches the manager: while it still has a child whose end
\* was reported, the watcher has that report and is about to clear the child.  So
\* when a stop waits for a report that is gone, it is the watcher who took it
\* (manager.go:185-223).
EndReachesManager == cmd # NULL /\ ~pipe[cmd] => watcher[cmd] = "done"

\* p waits for the report that the watcher has, and the watcher for p's lock.
Embrace(p) == pc[p] = "recv" /\ mu = p /\ cmd # NULL /\ ~pipe[cmd] /\ watcher[cmd] = "done"

\* There is no way out of that but a new start of the daemon.
EmbraceLasts == [][\A p \in Procs : Embrace(p) /\ ~Restart => Embrace(p)']_vars

\* What DnsManager is of a Supervisor: who is carrying out what, and which process
\* does it, is left out.
Drafting(p) == pc[p] \in {"ensure", "list"}
Planning(p) == pc[p] \in {"lock"} \union Holding

Aim(p) == IF want[p].row.on THEN [host |-> want[p].row.host, recs |-> want[p].recs] ELSE NULL

Drafts == {want[p].row : p \in {q \in Procs : Drafting(q)}}
Plans == {Aim(p) : p \in {q \in Procs : Planning(q)}}
Answers == {serves[k] : k \in Kids} \ {NULL}

Sup == INSTANCE Supervisor
       WITH drafts <- Drafts, plans <- Plans, answers <- Answers,
            busy <- ~Quiet, calm <- missed = {}

\* The requests together are one supervisor: a living CoreDNS answers from rows that a
\* request has read and that no other has carried out, has ended before the next one
\* is started, whatever its watcher does, and is touched only while somebody is busy;
\* the last to leave leaves the right one (apply.go:13-64, manager.go:83-223).
SupervisorSpec == Sup!Spec

\* Every request is answered: stopLocked gives the child five seconds, kills it,
\* and then waits for an end that is certain (manager.go:199-204).
EveryRequestEnds == \A p \in Requests : pc[p] # "idle" ~> pc[p] = "idle"
=============================================================================
