------------------------------- MODULE Backup -------------------------------
(***************************************************************************)
(* ExportBackup and RestoreBackup, beside the requests that write what     *)
(* they read and restore.  A backup is read by one statement per table,    *)
(* and by one per group for the presets.  A restore writes the settings,   *)
(* the server and then, in one transaction, the accounts, which takes all  *)
(* groups away if asked to; the groups of the file follow statement by     *)
(* statement.  Database connections are not modelled: there is one, and a  *)
(* transaction has it to itself, so that it is one step.                   *)
(***************************************************************************)

CONSTANTS
    Configs,   \* contents of the WireGuard settings
    Keys,      \* key pairs, of the server and of accounts
    Names,     \* user names, which identify accounts
    Groups,    \* names of groups
    Limits,    \* queue presets
    Requests,  \* requests that save, back up and restore
    NULL       \* no account, preset, key, or file

\* A row of vpn_users: the pair of its public key, with which the other columns
\* are written, and that of its private key, which an imported account has not.
Row == [pub : Keys, priv : Keys \union {NULL}]

ASSUME NullAssumption == NULL \notin Configs \union Keys \union Row \union Groups \union Limits

VARIABLES
    settings,  \* system_config.vpn_configuration
    key,       \* the server's key pair, in vpn_servers
    peer,      \* vpn_users
    groups,    \* vpn_groups
    member,    \* vpn_group_members: pairs of a group and an account
    preset,    \* vpn_group_pcq
    shelf,     \* the backup that was downloaded last
    pc,        \* where each request is
    file,      \* file[p]: the backup that p writes, or restores
    opts,      \* opts[p]: which tables p is to replace
    job,       \* job[p]: groups still to be done; the present one; its members to be done
    alone      \* history: requests beside which no other has written

tables == <<peer, groups, member, preset>>
db == <<settings, key, tables>>
local == <<file, opts, job>>
vars == <<settings, key, peer, groups, member, preset, shelf, pc, file, opts, job, alone>>

-----------------------------------------------------------------------------
Accounts == {u \in Names : peer[u] # NULL}

Files ==
    [settings : Configs \union {NULL}, key : Keys \union {NULL},
     peer : [Names -> Row \union {NULL}], groups : SUBSET Groups,
     member : SUBSET (Groups \X Names), preset : [Groups -> Limits \union {NULL}]]

Jobs == [todo : SUBSET Groups, at : Groups \union {NULL}, links : SUBSET Names]

Blank ==
    [settings |-> NULL, key |-> NULL, peer |-> [u \in Names |-> NULL], groups |-> {},
     member |-> {}, preset |-> [g \in Groups |-> NULL]]
NoJob == [todo |-> {}, at |-> NULL, links |-> {}]

\* The backup that holds what the database does.
Image == [settings |-> settings, key |-> key, peer |-> peer, groups |-> groups,
          member |-> member, preset |-> preset]

PcStates == {"idle", "save", "key", "peers", "groups", "presets",
             "settings", "server", "tables", "regroup", "members"}

\* Rows of memberships and presets go with what they refer to.
TypeOK ==
    /\ settings \in Configs /\ key \in Keys
    /\ peer \in [Names -> Row \union {NULL}]
    /\ groups \subseteq Groups
    /\ member \subseteq groups \X Accounts
    /\ preset \in [Groups -> Limits \union {NULL}]
    /\ \A g \in Groups \ groups : preset[g] = NULL
    /\ shelf \in Files
    /\ pc \in [Requests -> PcStates]
    /\ file \in [Requests -> Files]
    /\ opts \in [Requests -> SUBSET {"peers", "groups"}]
    /\ job \in [Requests -> Jobs]
    /\ alone \subseteq Requests

-----------------------------------------------------------------------------
(* Steps of requests.  As elsewhere, a definition named Mutant... is a        *)
(* plausible mistake in the one that follows it.                              *)

Goto(p, from, to) == pc[p] = from /\ pc' = [pc EXCEPT ![p] = to]

\* Whoever writes is no longer unseen by the others.
Begin(p) == alone' = alone \union {p}
Write(p) == alone' = alone \intersect {p}

Leave(p) ==
    /\ pc' = [pc EXCEPT ![p] = "idle"]
    /\ file' = [file EXCEPT ![p] = Blank] /\ opts' = [opts EXCEPT ![p] = {}]
    /\ job' = [job EXCEPT ![p] = NoJob]

\* SaveWireGuardState: two statements; a blank key keeps the old one.
WireGuardSave(p, c, k) ==
    /\ Goto(p, "idle", "save") /\ Write(p)
    /\ settings' = c
    /\ file' = [file EXCEPT ![p] = [Blank EXCEPT !.key = k]]
    /\ UNCHANGED <<key, tables, shelf, opts, job>>

SaveServer(p) ==
    /\ pc[p] = "save" /\ Leave(p) /\ Write(p)
    /\ key' = IF file[p].key = NULL THEN key ELSE file[p].key
    /\ UNCHANGED <<settings, tables, shelf>>

-----------------------------------------------------------------------------
(* ExportBackup. *)

ExportSettings(p) ==
    /\ Goto(p, "idle", "key") /\ Begin(p)
    /\ file' = [file EXCEPT ![p] = [Blank EXCEPT !.settings = settings]]
    /\ UNCHANGED <<db, shelf, opts, job>>

ExportServer(p) ==
    /\ Goto(p, "key", "peers")
    /\ file' = [file EXCEPT ![p].key = key]
    /\ UNCHANGED <<db, shelf, opts, job, alone>>

ExportPeers(p) ==
    /\ Goto(p, "peers", "groups")
    /\ file' = [file EXCEPT ![p].peer = peer]
    /\ UNCHANGED <<db, shelf, opts, job, alone>>

\* The left join gives a group without members one row with no name, and that
\* cannot be scanned into a string.
Scannable == \A g \in groups : \E u \in Names : <<g, u>> \in member

MutantExportGroups(p) ==
    /\ Goto(p, "groups", "presets")
    /\ LET named == {g \in groups : \E u \in Names : <<g, u>> \in member}
       IN  /\ file' = [file EXCEPT ![p].groups = named, ![p].member = member]
           /\ job' = [job EXCEPT ![p].todo = named]
    /\ UNCHANGED <<db, shelf, opts, alone>>

ExportGroups(p) ==
    /\ Goto(p, "groups", "presets") /\ Scannable
    /\ file' = [file EXCEPT ![p].groups = groups, ![p].member = member]
    /\ job' = [job EXCEPT ![p].todo = groups]
    /\ UNCHANGED <<db, shelf, opts, alone>>

\* loadGroupPCQ, by the name of the group.
ExportPreset(p, g) ==
    /\ pc[p] = "presets" /\ g \in job[p].todo
    /\ file' = [file EXCEPT ![p].preset[g] = preset[g]]
    /\ job' = [job EXCEPT ![p].todo = @ \ {g}]
    /\ UNCHANGED <<db, shelf, pc, opts, alone>>

Download(p) ==
    /\ pc[p] = "presets" /\ job[p].todo = {} /\ Leave(p)
    /\ shelf' = file[p]
    /\ alone' = alone \ {p}
    /\ UNCHANGED db

-----------------------------------------------------------------------------
(* RestoreBackup. *)

RestorePost(p, o) ==
    /\ Goto(p, "idle", "settings") /\ Begin(p)
    /\ shelf.settings # NULL
    /\ file' = [file EXCEPT ![p] = shelf]
    /\ opts' = [opts EXCEPT ![p] = o]
    /\ UNCHANGED <<db, shelf, job>>

RestoreSettings(p) ==
    /\ Goto(p, "settings", "server") /\ Write(p)
    /\ settings' = file[p].settings
    /\ UNCHANGED <<key, tables, shelf, local>>

\* The server's row is there since the set-up, and a backup has its key.
RestoreServer(p) ==
    /\ Goto(p, "server", "tables") /\ Write(p)
    /\ key' = file[p].key
    /\ UNCHANGED <<settings, tables, shelf, local>>

MutantUpsert(old, new) ==
    IF new = NULL THEN old
    ELSE IF old = NULL \/ old.priv = NULL THEN new
    ELSE [new EXCEPT !.priv = old.priv]

\* restorePeer: what an account of the file makes of the row that is kept.
Upsert(old, new) ==
    IF new = NULL THEN old
    ELSE IF old = NULL \/ new.priv # NULL THEN new
    ELSE [new EXCEPT !.priv = old.priv]

MutantRestoreTables(p) ==
    /\ Goto(p, "tables", "regroup") /\ Write(p)
    /\ LET kept == IF "peers" \in opts[p] THEN Blank.peer ELSE peer
       IN  peer' = [u \in Names |-> Upsert(kept[u], file[p].peer[u])]
    /\ groups' = groups
    /\ preset' = IF "groups" \in opts[p] THEN Blank.preset ELSE preset
    /\ member' = IF opts[p] # {} THEN {} ELSE member
    /\ job' = [job EXCEPT ![p] = [todo |-> file[p].groups, at |-> NULL, links |-> {}]]
    /\ UNCHANGED <<settings, key, shelf, file, opts>>

\* The transaction.  Without their accounts memberships go as well.
RestoreTables(p) ==
    /\ Goto(p, "tables", "regroup") /\ Write(p)
    /\ LET kept == IF "peers" \in opts[p] THEN Blank.peer ELSE peer
       IN  peer' = [u \in Names |-> Upsert(kept[u], file[p].peer[u])]
    /\ groups' = IF "groups" \in opts[p] THEN {} ELSE groups
    /\ preset' = IF "groups" \in opts[p] THEN Blank.preset ELSE preset
    /\ member' = IF opts[p] # {} THEN {} ELSE member
    /\ job' = [job EXCEPT ![p] = [todo |-> file[p].groups, at |-> NULL, links |-> {}]]
    /\ UNCHANGED <<settings, key, shelf, file, opts>>

\* restoreGroups: the row of a group, its members one by one, its preset.
RestoreGroup(p, g) ==
    /\ Goto(p, "regroup", "members") /\ Write(p)
    /\ g \in job[p].todo
    /\ groups' = groups \union {g}
    /\ job' = [job EXCEPT ![p] = [todo |-> @.todo \ {g}, at |-> g,
                                  links |-> {u \in Names : <<g, u>> \in file[p].member}]]
    /\ UNCHANGED <<settings, key, peer, member, preset, shelf, file, opts>>

\* A name that is not there is passed over.  The group must still be there.
RestoreMember(p, u) ==
    /\ pc[p] = "members" /\ Write(p)
    /\ u \in job[p].links
    /\ job' = [job EXCEPT ![p].links = @ \ {u}]
    /\ \/ u \notin Accounts /\ member' = member
       \/ /\ u \in Accounts /\ job[p].at \in groups
          /\ member' = member \union {<<job[p].at, u>>}
    /\ UNCHANGED <<settings, key, peer, groups, preset, shelf, pc, file, opts>>

RestorePreset(p) ==
    /\ Goto(p, "members", "regroup") /\ Write(p)
    /\ job[p].links = {}
    /\ LET g == job[p].at
       IN  \/ file[p].preset[g] = NULL /\ preset' = preset
           \/ /\ file[p].preset[g] # NULL /\ g \in groups
              /\ preset' = [preset EXCEPT ![g] = file[p].preset[g]]
    /\ UNCHANGED <<settings, key, peer, groups, member, shelf, local>>

\* wg0.conf is written and the interface restarted: PeerSync has these steps.
RestoreDone(p) ==
    /\ pc[p] = "regroup" /\ job[p].todo = {} /\ Leave(p)
    /\ alone' = alone \ {p}
    /\ UNCHANGED <<db, shelf>>

\* A statement fails, or the daemon ends.
Fail(p) ==
    /\ pc[p] # "idle" /\ Leave(p)
    /\ alone' = alone \ {p}
    /\ UNCHANGED <<db, shelf>>

-----------------------------------------------------------------------------
(* Single statements of the other requests, and of the syncer. *)

Edit == alone' = {} /\ UNCHANGED <<settings, key, shelf, pc, local>>

\* A new account has both keys; a form may give one a new pair.
UserSave(u, k) ==
    /\ peer' = [peer EXCEPT ![u] = [pub |-> k, priv |-> k]]
    /\ Edit /\ UNCHANGED <<groups, member, preset>>

\* Columns that are left out, such as the switch and what the syncer writes.
UserChange(u) == u \in Accounts /\ Edit /\ UNCHANGED tables

UserRename(u, v) ==
    /\ u \in Accounts /\ v \in Names \ Accounts
    /\ peer' = [peer EXCEPT ![v] = peer[u], ![u] = NULL]
    /\ member' = {m \in member : m[2] # u} \union {m \in Groups \X {v} : <<m[1], u>> \in member}
    /\ Edit /\ UNCHANGED <<groups, preset>>

MutantUserDelete(u) ==
    /\ u \in Accounts
    /\ peer' = [peer EXCEPT ![u] = NULL]
    /\ Edit /\ UNCHANGED <<groups, member, preset>>

UserDelete(u) ==
    /\ u \in Accounts
    /\ peer' = [peer EXCEPT ![u] = NULL]
    /\ member' = {m \in member : m[2] # u}
    /\ Edit /\ UNCHANGED <<groups, preset>>

GroupCreate(g) ==
    /\ g \notin groups /\ groups' = groups \union {g}
    /\ Edit /\ UNCHANGED <<peer, member, preset>>

GroupDelete(g) ==
    /\ g \in groups /\ groups' = groups \ {g}
    /\ member' = {m \in member : m[1] # g}
    /\ preset' = [preset EXCEPT ![g] = NULL]
    /\ Edit /\ UNCHANGED peer

MemberAdd(g, u) ==
    /\ g \in groups /\ u \in Accounts
    /\ member' = member \union {<<g, u>>}
    /\ Edit /\ UNCHANGED <<peer, groups, preset>>

MemberRemove(g, u) ==
    /\ <<g, u>> \in member /\ member' = member \ {<<g, u>>}
    /\ Edit /\ UNCHANGED <<peer, groups, preset>>

PresetSave(g, l) ==
    /\ g \in groups /\ preset' = [preset EXCEPT ![g] = l]
    /\ Edit /\ UNCHANGED <<peer, groups, member>>

-----------------------------------------------------------------------------
\* Everything was set up: there are settings, a key, and the accounts that were
\* imported, without their private keys.
Init ==
    /\ settings \in Configs /\ key \in Keys
    /\ peer \in [Names -> [pub : Keys, priv : {NULL}] \union {NULL}]
    /\ groups = {} /\ member = {} /\ preset = Blank.preset
    /\ shelf = Blank
    /\ pc = [p \in Requests |-> "idle"]
    /\ file = [p \in Requests |-> Blank]
    /\ opts = [p \in Requests |-> {}]
    /\ job = [p \in Requests |-> NoJob]
    /\ alone = {}

Export(p) ==
    \/ ExportSettings(p) \/ ExportServer(p) \/ ExportPeers(p) \/ ExportGroups(p)
    \/ \E g \in Groups : ExportPreset(p, g)
    \/ Download(p)

Restore(p) ==
    \/ \E o \in SUBSET {"peers", "groups"} : RestorePost(p, o)
    \/ RestoreSettings(p) \/ RestoreServer(p) \/ RestoreTables(p)
    \/ \E g \in Groups : RestoreGroup(p, g)
    \/ \E u \in Names : RestoreMember(p, u)
    \/ RestorePreset(p) \/ RestoreDone(p)

Save(p) ==
    \/ \E c \in Configs, k \in Keys \union {NULL} : WireGuardSave(p, c, k)
    \/ SaveServer(p)

Others ==
    \/ \E u \in Names : \/ UserChange(u) \/ UserDelete(u)
                        \/ \E k \in Keys : UserSave(u, k)
                        \/ \E v \in Names : UserRename(u, v)
    \/ \E g \in Groups : \/ GroupCreate(g) \/ GroupDelete(g)
                         \/ \E u \in Names : MemberAdd(g, u) \/ MemberRemove(g, u)
                         \/ \E l \in Limits \union {NULL} : PresetSave(g, l)

Next == (\E p \in Requests : Export(p) \/ Restore(p) \/ Save(p) \/ Fail(p)) \/ Others

Spec == Init /\ [][Next]_vars

-----------------------------------------------------------------------------
(* Properties. *)

\* A backup that nobody has written beside is the database as it is
\* (backup.go:78-136).
BackupIsSnapshot ==
    \A p \in Requests : p \in alone /\ pc[p] = "presets" /\ job[p].todo = {} => file[p] = Image

\* An account is there again, with the private key that it had.
Back(u, r) == u \in Accounts /\ peer[u].pub = r.pub /\ (r.priv # NULL => peer[u].priv = r.priv)

\* What the database says after p's restore.
Restored(p) ==
    LET f == file[p]
        back == {m \in f.member : m[2] \in Accounts}
    IN  /\ settings = f.settings /\ key = f.key
        /\ \A u \in Names : f.peer[u] # NULL => Back(u, f.peer[u])
        /\ f.groups \subseteq groups /\ back \subseteq member
        /\ \A g \in Groups : f.preset[g] # NULL => preset[g] = f.preset[g]
        /\ "peers" \in opts[p] => peer = f.peer /\ member = back
        /\ "groups" \in opts[p] => groups = f.groups /\ member = back /\ preset = f.preset

\* A restore of a backup made by this system that nobody has written beside brings
\* back what its file holds and, where it was to replace a table, nothing but that
\* (backup.go:346-417).
RestoreIsFaithful ==
    \A p \in Requests : p \in alone /\ pc[p] = "regroup" /\ job[p].todo = {} => Restored(p)

\* A form that gives an account a key pair is refused with "Public key does not
\* match this private key" (handlers.go:1339).  Where the file has no private key
\* a restore keeps the one that the account has got since, beside the public key
\* of the file (backup.go:481).
Matched(rows) == \A u \in Names : rows[u] # NULL => rows[u].priv \in {NULL, rows[u].pub}
KeysMatch == Matched(peer)

\* p gives an account with a private key the public key of a file that has none.
Merges(p) ==
    /\ pc[p] = "tables" /\ pc'[p] = "regroup" /\ "peers" \notin opts[p]
    /\ \E u \in Accounts :
          LET r == file[p].peer[u]
          IN  peer[u].priv # NULL /\ r # NULL /\ r.priv = NULL /\ r.pub # peer[u].pub

AllMatched == KeysMatch /\ Matched(shelf.peer) /\ \A p \in Requests : Matched(file[p].peer)

\* Nothing else parts a pair: of all that saves, renames, backs up and restores,
\* in the tables and in every file, only that merge does, and never where the
\* accounts are to be replaced (backup.go:374-397, 456-502).
OnlyMergesPart == [][AllMatched => AllMatched' \/ \E p \in Requests : Merges(p)]_vars
=============================================================================
