---------------------------- MODULE Provisioning ----------------------------
(***************************************************************************)
(* From an empty database to accounts with addresses: the first            *)
(* administrator, the wizard, which writes the settings and then the       *)
(* server, the import of peers, NextClientAllowedIP, and the restore of a  *)
(* backup, which writes all of these again.  Every request looks first and *)
(* writes later.  The pushes that follow are PeerSync's, the groups of a   *)
(* restore are Backup's.                                                   *)
(***************************************************************************)
EXTENDS Naturals

CONSTANTS
    Admins,    \* names of administrators
    Names,     \* names of accounts
    Hosts,     \* IPv4 addresses
    Ranges,    \* client ranges, as the sets of their hosts
    Requests,  \* requests, and forms that are open in a browser
    NULL       \* no settings, server, address

ASSUME HostsAssumption == Hosts \subseteq Nat /\ Ranges \subseteq SUBSET Hosts

\* What a form says of the server: its clients' range and its own address.
Config == [range : Ranges, gateway : Hosts]

ASSUME NullAssumption == NULL \notin Hosts \union Config

VARIABLES
    admins,  \* users
    config,  \* system_config, which is there when the setup is complete
    server,  \* vpn_servers: the Config whose host and port it has
    addr,    \* vpn_users: the first address of allowed_ips
    pc,      \* where each request is
    form,    \* what p was sent or has read: a Config, an address, peers to import
    misled,  \* history: whose reads failed or are out of date
    extra,   \* history: administrators inserted by those
    loose,   \* history: accounts inserted by those, imported, or given another
             \* address by a restore that keeps the accounts there are
    torn     \* history: settings and server were not both written by the last request
             \* that wrote either, or others wrote rows in between

rows == <<admins, config, server, addr>>
history == <<extra, loose, torn>>
vars == <<rows, pc, form, misled, history>>

-----------------------------------------------------------------------------
Accounts == {u \in Names : addr[u] # NULL}

Peers == [Names -> Hosts \union {NULL}]
NoPeers == [u \in Names |-> NULL]
Forms == [config : Config \union {NULL}, addr : Hosts \union {NULL}, peers : Peers]
NoForm == [config |-> NULL, addr |-> NULL, peers |-> NoPeers]

PcStates == {"idle", "count", "admin", "wizard", "server", "peers", "save", "restore",
             "tables", "range", "create"}

\* Accounts refer to the server.
TypeOK ==
    /\ admins \subseteq Admins
    /\ config \in Config \union {NULL} /\ server \in Config \union {NULL}
    /\ addr \in Peers
    /\ Accounts # {} => server # NULL
    /\ pc \in [Requests -> PcStates]
    /\ form \in [Requests -> Forms]
    /\ misled \subseteq Requests
    /\ extra \subseteq Admins /\ loose \subseteq Names
    /\ torn \in BOOLEAN

-----------------------------------------------------------------------------
Goto(p, from, to) == pc[p] = from /\ pc' = [pc EXCEPT ![p] = to]
Fill(p, f) == form' = [form EXCEPT ![p] = f]
Leave(p) == pc' = [pc EXCEPT ![p] = "idle"] /\ Fill(p, NoForm)

\* What others have read is out of date.
Write(p) == misled' = misled \union (Requests \ {p})

\* So it is, and what p does next rests on this write alone.
WriteFirst(p) == misled' = (misled \union Requests) \ {p}

\* The rows that were inserted so, once p has inserted x.
Mark(p, rs, x) == IF p \in misled THEN rs \union {x} ELSE rs \ {x}

MutantNotComplete(p) == misled' = misled \ {p}

\* isSetupComplete, which takes a failed read for a no.
NotComplete(p) ==
    \/ config = NULL /\ misled' = misled \ {p}
    \/ misled' = misled \union {p}

-----------------------------------------------------------------------------
(* The first administrator. *)

SetupAdminPost(p) ==
    /\ Goto(p, "idle", "count") /\ NotComplete(p)
    /\ UNCHANGED <<rows, form, history>>

MutantCountAdmins(p) ==
    /\ Goto(p, "count", "admin")
    /\ UNCHANGED <<rows, form, misled, history>>

\* A failed count is none.
CountAdmins(p) ==
    /\ Goto(p, "count", "admin")
    /\ \/ admins = {} /\ misled' = misled \ {p}
       \/ misled' = misled \union {p}
    /\ UNCHANGED <<rows, form, history>>

InsertAdmin(p, a) ==
    /\ pc[p] = "admin" /\ Leave(p) /\ Write(p)
    /\ a \notin admins /\ admins' = admins \union {a}
    /\ extra' = Mark(p, extra, a)
    /\ UNCHANGED <<config, server, addr, loose, torn>>

-----------------------------------------------------------------------------
(* The wizard, which wants a session, and WireGuardSavePost. *)

Submit(p, c, f) ==
    /\ admins # {} /\ Goto(p, "idle", "wizard") /\ NotComplete(p)
    /\ Fill(p, [config |-> c, addr |-> NULL, peers |-> f])
    /\ UNCHANGED <<rows, history>>

SetupWireGuardPost(p, c) == Submit(p, c, NoPeers)

\* With the peers of a file.
SetupWireGuardImportPost(p, c, f) == Submit(p, c, f)

\* UpsertSystemConfig completes the setup.
WriteSettings(p) ==
    /\ Goto(p, "wizard", "server") /\ WriteFirst(p)
    /\ config' = form[p].config
    /\ UNCHANGED <<admins, server, addr, form, history>>

MutantWriteServer(p) ==
    /\ Goto(p, "server", "peers") /\ Write(p)
    /\ server' = IF server = NULL THEN form[p].config ELSE server
    /\ torn' = (p \in misled)
    /\ UNCHANGED <<admins, config, addr, form, extra, loose>>

WriteServer(p) ==
    /\ Goto(p, "server", "peers") /\ Write(p)
    /\ server' = form[p].config
    /\ torn' = (p \in misled)
    /\ UNCHANGED <<admins, config, addr, form, extra, loose>>

\* importPeersAsUsers takes the addresses of the file as they are.
ImportPeer(p, u) ==
    /\ pc[p] = "peers" /\ form[p].peers[u] # NULL /\ Write(p)
    /\ addr' = [addr EXCEPT ![u] = form[p].peers[u]]
    /\ form' = [form EXCEPT ![p].peers[u] = NULL]
    /\ loose' = loose \union {u}
    /\ UNCHANGED <<admins, config, server, pc, extra, torn>>

SetupDone(p) ==
    /\ pc[p] = "peers" /\ form[p].peers = NoPeers /\ Leave(p)
    /\ UNCHANGED <<rows, misled, history>>

\* Behind RequireAuth, settings are replaced.
Replace(p, c, next) ==
    /\ admins # {} /\ config # NULL
    /\ Goto(p, "idle", next) /\ WriteFirst(p)
    /\ config' = c /\ Fill(p, [NoForm EXCEPT !.config = c])
    /\ UNCHANGED <<admins, server, addr, history>>

\* SaveWireGuardState, which updates a server and inserts none.
WireGuardSave(p, c) == Replace(p, c, "save")

SaveServer(p) ==
    /\ pc[p] = "save" /\ Leave(p) /\ Write(p)
    /\ server' = IF server = NULL THEN NULL ELSE form[p].config
    /\ torn' = (p \in misled \/ server = NULL)
    /\ UNCHANGED <<admins, config, addr, extra, loose>>

-----------------------------------------------------------------------------
(* RestoreBackup: the settings of the file, the server, and in one transaction *)
(* the accounts, over those that there are or instead of them.                 *)

RestoreSettings(p, c) == Replace(p, c, "restore")

\* A server is inserted if the file has no key for it.
RestoreServer(p) ==
    /\ Goto(p, "restore", "tables") /\ Fill(p, NoForm) /\ Write(p)
    /\ \/ server' = form[p].config
       \/ server = NULL /\ server' = NULL
    /\ torn' = (p \in misled \/ server' = NULL)
    /\ UNCHANGED <<admins, config, addr, extra, loose>>

\* The accounts of a file f, of which those in l were loose when it was made.
RestorePeers(p, f, l, replace) ==
    /\ pc[p] = "tables" /\ Leave(p) /\ Write(p)
    /\ \A u, v \in Names \ l : f[u] = f[v] /\ f[u] # NULL => u = v
    /\ server = NULL => f = NoPeers
    /\ addr' = [u \in Names |-> IF f[u] # NULL \/ replace THEN f[u] ELSE addr[u]]
    /\ loose' = IF replace THEN l
                ELSE loose \union {u \in Names : f[u] \notin {NULL, addr[u]}}
    /\ UNCHANGED <<admins, config, server, extra, torn>>

-----------------------------------------------------------------------------
(* Accounts. *)

\* NextClientAllowedIP, when a form is opened or comes without an address: the
\* settings, then the addresses in use; the least of the others.
ReadRange(p) ==
    /\ admins # {} /\ config # NULL
    /\ Goto(p, "idle", "range") /\ Fill(p, [NoForm EXCEPT !.config = config])
    /\ UNCHANGED <<rows, misled, history>>

Used == {addr[u] : u \in Accounts}
Free(c) == c.range \ (Used \union {c.gateway})

MutantNextClientAllowedIP(p) ==
    /\ Goto(p, "range", "create")
    /\ \E h \in Free(form[p].config) \union Used :
          /\ \A k \in Free(form[p].config) \union Used : h <= k
          /\ form' = [form EXCEPT ![p].addr = h]
    /\ misled' = misled \ {p}
    /\ UNCHANGED <<rows, history>>

NextClientAllowedIP(p) ==
    /\ Goto(p, "range", "create")
    /\ \E h \in Free(form[p].config) :
          /\ \A k \in Free(form[p].config) : h <= k
          /\ form' = [form EXCEPT ![p].addr = h]
    /\ misled' = misled \ {p}
    /\ UNCHANGED <<rows, history>>

\* Whoever fills the form may write any address over the one suggested.
Type(p, h) ==
    /\ admins # {} /\ config # NULL
    /\ Goto(p, "idle", "create") /\ Fill(p, [NoForm EXCEPT !.addr = h])
    /\ misled' = misled \union {p}
    /\ UNCHANGED <<rows, history>>

MutantUserCreate(p, u) ==
    /\ pc[p] = "create" /\ Leave(p) /\ Write(p)
    /\ u \notin Accounts
    /\ addr' = [addr EXCEPT ![u] = form[p].addr]
    /\ loose' = Mark(p, loose, u)
    /\ UNCHANGED <<admins, config, server, extra, torn>>

\* The row refers to the server.
UserCreate(p, u) ==
    /\ pc[p] = "create" /\ Leave(p) /\ Write(p)
    /\ u \notin Accounts /\ server # NULL
    /\ addr' = [addr EXCEPT ![u] = form[p].addr]
    /\ loose' = Mark(p, loose, u)
    /\ UNCHANGED <<admins, config, server, extra, torn>>

UserDelete(u) ==
    /\ u \in Accounts
    /\ addr' = [addr EXCEPT ![u] = NULL]
    /\ UNCHANGED <<admins, config, server, pc, form, misled, history>>

-----------------------------------------------------------------------------
Writing == {"server", "save", "restore"}

\* A statement or a check fails, or a form is closed.
Fail(p) ==
    /\ pc[p] # "idle" /\ Leave(p)
    /\ torn' = (torn \/ pc[p] \in Writing)
    /\ UNCHANGED <<rows, misled, extra, loose>>

\* The daemon ends and starts; BootstrapAdmin runs before it serves.
Restart ==
    /\ pc' = [p \in Requests |-> "idle"] /\ form' = [p \in Requests |-> NoForm]
    /\ torn' = (torn \/ \E p \in Requests : pc[p] \in Writing)
    /\ \/ admins' = admins
       \/ admins = {} /\ \E a \in Admins : admins' = {a}
    /\ UNCHANGED <<config, server, addr, misled, extra, loose>>

Init ==
    /\ admins = {} /\ config = NULL /\ server = NULL /\ addr = NoPeers
    /\ pc = [p \in Requests |-> "idle"] /\ form = [p \in Requests |-> NoForm]
    /\ misled = {} /\ extra = {} /\ loose = {} /\ torn = FALSE

Setup(p) ==
    \/ SetupAdminPost(p) \/ CountAdmins(p) \/ \E a \in Admins : InsertAdmin(p, a)
    \/ \E c \in Config : SetupWireGuardPost(p, c)
    \/ \E c \in Config, f \in Peers : SetupWireGuardImportPost(p, c, f)
    \/ WriteSettings(p) \/ WriteServer(p)
    \/ \E u \in Names : ImportPeer(p, u)
    \/ SetupDone(p)

Serve(p) ==
    \/ \E c \in Config : WireGuardSave(p, c)
    \/ SaveServer(p)
    \/ \E c \in Config : RestoreSettings(p, c)
    \/ RestoreServer(p)
    \/ \E f \in Peers, l \in SUBSET Names, r \in BOOLEAN : RestorePeers(p, f, l, r)
    \/ ReadRange(p) \/ NextClientAllowedIP(p) \/ \E h \in Hosts : Type(p, h)
    \/ \E u \in Names : UserCreate(p, u)

Next ==
    \/ \E p \in Requests : Setup(p) \/ Serve(p) \/ Fail(p)
    \/ \E u \in Names : UserDelete(u)
    \/ Restart

Spec == Init /\ [][Next]_vars

-----------------------------------------------------------------------------
(* Properties. *)

\* All administrators but one were added by requests that were overtaken between
\* the count and the insert, or whose count failed (handlers.go:185-201).
OneAdmin == \A a, b \in admins \ extra : a = b

\* Of two accounts with one address, one was imported, or has an address that was
\* typed, or one that somebody was suggested before another request wrote, or one
\* that it had in a backup which was restored beside the accounts there were.  A
\* restore that replaces all accounts leaves them as distinct as they were
\* (peers.go:48-72, backup.go:397-401).
DistinctAddresses ==
    \A u, v \in Accounts \ loose : addr[u] = addr[v] => u = v

\* Who is between the settings and the server.
Midway == \E p \in Requests : pc[p] \in Writing

\* The server is as the settings say, unless the last request that wrote either failed
\* between the two, found no server to update, or was overtaken there by another that
\* wrote anything (handlers.go:392-401, state.go:103-110, backup.go:366-372).
ServerMatches == ~torn /\ ~Midway => server = config

\* The wizard is closed by the first who uses it: who was not overtaken changes no
\* settings that there are (handlers.go:330).
WizardIsUsedOnce ==
    [][\A p \in Requests \ misled : pc[p] = "wizard" /\ pc'[p] = "server" => config = NULL]_vars
=============================================================================
