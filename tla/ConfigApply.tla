----------------------------- MODULE ConfigApply -----------------------------
(***************************************************************************)
(* Several pushes at once (wireguard/config.go, apply.go, state.go).  A    *)
(* push reads the rows, writes them to wg0.conf.tmp, renames that file to  *)
(* wg0.conf and loads it: with wg-quick down and up, or with wg syncconf   *)
(* from a stripped copy, wg0.conf.peers.tmp.  The three names are shared   *)
(* by all requests and nothing locks them: who opens a file that another   *)
(* has open truncates it under his hands, and a rename takes whatever file *)
(* bears the name.  PeerSync has one administrator and pushes that no      *)
(* other disturbs; this module says what that rests on.                    *)
(*                                                                         *)
(* No push syncs anything: until the kernel writes a new wg0.conf to the   *)
(* disk, a stop of the host may bring an older one back.                   *)
(*                                                                         *)
(* Rows are versions: of the settings, that a file shows in [Interface],   *)
(* and of the peers.  A file is what it says, not its text.                *)
(***************************************************************************)
EXTENDS Naturals, FiniteSets

CONSTANTS
    Requests,     \* HTTP requests served at the same time
    Main,         \* the start of the daemon
    Writes,       \* bound: changes of rows
    Empty,        \* what a file that was just truncated says
    Torn,         \* text of two writers, or the beginning of a text
    NULL          \* no file; no interface; nothing open

Procs == Requests \union {Main}
Names == {"conf", "tmp", "peers"}

Version == 0..Writes
Snapshot == [set : Version, peers : Version]
Text == Snapshot \union {Empty, Torn}

\* An interface has the addresses and hooks of one file and the peers of one.
Part == Version \union {Empty, Torn}
Live == [set : Part, peers : Part]

ASSUME WritesAssumption == Writes \in Nat
ASSUME ProcessAssumption == Main \notin Requests
ASSUME TextAssumption ==
    /\ {Empty, Torn, NULL} \intersect (Snapshot \union Live \union Version) = {}
    /\ Empty # Torn
    /\ NULL \notin {Empty, Torn, "gone"} \union Names

VARIABLES
    db,        \* the rows: the version of the settings and that of the peers
    file,      \* file[n]: the text of the file named n, or NULL
    kept,      \* the older text of wg0.conf that the disk may still have; Torn when
               \* nobody vouches for it
    live,      \* the interface, or NULL
    pc,        \* where each request is
    mode,      \* mode[p]: "reload", "restart" or "save"
    buf,       \* buf[p]: the text that p is about to write
    at,        \* at[p]: the name of the file p has open now; NULL when it has none,
               \* "gone" when its file has no name any more
    suspect,   \* history: the names of files that somebody may not have written alone
    was,       \* history: what wg0.conf said until a stop of the host changed it; NULL
               \* once it is written again
    missed     \* history: why file and interface may differ from the rows

back == <<kept, was>>
disk == <<file, at, suspect, back>>
own == <<pc, mode, buf>>
vars == <<db, live, own, disk, missed>>

-----------------------------------------------------------------------------
(* Types. *)

Modes == {"reload", "restart", "save"}
Writing == {"list", "open", "fill", "rename"}
Loading == {"load", "copy", "fillcopy", "sync", "remove", "down", "up"}
PcStates == {"idle", "read"} \union Writing \union Loading

Reasons == {"failure", "overlap", "syncer", "settings"}

TypeOK ==
    /\ db \in Snapshot
    /\ file \in [Names -> Text \union {NULL}]
    /\ live \in Live \union {NULL}
    /\ pc \in [Procs -> PcStates]
    /\ mode \in [Procs -> Modes]
    /\ buf \in [Procs -> Text]
    /\ at \in [Procs -> Names \union {"gone", NULL}]
    /\ kept \in Text \union {NULL} /\ was \in Text \union {NULL}
    /\ suspect \subseteq {"conf", "tmp"}
    /\ missed \subseteq Reasons

Newer(t, u) == t.set >= u.set /\ t.peers >= u.peers

\* Rows that were there at one time or another.
Known == {r \in Snapshot : Newer(db, r)}

NoRows == [set |-> 0, peers |-> 0]

SetPart(t) == IF t \in Snapshot THEN t.set ELSE t
PeersPart(t) == IF t \in Snapshot THEN t.peers ELSE t

\* p is between its first read of the rows and the end of its push.
Pushing(p) == pc[p] \in Writing \union Loading

Step(p, next) == pc' = [pc EXCEPT ![p] = next]

\* A failure leaves the settings of the interface in doubt as well.
Gap(reason) == missed' = missed \union {reason, "settings"}

-----------------------------------------------------------------------------
(* The requests.  The server accepts them once main has started up. *)

Begin(p, m) ==
    /\ p \in Requests /\ pc[p] = "idle" /\ pc[Main] = "idle"
    /\ pc' = [pc EXCEPT ![p] = "read"]
    /\ mode' = [mode EXCEPT ![p] = m]
    /\ UNCHANGED <<live, buf, disk>>

\* Create, update, toggle or delete of an account, then SyncFromDB.
UserPost(p) ==
    /\ db.peers < Writes
    /\ db' = [db EXCEPT !.peers = @ + 1]
    /\ Begin(p, "reload")
    /\ UNCHANGED missed

\* WireGuardSavePost and the API's PUT: settings and server, then the push.
WireGuardSavePost(p) ==
    /\ db.set < Writes
    /\ db' = [db EXCEPT !.set = @ + 1]
    /\ Begin(p, "save")
    /\ missed' = missed \union {"settings"}

\* The wizards of the first set-up, also with accounts that are imported.
SetupPost(p) ==
    /\ db.set < Writes
    /\ \E n \in {0, 1} :
          /\ db.peers + n <= Writes
          /\ db' = [set |-> db.set + 1, peers |-> db.peers + n]
    /\ Begin(p, "reload")
    /\ missed' = missed \union {"settings"}

\* A restore writes all tables and restarts.
WireGuardRestorePost(p) ==
    /\ db.set < Writes /\ db.peers < Writes
    /\ db' = [set |-> db.set + 1, peers |-> db.peers + 1]
    /\ Begin(p, "restart")
    /\ missed' = missed \union {"settings"}

WireGuardReloadPost(p) == Begin(p, "reload") /\ UNCHANGED <<db, missed>>
WireGuardRestartPost(p) == Begin(p, "restart") /\ UNCHANGED <<db, missed>>

-----------------------------------------------------------------------------
(* WriteWireGuardConfig.  A definition named Mutant... is a plausible mistake *)
(* in the one that follows it.                                                *)

\* Whoever begins to read while nobody pushes makes up for what was missed;
\* new settings wait for a restart.
MakesUp(p) ==
    IF \E q \in Procs \ {p} : Pushing(q) THEN missed \union {"overlap", "settings"}
    ELSE IF mode[p] = "restart" THEN {} ELSE missed \intersect {"settings"}

\* Keeps the [Interface] of the file that is there.
MutantReadSettings(p) ==
    /\ pc[p] = "read"
    /\ buf' = [buf EXCEPT ![p] =
                  [set |-> IF file["conf"] \in Snapshot THEN file["conf"].set ELSE db.set,
                   peers |-> 0]]
    /\ missed' = MakesUp(p)
    /\ Step(p, "list")
    /\ UNCHANGED <<db, live, mode, disk>>

\* system_config and vpn_servers.
ReadSettings(p) ==
    /\ pc[p] = "read"
    /\ buf' = [buf EXCEPT ![p] = [set |-> db.set, peers |-> 0]]
    /\ missed' = MakesUp(p)
    /\ Step(p, "list")
    /\ UNCHANGED <<db, live, mode, disk>>

\* The enabled rows of vpn_users.
ReadPeers(p) ==
    /\ pc[p] = "list"
    /\ buf' = [buf EXCEPT ![p] = [set |-> @.set, peers |-> db.peers]]
    /\ Step(p, "open")
    /\ UNCHANGED <<db, live, mode, missed, disk>>

\* os.WriteFile opens the file, creating or truncating it, ...
OpenFile(p, n) ==
    /\ file' = [file EXCEPT ![n] = Empty]
    /\ at' = [at EXCEPT ![p] = n]

\* ... and writes from its beginning, over what others have written meanwhile.
Over(old, new) == IF old \in {Empty, new} THEN {new} ELSE {new, Torn}

FillFile(p) ==
    /\ \/ /\ at[p] \in Names
          /\ \E t \in Over(file[at[p]], buf[p]) : file' = [file EXCEPT ![at[p]] = t]
       \/ at[p] = "gone" /\ UNCHANGED file
    /\ at' = [at EXCEPT ![p] = NULL]
    /\ buf' = [buf EXCEPT ![p] = Empty]

MutantOpenTmp(p) ==
    /\ pc[p] = "open"
    /\ OpenFile(p, "conf")
    /\ Step(p, "fill")
    /\ UNCHANGED <<db, live, mode, buf, suspect, back, missed>>

\* Others may be about to rename the file.
OpenTmp(p) ==
    /\ pc[p] = "open"
    /\ OpenFile(p, "tmp")
    /\ suspect' = IF \E q \in Procs \ {p} : pc[q] \in {"fill", "rename"}
                  THEN suspect \union {"tmp"} ELSE suspect \ {"tmp"}
    /\ Step(p, "fill")
    /\ UNCHANGED <<db, live, mode, buf, back, missed>>

FillTmp(p) ==
    /\ pc[p] = "fill"
    /\ FillFile(p)
    /\ Step(p, "rename")
    /\ UNCHANGED <<db, live, mode, suspect, back, missed>>

\* What is open stays open under its new name; what bore the name has none.
Moved(n) == CASE n = "tmp" -> "conf" [] n = "conf" -> "gone" [] OTHER -> n

MutantRename(p) ==
    /\ pc[p] = "rename" /\ file["tmp"] # NULL
    /\ file' = IF file["conf"] # NULL THEN file
               ELSE [file EXCEPT !["conf"] = file["tmp"], !["tmp"] = NULL]
    /\ Step(p, IF mode[p] = "restart" THEN "down" ELSE "load")
    /\ mode' = [mode EXCEPT ![p] = "reload"]
    /\ UNCHANGED <<db, live, buf, at, suspect, back, missed>>

\* The text of wg0.conf, which may change when it is open somewhere.
Vouched == IF "conf" \in suspect THEN Torn ELSE file["conf"]

\* Nothing is synced: the disk has the text that is replaced, or one before it.
Rename(p) ==
    /\ pc[p] = "rename" /\ file["tmp"] # NULL
    /\ file' = [file EXCEPT !["conf"] = file["tmp"], !["tmp"] = NULL]
    /\ at' = [q \in Procs |-> Moved(at[q])]
    /\ kept' \in {kept, Vouched}
    /\ suspect' = IF "tmp" \in suspect THEN {"conf"} ELSE {}
    /\ was' = NULL
    /\ Step(p, IF mode[p] = "restart" THEN "down" ELSE "load")
    /\ mode' = [mode EXCEPT ![p] = "reload"]
    /\ UNCHANGED <<db, live, buf, missed>>

\* A statement or a query fails, the disk is full, or another has renamed the file.
\* Only SaveWireGuardState goes on, with the wg0.conf that is there.
WriteFails(p) ==
    /\ pc[p] \in {"read"} \union Writing
    /\ \/ UNCHANGED file
       \/ pc[p] = "fill" /\ at[p] \in Names /\ file' = [file EXCEPT ![at[p]] = Torn]
    /\ at' = [at EXCEPT ![p] = NULL]
    /\ Step(p, IF mode[p] = "save" /\ pc[p] # "read" THEN "load" ELSE "idle")
    /\ mode' = [mode EXCEPT ![p] = "reload"]
    /\ buf' = [buf EXCEPT ![p] = Empty]
    /\ Gap("failure")
    /\ UNCHANGED <<db, live, suspect, back>>

-----------------------------------------------------------------------------
(* ApplyConfig and RestartConfig.  An interface that is there is given the    *)
(* peers of the file; one that is not is made from all of it.                 *)

\* wg-quick strip; its output must not be blank.
Strip(p) ==
    /\ pc[p] = "load" /\ live # NULL
    /\ file["conf"] \notin {NULL, Empty}
    /\ buf' = [buf EXCEPT ![p] = file["conf"]]
    /\ Step(p, "copy")
    /\ UNCHANGED <<db, live, mode, disk, missed>>

OpenCopy(p) ==
    /\ pc[p] = "copy"
    /\ OpenFile(p, "peers")
    /\ Step(p, "fillcopy")
    /\ UNCHANGED <<db, live, mode, buf, suspect, back, missed>>

FillCopy(p) ==
    /\ pc[p] = "fillcopy"
    /\ FillFile(p)
    /\ Step(p, "sync")
    /\ UNCHANGED <<db, live, mode, suspect, back, missed>>

\* wg syncconf reads whatever file bears the name.
Syncconf(p) ==
    /\ pc[p] = "sync" /\ file["peers"] # NULL /\ live # NULL
    /\ live' = [live EXCEPT !.peers = PeersPart(file["peers"])]
    /\ Step(p, "remove")
    /\ UNCHANGED <<db, mode, buf, disk, missed>>

\* The deferred Remove, whatever syncconf said.
Remove(p) ==
    /\ pc[p] = "remove"
    /\ file' = [file EXCEPT !["peers"] = NULL]
    /\ at' = [q \in Procs |-> IF at[q] = "peers" THEN "gone" ELSE at[q]]
    /\ Step(p, "idle")
    /\ UNCHANGED <<db, live, mode, buf, suspect, back, missed>>

\* wg-quick down; an interface that is down already is no error.
Down(p) ==
    /\ pc[p] = "down" /\ file["conf"] # NULL
    /\ live' = NULL
    /\ Step(p, "up")
    /\ UNCHANGED <<db, mode, buf, disk, missed>>

MutantUp(p) ==
    /\ pc[p] \in {"load", "up"} /\ live = NULL
    /\ live' = [set |-> SetPart(file["conf"]), peers |-> PeersPart(file["conf"])]
    /\ Step(p, "idle")
    /\ UNCHANGED <<db, mode, buf, disk, missed>>

\* wg-quick up, when there is none.
Up(p) ==
    /\ pc[p] \in {"load", "up"} /\ live = NULL /\ file["conf"] # NULL
    /\ live' = [set |-> SetPart(file["conf"]), peers |-> PeersPart(file["conf"])]
    /\ Step(p, "idle")
    /\ UNCHANGED <<db, mode, buf, disk, missed>>

LoadFails(p) ==
    /\ pc[p] \in Loading \ {"remove"}
    /\ \/ UNCHANGED file
       \/ pc[p] = "fillcopy" /\ at[p] \in Names /\ file' = [file EXCEPT ![at[p]] = Torn]
    /\ at' = [at EXCEPT ![p] = NULL]
    /\ buf' = [buf EXCEPT ![p] = Empty]
    /\ Step(p, IF pc[p] = "sync" THEN "remove" ELSE "idle")
    /\ Gap("failure")
    /\ UNCHANGED <<db, live, mode, suspect, back>>

-----------------------------------------------------------------------------
(* The rest of the world. *)

\* The syncer switches accounts on and off and pushes nothing.
SyncerFlip ==
    /\ db.peers < Writes
    /\ db' = [db EXCEPT !.peers = @ + 1]
    /\ missed' = missed \union {"syncer"}
    /\ UNCHANGED <<live, own, disk>>

InterfaceLost ==
    /\ live # NULL
    /\ live' = NULL
    /\ Gap("failure")
    /\ UNCHANGED <<db, own, disk>>

\* Loads the file that is there.
MutantRestart ==
    /\ pc' = [p \in Procs |-> IF p = Main THEN "load" ELSE "idle"]
    /\ mode' = [p \in Procs |-> "reload"]
    /\ at' = [p \in Procs |-> NULL]
    /\ buf' = [p \in Procs |-> Empty]
    /\ missed' = missed \union {"settings"}
    /\ UNCHANGED db

\* The daemon starts again, files as they were left, and reloads WireGuard.
Restart ==
    /\ pc' = [p \in Procs |-> IF p = Main THEN "read" ELSE "idle"]
    /\ mode' = [p \in Procs |-> "reload"]
    /\ at' = [p \in Procs |-> NULL]
    /\ buf' = [p \in Procs |-> Empty]
    /\ missed' = missed \union {"settings"}
    /\ UNCHANGED db

DaemonDies == Restart /\ UNCHANGED <<file, live, suspect, back>>

\* What wg0.conf would say if the host had not stopped since it was written.
Last == IF was = NULL THEN file["conf"] ELSE was

\* The host stops.  The last text had reached the disk; or the rename is undone; or
\* the name is there and the text is not, or not all of it.  What is there now is on
\* the disk.  The other two files are truncated before anybody reads them.
HostDies ==
    /\ Restart
    /\ live' = NULL
    /\ \/ UNCHANGED <<file, suspect>>
       \/ /\ kept # Torn
          /\ file' = [file EXCEPT !["conf"] = kept]
          /\ suspect' = suspect \ {"conf"}
       \/ /\ file["conf"] # NULL
          /\ \E t \in {Empty, Torn} \union (IF kept = Torn THEN Known ELSE {}) :
                file' = [file EXCEPT !["conf"] = t]
          /\ suspect' = suspect \union {"conf"}
    /\ kept' = Vouched'
    /\ was' = IF file' = file THEN was ELSE Last

Init ==
    /\ db = NoRows
    /\ file = [n \in Names |-> NULL]
    /\ kept = NULL /\ was = NULL
    /\ live = NULL
    /\ pc = [p \in Procs |-> "idle"]
    /\ mode = [p \in Procs |-> "reload"]
    /\ buf = [p \in Procs |-> Empty]
    /\ at = [p \in Procs |-> NULL]
    /\ suspect = {}
    /\ missed = {"failure", "settings"}

Post(p) ==
    \/ UserPost(p) \/ SetupPost(p) \/ WireGuardSavePost(p) \/ WireGuardRestorePost(p)
    \/ WireGuardReloadPost(p) \/ WireGuardRestartPost(p)

WriteStep(p) ==
    \/ ReadSettings(p) \/ ReadPeers(p) \/ OpenTmp(p) \/ FillTmp(p)
    \/ Rename(p) \/ WriteFails(p)

LoadStep(p) ==
    \/ Strip(p) \/ OpenCopy(p) \/ FillCopy(p) \/ Syncconf(p)
    \/ Remove(p) \/ Down(p) \/ Up(p) \/ LoadFails(p)

Next ==
    \/ \E p \in Procs : Post(p) \/ WriteStep(p) \/ LoadStep(p)
    \/ SyncerFlip \/ InterfaceLost \/ DaemonDies \/ HostDies

Spec == Init /\ [][Next]_vars

-----------------------------------------------------------------------------
(* Properties. *)

\* wg0.conf is always the whole text of one push, through crashes of the daemon,
\* full disks and stops of the host that undo renames, unless a push had opened the
\* temporary file while another was about to rename it, or a stop of the host has
\* taken text that was never synced (config.go:150-157).
WholeFile == file["conf"] # NULL /\ "conf" \notin suspect => file["conf"] \in Snapshot

Quiet == \A p \in Procs : pc[p] = "idle"

\* When every push has ended, the file and the peers of the interface are what
\* the rows say and no other copy of wg0.conf is left, unless one of the known gaps
\* has opened since a push last began alone: a failure, pushes that overlapped,
\* the syncer.  A stop of the host is no gap: what it brings back is written anew.
\* The settings of the interface follow with a restart (state.go:93-160).
InSync ==
    Quiet /\ missed \subseteq {"settings"} =>
        /\ file["conf"] = db /\ file["tmp"] = NULL
        /\ live # NULL /\ live.peers = db.peers
        /\ missed = {} => live.set = db.set

Back(t, u) == t \in Snapshot /\ u \in Snapshot /\ ~Newer(u, t)

NoStepBack ==
    /\ Back(file["conf"], file'["conf"]) => "overlap" \in missed \/ was' # NULL
    /\ Back(Last, Last') => "overlap" \in missed
    /\ live \in Snapshot /\ live' \in Snapshot /\ live'.peers < live.peers
       => missed \intersect {"overlap", "failure"} # {}

\* wg0.conf goes back to older rows by a stop of the host alone, which may undo the
\* rename, and the next push writes rows no older than those it had before; the
\* interface does not go back at all.  All this unless pushes overlapped or, for the
\* interface, one failed: who reads the rows later writes later
\* (config.go:60-157, main.go:123).
Forward == [][NoStepBack]_vars

\* The promise of pushes as a whole, through all crashes: while the system is
\* calm, each push writes rows no older than the last one did, and the interface
\* gets nothing but the rows written last.  An older wg0.conf that a stop of the host
\* has brought back is written again before anything is loaded
\* (config.go:150-157, apply.go:24-116).
Pushes == INSTANCE Push WITH
    rows <- db,
    conf <- file["conf"],
    last <- Last,
    wg <- live,
    calm <- missed \intersect {"overlap", "failure"} = {},
    Lost <- {Empty, Torn}

PushSpec == Pushes!Spec
=============================================================================
