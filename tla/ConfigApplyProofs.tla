-------------------------- MODULE ConfigApplyProofs --------------------------
(***************************************************************************)
(* Proofs about ConfigApply: types, that wg0.conf is whole, that pushes    *)
(* never bring older rows back, and that file and interface are what the   *)
(* rows say, as long as pushes do not overlap and none fails.  A stop of   *)
(* the host may bring an older wg0.conf back, which the next push replaces *)
(* before anybody reads it.                                                *)
(***************************************************************************)
EXTENDS ConfigApply, TLAPS

\* A file is open while it is written, under the name it was opened by, or the name
\* it was given since.
OpenInv ==
    \A p \in Procs :
        /\ pc[p] = "fill" => at[p] \in {"tmp", "conf", "gone"}
        /\ pc[p] = "fillcopy" => at[p] \in {"peers", "gone"}
        /\ pc[p] \notin {"fill", "fillcopy"} => at[p] = NULL
        /\ pc[p] \in {"list", "open", "fill"} => buf[p] \in Snapshot
        /\ \A n \in Names : at[p] = n => file[n] # NULL
        /\ pc[p] \in Loading => mode[p] = "reload"

\* A wg0.conf that is not suspect is whole and nobody writes it, and so is an older
\* one that the disk may have; a temporary file that is not suspect belongs to one
\* push at most, and is whole when that one renames it.
WholeInv ==
    /\ kept \in Snapshot \union {NULL, Torn}
    /\ file["conf"] = NULL => kept = NULL /\ "conf" \notin suspect
    /\ "conf" \notin suspect =>
         /\ file["conf"] \in Snapshot \union {NULL}
         /\ \A p \in Procs : at[p] # "conf"
    /\ "tmp" \notin suspect /\ file["tmp"] # NULL =>
         \A p \in Procs : pc[p] \in {"fill", "rename"} =>
            /\ \A q \in Procs \ {p} : pc[q] \notin {"fill", "rename"}
            /\ pc[p] = "fill" => at[p] = "tmp" /\ file["tmp"] = Empty
            /\ pc[p] = "rename" => file["tmp"] \in Snapshot

\* What p's push is made of: the rows it has read, then the file it has written.
Carried(p) ==
    CASE pc[p] = "rename" -> file["tmp"]
      [] pc[p] \in {"sync", "remove"} -> file["peers"]
      [] pc[p] \in {"load", "down", "up"} -> file["conf"]
      [] OTHER -> buf[p]

\* Nothing is newer than the rows.
Within(t) == t \in Snapshot => Newer(db, t)
BoundInv ==
    /\ \A n \in Names : Within(file[n])
    /\ Within(kept) /\ Within(was)
    /\ \A p \in Procs : Within(buf[p])
    /\ live # NULL => /\ live.set \in Version => live.set <= db.set
                      /\ live.peers \in Version => live.peers <= db.peers

Calm == missed \intersect {"overlap", "failure"} = {}

\* Unless pushes have overlapped there is one, its files are its own, and what it
\* is made of is no older than what it will replace, or what a stop of the host has
\* replaced already.
AloneInv ==
    "overlap" \notin missed => \A p \in Procs : Pushing(p) =>
        /\ \A q \in Procs \ {p} : ~Pushing(q)
        /\ pc[p] = "fill" => at[p] = "tmp" /\ file["tmp"] = Empty
        /\ pc[p] = "fillcopy" => at[p] = "peers" /\ file["peers"] = Empty
        /\ pc[p] \in Writing =>
             /\ Carried(p) \in Snapshot
             /\ \A t \in {file["conf"], was} : t \in Snapshot =>
                  /\ Carried(p).set >= t.set
                  /\ pc[p] # "list" => Carried(p).peers >= t.peers
        /\ "failure" \notin missed =>
             /\ Carried(p) \in Snapshot
             /\ pc[p] # "list" /\ live # NULL /\ live.peers \in Version
                  => Carried(p).peers >= live.peers

\* In the calm, what is loaded is the file that the push has renamed.
LoadInv ==
    Calm => \A p \in Procs :
        /\ pc[p] \in Loading \ {"remove"} => file["conf"] \in Snapshot /\ was = NULL
        /\ pc[p] \in {"copy", "fillcopy"} => buf[p] = file["conf"]
        /\ pc[p] = "sync" => file["peers"] = file["conf"]

\* Somebody has written rows, or starts, and has still to read them.
Pending == \E q \in Procs : pc[q] = "read"

\* Unless something was missed, a push is made of the rows as they are, or of rows
\* that somebody has changed since, who will push them.
CleanInv ==
    missed \subseteq {"settings"} => \A p \in Procs : Pushing(p) =>
        /\ Carried(p).set = db.set \/ Pending
        /\ pc[p] # "list" => Carried(p).peers = db.peers \/ Pending
        /\ pc[p] \in Loading =>
             /\ file["conf"] \in Snapshot /\ file["tmp"] = NULL
             /\ file["conf"] = db \/ Pending
        /\ pc[p] = "remove" => live # NULL /\ (live.peers = db.peers \/ Pending)

Restarting(p) == Pushing(p) /\ (mode[p] = "restart" \/ pc[p] \in {"down", "up"})

\* Settings that nobody doubts are in the interface, or in the push that makes one.
SettingsInv ==
    /\ missed \intersect {"overlap", "failure"} # {} => "settings" \in missed
    /\ "settings" \notin missed =>
         /\ \A p \in Procs : Pushing(p) => Carried(p).set = db.set
         /\ (\E p \in Procs : Restarting(p)) \/ live = NULL \/ live.set = db.set

IInv ==
    /\ TypeOK /\ OpenInv /\ WholeInv /\ BoundInv
    /\ AloneInv /\ LoadInv /\ CleanInv /\ SettingsInv /\ InSync

-----------------------------------------------------------------------------
\* Every action keeps the types.
LEMMA TypeStep == TypeOK /\ OpenInv /\ [Next]_vars => TypeOK'
<1> SUFFICES ASSUME TypeOK, OpenInv, [Next]_vars PROVE TypeOK'
  OBVIOUS
<1> USE
   DEF TypeOK, PcStates, Writing, Loading, Modes, Names, Reasons, Text, Live, Part,
       Snapshot, Version, disk, back, own
<1>1. ASSUME NEW p \in Procs, Post(p) PROVE TypeOK'
  BY <1>1, WritesAssumption
     DEF Post, UserPost, SetupPost, WireGuardSavePost, WireGuardRestorePost,
        WireGuardReloadPost, WireGuardRestartPost, Begin
<1>2. ASSUME NEW p \in Procs, ReadSettings(p) PROVE TypeOK'
  BY <1>2, WritesAssumption DEF ReadSettings, MakesUp, Step
<1>3. ASSUME NEW p \in Procs, ReadPeers(p) PROVE TypeOK'
  <2>1. buf[p] \in Snapshot
    BY <1>3 DEF OpenInv, ReadPeers
  <2> QED
    BY <1>3, <2>1 DEF ReadPeers, Step
<1>4. ASSUME NEW p \in Procs, OpenTmp(p) PROVE TypeOK'
  BY <1>4, WritesAssumption DEF OpenTmp, OpenFile, Step
<1>5. ASSUME NEW p \in Procs, FillTmp(p) PROVE TypeOK'
  BY <1>5, WritesAssumption DEF FillTmp, FillFile, Over, Step
<1>6. ASSUME NEW p \in Procs, Rename(p) PROVE TypeOK'
  BY <1>6, WritesAssumption DEF Rename, Moved, Vouched, Step
<1>7. ASSUME NEW p \in Procs, WriteFails(p) PROVE TypeOK'
  BY <1>7, WritesAssumption DEF WriteFails, Gap, Step
<1>8. ASSUME NEW p \in Procs, Strip(p) PROVE TypeOK'
  BY <1>8, WritesAssumption DEF Strip, Step
<1>9. ASSUME NEW p \in Procs, OpenCopy(p) PROVE TypeOK'
  BY <1>9, WritesAssumption DEF OpenCopy, OpenFile, Step
<1>10. ASSUME NEW p \in Procs, FillCopy(p) PROVE TypeOK'
  BY <1>10, WritesAssumption DEF FillCopy, FillFile, Over, Step
<1>11. ASSUME NEW p \in Procs, Syncconf(p) PROVE TypeOK'
  BY <1>11, WritesAssumption DEF Syncconf, PeersPart, Step
<1>12. ASSUME NEW p \in Procs, Remove(p) PROVE TypeOK'
  BY <1>12, WritesAssumption DEF Remove, Step
<1>13. ASSUME NEW p \in Procs, Down(p) PROVE TypeOK'
  BY <1>13, WritesAssumption DEF Down, Step
<1>14. ASSUME NEW p \in Procs, Up(p) PROVE TypeOK'
  BY <1>14, WritesAssumption DEF Up, SetPart, PeersPart, Step
<1>15. ASSUME NEW p \in Procs, LoadFails(p) PROVE TypeOK'
  BY <1>15, WritesAssumption DEF LoadFails, Gap, Step
<1>16. CASE SyncerFlip
  BY <1>16, WritesAssumption DEF SyncerFlip
<1>17. CASE InterfaceLost
  BY <1>17, WritesAssumption DEF InterfaceLost, Gap
<1>18. CASE DaemonDies
  BY <1>18, WritesAssumption DEF DaemonDies, Restart, Procs
<1>19. CASE HostDies
  <2>1. PICK t \in Text \union {NULL} : file' = [file EXCEPT !["conf"] = t]
    <3>1. file = [file EXCEPT !["conf"] = file["conf"]] /\ file["conf"] \in Text \union {NULL}
      OBVIOUS
    <3>2. kept \in Text \union {NULL} /\ {Empty, Torn} \subseteq Text /\ Known \subseteq Text
      BY DEF Known
    <3> HIDE DEF Text, Names, TypeOK
    <3> QED
      BY <1>19, <3>1, <3>2 DEF HostDies
  <2>2. file' \in [Names -> Text \union {NULL}]
    <3> HIDE DEF Text, Names
    <3> QED
      BY <2>1
  <2>3. UNCHANGED db /\ live' = NULL /\ missed' = missed \union {"settings"}
    BY <1>19 DEF HostDies, Restart, Procs
  <2>4. /\ pc' \in [Procs -> PcStates] /\ mode' \in [Procs -> Modes]
        /\ buf' \in [Procs -> Text] /\ at' \in [Procs -> Names \union {"gone", NULL}]
    BY <1>19 DEF HostDies, Restart, Procs
  <2>5. suspect' \subseteq {"conf", "tmp"}
    BY <1>19 DEF HostDies
  <2>6. kept' \in Text \union {NULL} /\ was' \in Text \union {NULL}
    <3>1. file["conf"] \in Text \union {NULL} /\ file'["conf"] \in Text \union {NULL}
      <4> HIDE DEF Text
      <4> QED
        BY <2>2
    <3>2. Torn \in Text
      OBVIOUS
    <3> HIDE DEF Text
    <3> QED
      BY <1>19, <3>1, <3>2 DEF HostDies, Vouched, Last
  <2> QED
    BY <2>2, <2>3, <2>4, <2>5, <2>6
<1>20. CASE UNCHANGED vars
  BY <1>20 DEF vars
<1> QED
  BY <1>1, <1>2, <1>3, <1>4, <1>5, <1>6, <1>7, <1>8, <1>9, <1>10, <1>11, <1>12,
     <1>13, <1>14, <1>15, <1>16, <1>17, <1>18, <1>19, <1>20
     DEF Next, WriteStep, LoadStep

\* Files are open while they are written.
LEMMA OpenStep == TypeOK /\ OpenInv /\ [Next]_vars => OpenInv'
<1> SUFFICES ASSUME TypeOK, OpenInv, [Next]_vars PROVE OpenInv'
  OBVIOUS
<1> USE
   DEF OpenInv, TypeOK, PcStates, Writing, Loading, Modes, Names, Reasons, Text, Live, Part,
       Snapshot, Version, disk, back, own
<1>1. ASSUME NEW p \in Procs, Post(p) PROVE OpenInv'
  BY <1>1, WritesAssumption, TextAssumption
     DEF Post, UserPost, SetupPost, WireGuardSavePost, WireGuardRestorePost,
        WireGuardReloadPost, WireGuardRestartPost, Begin
<1>2. ASSUME NEW p \in Procs, ReadSettings(p) PROVE OpenInv'
  BY <1>2, WritesAssumption, TextAssumption DEF ReadSettings, MakesUp, Step
<1>3. ASSUME NEW p \in Procs, ReadPeers(p) PROVE OpenInv'
  BY <1>3, WritesAssumption, TextAssumption DEF ReadPeers, Step
<1>4. ASSUME NEW p \in Procs, OpenTmp(p) PROVE OpenInv'
  BY <1>4, WritesAssumption, TextAssumption DEF OpenTmp, OpenFile, Step
<1>5. ASSUME NEW p \in Procs, FillTmp(p) PROVE OpenInv'
  BY <1>5, WritesAssumption, TextAssumption DEF FillTmp, FillFile, Over, Step
<1>6. ASSUME NEW p \in Procs, Rename(p) PROVE OpenInv'
  <2> SUFFICES ASSUME NEW q \in Procs PROVE OpenInv!(q)'
    OBVIOUS
  <2>1. /\ at[q] = "tmp" => at'[q] = "conf"
        /\ at[q] = "conf" => at'[q] = "gone"
        /\ at[q] \notin {"tmp", "conf"} => at'[q] = at[q]
    BY <1>6 DEF Rename, Moved
  <2>2. CASE q = p
    BY <1>6, <2>1, <2>2, TextAssumption DEF Rename, Step
  <2>3. CASE q # p
    BY <1>6, <2>1, <2>3, TextAssumption DEF Rename, Step
  <2> QED
    BY <2>2, <2>3
<1>7. ASSUME NEW p \in Procs, WriteFails(p) PROVE OpenInv'
  BY <1>7, WritesAssumption, TextAssumption DEF WriteFails, Gap, Step
<1>8. ASSUME NEW p \in Procs, Strip(p) PROVE OpenInv'
  BY <1>8, WritesAssumption, TextAssumption DEF Strip, Step
<1>9. ASSUME NEW p \in Procs, OpenCopy(p) PROVE OpenInv'
  BY <1>9, WritesAssumption, TextAssumption DEF OpenCopy, OpenFile, Step
<1>10. ASSUME NEW p \in Procs, FillCopy(p) PROVE OpenInv'
  BY <1>10, WritesAssumption, TextAssumption DEF FillCopy, FillFile, Over, Step
<1>11. ASSUME NEW p \in Procs, Syncconf(p) PROVE OpenInv'
  BY <1>11, WritesAssumption, TextAssumption DEF Syncconf, PeersPart, Step
<1>12. ASSUME NEW p \in Procs, Remove(p) PROVE OpenInv'
  <2> SUFFICES ASSUME NEW q \in Procs PROVE OpenInv!(q)'
    OBVIOUS
  <2>1. at'[q] = IF at[q] = "peers" THEN "gone" ELSE at[q]
    BY <1>12 DEF Remove
  <2>2. CASE q = p
    BY <1>12, <2>1, <2>2, TextAssumption DEF Remove, Step
  <2>3. CASE q # p
    BY <1>12, <2>1, <2>3, TextAssumption DEF Remove, Step
  <2> QED
    BY <2>2, <2>3
<1>13. ASSUME NEW p \in Procs, Down(p) PROVE OpenInv'
  BY <1>13, WritesAssumption, TextAssumption DEF Down, Step
<1>14. ASSUME NEW p \in Procs, Up(p) PROVE OpenInv'
  BY <1>14, WritesAssumption, TextAssumption DEF Up, SetPart, PeersPart, Step
<1>15. ASSUME NEW p \in Procs, LoadFails(p) PROVE OpenInv'
  BY <1>15, WritesAssumption, TextAssumption DEF LoadFails, Gap, Step
<1>16. CASE SyncerFlip
  BY <1>16, WritesAssumption, TextAssumption DEF SyncerFlip
<1>17. CASE InterfaceLost
  BY <1>17, WritesAssumption, TextAssumption DEF InterfaceLost, Gap
<1>18. CASE DaemonDies
  BY <1>18, WritesAssumption, TextAssumption DEF DaemonDies, Restart, Procs
<1>19. CASE HostDies
  BY <1>19, WritesAssumption, TextAssumption
     DEF HostDies, Restart, Procs, Last, Vouched, Known
<1>20. CASE UNCHANGED vars
  BY <1>20, WritesAssumption, TextAssumption DEF vars
<1> QED
  BY <1>1, <1>2, <1>3, <1>4, <1>5, <1>6, <1>7, <1>8, <1>9, <1>10, <1>11, <1>12,
     <1>13, <1>14, <1>15, <1>16, <1>17, <1>18, <1>19, <1>20
     DEF Next, WriteStep, LoadStep

\* A file that is not suspect is whole.
LEMMA WholeStep == TypeOK /\ OpenInv /\ WholeInv /\ [Next]_vars => WholeInv'
<1> SUFFICES ASSUME TypeOK, OpenInv, WholeInv, [Next]_vars PROVE WholeInv'
  OBVIOUS
<1> USE DEF WholeInv, OpenInv, TypeOK, PcStates, Writing, Loading, Names, Text, disk, back, own
<1>1. ASSUME NEW p \in Procs, Post(p) PROVE WholeInv'
  BY <1>1, WritesAssumption, TextAssumption
     DEF Post, UserPost, SetupPost, WireGuardSavePost, WireGuardRestorePost,
        WireGuardReloadPost, WireGuardRestartPost, Begin
<1>2. ASSUME NEW p \in Procs, ReadSettings(p) PROVE WholeInv'
  BY <1>2, WritesAssumption, TextAssumption DEF ReadSettings, MakesUp, Step
<1>3. ASSUME NEW p \in Procs, ReadPeers(p) PROVE WholeInv'
  BY <1>3, WritesAssumption, TextAssumption DEF ReadPeers, Step
<1>4. ASSUME NEW p \in Procs, OpenTmp(p) PROVE WholeInv'
  BY <1>4, WritesAssumption, TextAssumption DEF OpenTmp, OpenFile, Step
<1>5. ASSUME NEW p \in Procs, FillTmp(p) PROVE WholeInv'
  BY <1>5, WritesAssumption, TextAssumption DEF FillTmp, FillFile, Over, Step
<1>6. ASSUME NEW p \in Procs, Rename(p) PROVE WholeInv'
  BY <1>6, WritesAssumption, TextAssumption DEF Rename, Moved, Vouched, Step
<1>7. ASSUME NEW p \in Procs, WriteFails(p) PROVE WholeInv'
  BY <1>7, WritesAssumption, TextAssumption DEF WriteFails, Gap, Step
<1>8. ASSUME NEW p \in Procs, Strip(p) PROVE WholeInv'
  BY <1>8, WritesAssumption, TextAssumption DEF Strip, Step
<1>9. ASSUME NEW p \in Procs, OpenCopy(p) PROVE WholeInv'
  BY <1>9, WritesAssumption, TextAssumption DEF OpenCopy, OpenFile, Step
<1>10. ASSUME NEW p \in Procs, FillCopy(p) PROVE WholeInv'
  BY <1>10, WritesAssumption, TextAssumption DEF FillCopy, FillFile, Over, Step
<1>11. ASSUME NEW p \in Procs, Syncconf(p) PROVE WholeInv'
  BY <1>11, WritesAssumption, TextAssumption DEF Syncconf, PeersPart, Step
<1>12. ASSUME NEW p \in Procs, Remove(p) PROVE WholeInv'
  BY <1>12, WritesAssumption, TextAssumption DEF Remove, Step
<1>13. ASSUME NEW p \in Procs, Down(p) PROVE WholeInv'
  BY <1>13, WritesAssumption, TextAssumption DEF Down, Step
<1>14. ASSUME NEW p \in Procs, Up(p) PROVE WholeInv'
  BY <1>14, WritesAssumption, TextAssumption DEF Up, SetPart, PeersPart, Step
<1>15. ASSUME NEW p \in Procs, LoadFails(p) PROVE WholeInv'
  BY <1>15, WritesAssumption, TextAssumption DEF LoadFails, Gap, Step
<1>16. CASE SyncerFlip
  BY <1>16, WritesAssumption, TextAssumption DEF SyncerFlip
<1>17. CASE InterfaceLost
  BY <1>17, WritesAssumption, TextAssumption DEF InterfaceLost, Gap
<1>18. CASE DaemonDies
  BY <1>18, WritesAssumption, TextAssumption DEF DaemonDies, Restart, Procs
<1>19. CASE HostDies
  BY <1>19, WritesAssumption, TextAssumption
     DEF HostDies, Restart, Procs, Last, Vouched, Known
<1>20. CASE UNCHANGED vars
  BY <1>20, WritesAssumption, TextAssumption DEF vars
<1> QED
  BY <1>1, <1>2, <1>3, <1>4, <1>5, <1>6, <1>7, <1>8, <1>9, <1>10, <1>11, <1>12,
     <1>13, <1>14, <1>15, <1>16, <1>17, <1>18, <1>19, <1>20
     DEF Next, WriteStep, LoadStep

\* Nothing is newer than the rows.
LEMMA BoundStep == TypeOK /\ OpenInv /\ BoundInv /\ [Next]_vars => BoundInv'
<1> SUFFICES ASSUME TypeOK, OpenInv, BoundInv, [Next]_vars PROVE BoundInv'
  OBVIOUS
<1> USE
   DEF BoundInv, Within, Newer, OpenInv, Live, Part, Snapshot, Version, TypeOK, PcStates,
       Writing, Loading, Names, Text, disk, back, own
<1>1. ASSUME NEW p \in Procs, Post(p) PROVE BoundInv'
  BY <1>1, WritesAssumption, TextAssumption
     DEF Post, UserPost, SetupPost, WireGuardSavePost, WireGuardRestorePost,
        WireGuardReloadPost, WireGuardRestartPost, Begin
<1>2. ASSUME NEW p \in Procs, ReadSettings(p) PROVE BoundInv'
  BY <1>2, WritesAssumption, TextAssumption DEF ReadSettings, MakesUp, Step
<1>3. ASSUME NEW p \in Procs, ReadPeers(p) PROVE BoundInv'
  BY <1>3, WritesAssumption, TextAssumption DEF ReadPeers, Step
<1>4. ASSUME NEW p \in Procs, OpenTmp(p) PROVE BoundInv'
  BY <1>4, WritesAssumption, TextAssumption DEF OpenTmp, OpenFile, Step
<1>5. ASSUME NEW p \in Procs, FillTmp(p) PROVE BoundInv'
  BY <1>5, WritesAssumption, TextAssumption DEF FillTmp, FillFile, Over, Step
<1>6. ASSUME NEW p \in Procs, Rename(p) PROVE BoundInv'
  BY <1>6, WritesAssumption, TextAssumption DEF Rename, Moved, Vouched, Step
<1>7. ASSUME NEW p \in Procs, WriteFails(p) PROVE BoundInv'
  BY <1>7, WritesAssumption, TextAssumption DEF WriteFails, Gap, Step
<1>8. ASSUME NEW p \in Procs, Strip(p) PROVE BoundInv'
  BY <1>8, WritesAssumption, TextAssumption DEF Strip, Step
<1>9. ASSUME NEW p \in Procs, OpenCopy(p) PROVE BoundInv'
  BY <1>9, WritesAssumption, TextAssumption DEF OpenCopy, OpenFile, Step
<1>10. ASSUME NEW p \in Procs, FillCopy(p) PROVE BoundInv'
  BY <1>10, WritesAssumption, TextAssumption DEF FillCopy, FillFile, Over, Step
<1>11. ASSUME NEW p \in Procs, Syncconf(p) PROVE BoundInv'
  BY <1>11, WritesAssumption, TextAssumption DEF Syncconf, PeersPart, Step
<1>12. ASSUME NEW p \in Procs, Remove(p) PROVE BoundInv'
  BY <1>12, WritesAssumption, TextAssumption DEF Remove, Step
<1>13. ASSUME NEW p \in Procs, Down(p) PROVE BoundInv'
  BY <1>13, WritesAssumption, TextAssumption DEF Down, Step
<1>14. ASSUME NEW p \in Procs, Up(p) PROVE BoundInv'
  BY <1>14, WritesAssumption, TextAssumption DEF Up, SetPart, PeersPart, Step
<1>15. ASSUME NEW p \in Procs, LoadFails(p) PROVE BoundInv'
  BY <1>15, WritesAssumption, TextAssumption DEF LoadFails, Gap, Step
<1>16. CASE SyncerFlip
  BY <1>16, WritesAssumption, TextAssumption DEF SyncerFlip
<1>17. CASE InterfaceLost
  BY <1>17, WritesAssumption, TextAssumption DEF InterfaceLost, Gap
<1>18. CASE DaemonDies
  BY <1>18, WritesAssumption, TextAssumption DEF DaemonDies, Restart, Procs
<1>19. CASE HostDies
  BY <1>19, WritesAssumption, TextAssumption
     DEF HostDies, Restart, Procs, Last, Vouched, Known
<1>20. CASE UNCHANGED vars
  BY <1>20, WritesAssumption, TextAssumption DEF vars
<1> QED
  BY <1>1, <1>2, <1>3, <1>4, <1>5, <1>6, <1>7, <1>8, <1>9, <1>10, <1>11, <1>12,
     <1>13, <1>14, <1>15, <1>16, <1>17, <1>18, <1>19, <1>20
     DEF Next, WriteStep, LoadStep

\* Unless pushes have overlapped there is one.
LEMMA AloneStep == TypeOK /\ OpenInv /\ BoundInv /\ AloneInv /\ [Next]_vars => AloneInv'
<1> SUFFICES ASSUME TypeOK, OpenInv, BoundInv, AloneInv, [Next]_vars PROVE AloneInv'
  OBVIOUS
<1> USE
   DEF AloneInv, Carried, Pushing, BoundInv, Within, Newer, OpenInv, Live, Part, Snapshot,
       Version, TypeOK, PcStates, Writing, Loading, Names, Text, disk, back, own
<1>1. ASSUME NEW p \in Procs, Post(p) PROVE AloneInv'
  BY <1>1, WritesAssumption, TextAssumption
     DEF Post, UserPost, SetupPost, WireGuardSavePost, WireGuardRestorePost,
        WireGuardReloadPost, WireGuardRestartPost, Begin
<1>2. ASSUME NEW p \in Procs, ReadSettings(p) PROVE AloneInv'
  BY <1>2, WritesAssumption, TextAssumption DEF ReadSettings, MakesUp, Step
<1>3. ASSUME NEW p \in Procs, ReadPeers(p) PROVE AloneInv'
  BY <1>3, WritesAssumption, TextAssumption DEF ReadPeers, Step
<1>4. ASSUME NEW p \in Procs, OpenTmp(p) PROVE AloneInv'
  BY <1>4, WritesAssumption, TextAssumption DEF OpenTmp, OpenFile, Step
<1>5. ASSUME NEW p \in Procs, FillTmp(p) PROVE AloneInv'
  BY <1>5, WritesAssumption, TextAssumption DEF FillTmp, FillFile, Over, Step
<1>6. ASSUME NEW p \in Procs, Rename(p) PROVE AloneInv'
  BY <1>6, WritesAssumption, TextAssumption DEF Rename, Moved, Vouched, Step
<1>7. ASSUME NEW p \in Procs, WriteFails(p) PROVE AloneInv'
  BY <1>7, WritesAssumption, TextAssumption DEF WriteFails, Gap, Step
<1>8. ASSUME NEW p \in Procs, Strip(p) PROVE AloneInv'
  BY <1>8, WritesAssumption, TextAssumption DEF Strip, Step
<1>9. ASSUME NEW p \in Procs, OpenCopy(p) PROVE AloneInv'
  BY <1>9, WritesAssumption, TextAssumption DEF OpenCopy, OpenFile, Step
<1>10. ASSUME NEW p \in Procs, FillCopy(p) PROVE AloneInv'
  BY <1>10, WritesAssumption, TextAssumption DEF FillCopy, FillFile, Over, Step
<1>11. ASSUME NEW p \in Procs, Syncconf(p) PROVE AloneInv'
  BY <1>11, WritesAssumption, TextAssumption DEF Syncconf, PeersPart, Step
<1>12. ASSUME NEW p \in Procs, Remove(p) PROVE AloneInv'
  BY <1>12, WritesAssumption, TextAssumption DEF Remove, Step
<1>13. ASSUME NEW p \in Procs, Down(p) PROVE AloneInv'
  BY <1>13, WritesAssumption, TextAssumption DEF Down, Step
<1>14. ASSUME NEW p \in Procs, Up(p) PROVE AloneInv'
  BY <1>14, WritesAssumption, TextAssumption DEF Up, SetPart, PeersPart, Step
<1>15. ASSUME NEW p \in Procs, LoadFails(p) PROVE AloneInv'
  BY <1>15, WritesAssumption, TextAssumption DEF LoadFails, Gap, Step
<1>16. CASE SyncerFlip
  BY <1>16, WritesAssumption, TextAssumption DEF SyncerFlip
<1>17. CASE InterfaceLost
  BY <1>17, WritesAssumption, TextAssumption DEF InterfaceLost, Gap
<1>18. CASE DaemonDies
  BY <1>18, WritesAssumption, TextAssumption DEF DaemonDies, Restart, Procs
<1>19. CASE HostDies
  BY <1>19, WritesAssumption, TextAssumption
     DEF HostDies, Restart, Procs, Last, Vouched, Known
<1>20. CASE UNCHANGED vars
  BY <1>20, WritesAssumption, TextAssumption DEF vars
<1> QED
  BY <1>1, <1>2, <1>3, <1>4, <1>5, <1>6, <1>7, <1>8, <1>9, <1>10, <1>11, <1>12,
     <1>13, <1>14, <1>15, <1>16, <1>17, <1>18, <1>19, <1>20
     DEF Next, WriteStep, LoadStep

\* In the calm a push loads its own file.
LEMMA LoadInvStep == TypeOK /\ OpenInv /\ AloneInv /\ LoadInv /\ [Next]_vars => LoadInv'
<1> SUFFICES ASSUME TypeOK, OpenInv, AloneInv, LoadInv, [Next]_vars PROVE LoadInv'
  OBVIOUS
<1> USE
   DEF LoadInv, AloneInv, Calm, Carried, Pushing, OpenInv, TypeOK, PcStates, Writing, Loading,
       Names, Text, disk, back, own
<1>1. ASSUME NEW p \in Procs, Post(p) PROVE LoadInv'
  BY <1>1, WritesAssumption, TextAssumption
     DEF Post, UserPost, SetupPost, WireGuardSavePost, WireGuardRestorePost,
        WireGuardReloadPost, WireGuardRestartPost, Begin
<1>2. ASSUME NEW p \in Procs, ReadSettings(p) PROVE LoadInv'
  BY <1>2, WritesAssumption, TextAssumption DEF ReadSettings, MakesUp, Step
<1>3. ASSUME NEW p \in Procs, ReadPeers(p) PROVE LoadInv'
  BY <1>3, WritesAssumption, TextAssumption DEF ReadPeers, Step
<1>4. ASSUME NEW p \in Procs, OpenTmp(p) PROVE LoadInv'
  BY <1>4, WritesAssumption, TextAssumption DEF OpenTmp, OpenFile, Step
<1>5. ASSUME NEW p \in Procs, FillTmp(p) PROVE LoadInv'
  BY <1>5, WritesAssumption, TextAssumption DEF FillTmp, FillFile, Over, Step
<1>6. ASSUME NEW p \in Procs, Rename(p) PROVE LoadInv'
  BY <1>6, WritesAssumption, TextAssumption DEF Rename, Moved, Vouched, Step
<1>7. ASSUME NEW p \in Procs, WriteFails(p) PROVE LoadInv'
  BY <1>7, WritesAssumption, TextAssumption DEF WriteFails, Gap, Step
<1>8. ASSUME NEW p \in Procs, Strip(p) PROVE LoadInv'
  BY <1>8, WritesAssumption, TextAssumption DEF Strip, Step
<1>9. ASSUME NEW p \in Procs, OpenCopy(p) PROVE LoadInv'
  BY <1>9, WritesAssumption, TextAssumption DEF OpenCopy, OpenFile, Step
<1>10. ASSUME NEW p \in Procs, FillCopy(p) PROVE LoadInv'
  BY <1>10, WritesAssumption, TextAssumption DEF FillCopy, FillFile, Over, Step
<1>11. ASSUME NEW p \in Procs, Syncconf(p) PROVE LoadInv'
  BY <1>11, WritesAssumption, TextAssumption DEF Syncconf, PeersPart, Step
<1>12. ASSUME NEW p \in Procs, Remove(p) PROVE LoadInv'
  BY <1>12, WritesAssumption, TextAssumption DEF Remove, Step
<1>13. ASSUME NEW p \in Procs, Down(p) PROVE LoadInv'
  BY <1>13, WritesAssumption, TextAssumption DEF Down, Step
<1>14. ASSUME NEW p \in Procs, Up(p) PROVE LoadInv'
  BY <1>14, WritesAssumption, TextAssumption DEF Up, SetPart, PeersPart, Step
<1>15. ASSUME NEW p \in Procs, LoadFails(p) PROVE LoadInv'
  BY <1>15, WritesAssumption, TextAssumption DEF LoadFails, Gap, Step
<1>16. CASE SyncerFlip
  BY <1>16, WritesAssumption, TextAssumption DEF SyncerFlip
<1>17. CASE InterfaceLost
  BY <1>17, WritesAssumption, TextAssumption DEF InterfaceLost, Gap
<1>18. CASE DaemonDies
  BY <1>18, WritesAssumption, TextAssumption DEF DaemonDies, Restart, Procs
<1>19. CASE HostDies
  BY <1>19, WritesAssumption, TextAssumption
     DEF HostDies, Restart, Procs, Last, Vouched, Known
<1>20. CASE UNCHANGED vars
  BY <1>20, WritesAssumption, TextAssumption DEF vars
<1> QED
  BY <1>1, <1>2, <1>3, <1>4, <1>5, <1>6, <1>7, <1>8, <1>9, <1>10, <1>11, <1>12,
     <1>13, <1>14, <1>15, <1>16, <1>17, <1>18, <1>19, <1>20
     DEF Next, WriteStep, LoadStep

\* What a push is made of is the rows, or older rows whose successor waits.
LEMMA CleanStep == TypeOK /\ OpenInv /\ BoundInv /\ AloneInv /\ CleanInv /\ [Next]_vars => CleanInv'
<1> SUFFICES ASSUME TypeOK, OpenInv, BoundInv, AloneInv, CleanInv, [Next]_vars PROVE CleanInv'
  OBVIOUS
<1> USE
   DEF CleanInv, AloneInv, Pending, Carried, Pushing, Newer, Within, OpenInv, BoundInv,
       Snapshot, Version, Live, Part, TypeOK, PcStates, Writing, Loading, Names, Text, disk,
       back, own
<1>1. ASSUME NEW p \in Procs, Post(p) PROVE CleanInv'
  BY <1>1, WritesAssumption, TextAssumption
     DEF Post, UserPost, SetupPost, WireGuardSavePost, WireGuardRestorePost,
        WireGuardReloadPost, WireGuardRestartPost, Begin
<1>2. ASSUME NEW p \in Procs, ReadSettings(p) PROVE CleanInv'
  BY <1>2, WritesAssumption, TextAssumption DEF ReadSettings, MakesUp, Step
<1>3. ASSUME NEW p \in Procs, ReadPeers(p) PROVE CleanInv'
  BY <1>3, WritesAssumption, TextAssumption DEF ReadPeers, Step
<1>4. ASSUME NEW p \in Procs, OpenTmp(p) PROVE CleanInv'
  BY <1>4, WritesAssumption, TextAssumption DEF OpenTmp, OpenFile, Step
<1>5. ASSUME NEW p \in Procs, FillTmp(p) PROVE CleanInv'
  BY <1>5, WritesAssumption, TextAssumption DEF FillTmp, FillFile, Over, Step
<1>6. ASSUME NEW p \in Procs, Rename(p) PROVE CleanInv'
  BY <1>6, WritesAssumption, TextAssumption DEF Rename, Moved, Vouched, Step
<1>7. ASSUME NEW p \in Procs, WriteFails(p) PROVE CleanInv'
  BY <1>7, WritesAssumption, TextAssumption DEF WriteFails, Gap, Step
<1>8. ASSUME NEW p \in Procs, Strip(p) PROVE CleanInv'
  BY <1>8, WritesAssumption, TextAssumption DEF Strip, Step
<1>9. ASSUME NEW p \in Procs, OpenCopy(p) PROVE CleanInv'
  BY <1>9, WritesAssumption, TextAssumption DEF OpenCopy, OpenFile, Step
<1>10. ASSUME NEW p \in Procs, FillCopy(p) PROVE CleanInv'
  BY <1>10, WritesAssumption, TextAssumption DEF FillCopy, FillFile, Over, Step
<1>11. ASSUME NEW p \in Procs, Syncconf(p) PROVE CleanInv'
  BY <1>11, WritesAssumption, TextAssumption DEF Syncconf, PeersPart, Step
<1>12. ASSUME NEW p \in Procs, Remove(p) PROVE CleanInv'
  BY <1>12, WritesAssumption, TextAssumption DEF Remove, Step
<1>13. ASSUME NEW p \in Procs, Down(p) PROVE CleanInv'
  BY <1>13, WritesAssumption, TextAssumption DEF Down, Step
<1>14. ASSUME NEW p \in Procs, Up(p) PROVE CleanInv'
  BY <1>14, WritesAssumption, TextAssumption DEF Up, SetPart, PeersPart, Step
<1>15. ASSUME NEW p \in Procs, LoadFails(p) PROVE CleanInv'
  BY <1>15, WritesAssumption, TextAssumption DEF LoadFails, Gap, Step
<1>16. CASE SyncerFlip
  BY <1>16, WritesAssumption, TextAssumption DEF SyncerFlip
<1>17. CASE InterfaceLost
  BY <1>17, WritesAssumption, TextAssumption DEF InterfaceLost, Gap
<1>18. CASE DaemonDies
  BY <1>18, WritesAssumption, TextAssumption DEF DaemonDies, Restart, Procs
<1>19. CASE HostDies
  BY <1>19, WritesAssumption, TextAssumption
     DEF HostDies, Restart, Procs, Last, Vouched, Known
<1>20. CASE UNCHANGED vars
  BY <1>20, WritesAssumption, TextAssumption DEF vars
<1> QED
  BY <1>1, <1>2, <1>3, <1>4, <1>5, <1>6, <1>7, <1>8, <1>9, <1>10, <1>11, <1>12,
     <1>13, <1>14, <1>15, <1>16, <1>17, <1>18, <1>19, <1>20
     DEF Next, WriteStep, LoadStep

\* Settings that nobody doubts are in the interface or on the way there.
LEMMA SettingsStep ==
    TypeOK /\ OpenInv /\ BoundInv /\ AloneInv /\ CleanInv /\ SettingsInv /\ [Next]_vars
        => SettingsInv'
<1> SUFFICES ASSUME TypeOK, OpenInv, BoundInv, AloneInv, CleanInv, SettingsInv, [Next]_vars
             PROVE SettingsInv'
  OBVIOUS
<1> USE
   DEF SettingsInv, Restarting, AloneInv, CleanInv, Pending, Carried, Pushing, Newer,
       Within, OpenInv, BoundInv, Snapshot, Version, Live, Part, TypeOK, PcStates, Writing,
       Loading, Names, Text, disk, back, own
<1>1. ASSUME NEW p \in Procs, Post(p) PROVE SettingsInv'
  BY <1>1, WritesAssumption, TextAssumption
     DEF Post, UserPost, SetupPost, WireGuardSavePost, WireGuardRestorePost,
        WireGuardReloadPost, WireGuardRestartPost, Begin
<1>2. ASSUME NEW p \in Procs, ReadSettings(p) PROVE SettingsInv'
  BY <1>2, WritesAssumption, TextAssumption DEF ReadSettings, MakesUp, Step
<1>3. ASSUME NEW p \in Procs, ReadPeers(p) PROVE SettingsInv'
  BY <1>3, WritesAssumption, TextAssumption DEF ReadPeers, Step
<1>4. ASSUME NEW p \in Procs, OpenTmp(p) PROVE SettingsInv'
  BY <1>4, WritesAssumption, TextAssumption DEF OpenTmp, OpenFile, Step
<1>5. ASSUME NEW p \in Procs, FillTmp(p) PROVE SettingsInv'
  BY <1>5, WritesAssumption, TextAssumption DEF FillTmp, FillFile, Over, Step
<1>6. ASSUME NEW p \in Procs, Rename(p) PROVE SettingsInv'
  BY <1>6, WritesAssumption, TextAssumption DEF Rename, Moved, Vouched, Step
<1>7. ASSUME NEW p \in Procs, WriteFails(p) PROVE SettingsInv'
  BY <1>7, WritesAssumption, TextAssumption DEF WriteFails, Gap, Step
<1>8. ASSUME NEW p \in Procs, Strip(p) PROVE SettingsInv'
  BY <1>8, WritesAssumption, TextAssumption DEF Strip, Step
<1>9. ASSUME NEW p \in Procs, OpenCopy(p) PROVE SettingsInv'
  BY <1>9, WritesAssumption, TextAssumption DEF OpenCopy, OpenFile, Step
<1>10. ASSUME NEW p \in Procs, FillCopy(p) PROVE SettingsInv'
  BY <1>10, WritesAssumption, TextAssumption DEF FillCopy, FillFile, Over, Step
<1>11. ASSUME NEW p \in Procs, Syncconf(p) PROVE SettingsInv'
  BY <1>11, WritesAssumption, TextAssumption DEF Syncconf, PeersPart, Step
<1>12. ASSUME NEW p \in Procs, Remove(p) PROVE SettingsInv'
  BY <1>12, WritesAssumption, TextAssumption DEF Remove, Step
<1>13. ASSUME NEW p \in Procs, Down(p) PROVE SettingsInv'
  BY <1>13, WritesAssumption, TextAssumption DEF Down, Step
<1>14. ASSUME NEW p \in Procs, Up(p) PROVE SettingsInv'
  BY <1>14, WritesAssumption, TextAssumption DEF Up, SetPart, PeersPart, Step
<1>15. ASSUME NEW p \in Procs, LoadFails(p) PROVE SettingsInv'
  BY <1>15, WritesAssumption, TextAssumption DEF LoadFails, Gap, Step
<1>16. CASE SyncerFlip
  BY <1>16, WritesAssumption, TextAssumption DEF SyncerFlip
<1>17. CASE InterfaceLost
  BY <1>17, WritesAssumption, TextAssumption DEF InterfaceLost, Gap
<1>18. CASE DaemonDies
  BY <1>18, WritesAssumption, TextAssumption DEF DaemonDies, Restart, Procs
<1>19. CASE HostDies
  BY <1>19, WritesAssumption, TextAssumption
     DEF HostDies, Restart, Procs, Last, Vouched, Known
<1>20. CASE UNCHANGED vars
  BY <1>20, WritesAssumption, TextAssumption DEF vars
<1> QED
  BY <1>1, <1>2, <1>3, <1>4, <1>5, <1>6, <1>7, <1>8, <1>9, <1>10, <1>11, <1>12,
     <1>13, <1>14, <1>15, <1>16, <1>17, <1>18, <1>19, <1>20
     DEF Next, WriteStep, LoadStep

\* The last push has made file and interface what the rows say.
LEMMA InSyncStep ==
    TypeOK /\ OpenInv /\ BoundInv /\ AloneInv /\ CleanInv /\ SettingsInv /\ InSync /\ [Next]_vars
        => InSync'
<1> SUFFICES ASSUME TypeOK, OpenInv, BoundInv, AloneInv, CleanInv, SettingsInv, InSync, [Next]_vars
             PROVE InSync'
  OBVIOUS
<1> USE
   DEF InSync, Quiet, SettingsInv, Restarting, AloneInv, CleanInv, Pending, Carried,
       Pushing, Newer, Within, OpenInv, BoundInv, Snapshot, Version, Live, Part, TypeOK,
       PcStates, Writing, Loading, Names, Text, disk, back, own
<1>1. ASSUME NEW p \in Procs, Post(p) PROVE InSync'
  BY <1>1, WritesAssumption, TextAssumption
     DEF Post, UserPost, SetupPost, WireGuardSavePost, WireGuardRestorePost,
        WireGuardReloadPost, WireGuardRestartPost, Begin
<1>2. ASSUME NEW p \in Procs, ReadSettings(p) PROVE InSync'
  BY <1>2, WritesAssumption, TextAssumption DEF ReadSettings, MakesUp, Step
<1>3. ASSUME NEW p \in Procs, ReadPeers(p) PROVE InSync'
  BY <1>3, WritesAssumption, TextAssumption DEF ReadPeers, Step
<1>4. ASSUME NEW p \in Procs, OpenTmp(p) PROVE InSync'
  BY <1>4, WritesAssumption, TextAssumption DEF OpenTmp, OpenFile, Step
<1>5. ASSUME NEW p \in Procs, FillTmp(p) PROVE InSync'
  BY <1>5, WritesAssumption, TextAssumption DEF FillTmp, FillFile, Over, Step
<1>6. ASSUME NEW p \in Procs, Rename(p) PROVE InSync'
  BY <1>6, WritesAssumption, TextAssumption DEF Rename, Moved, Vouched, Step
<1>7. ASSUME NEW p \in Procs, WriteFails(p) PROVE InSync'
  BY <1>7, WritesAssumption, TextAssumption DEF WriteFails, Gap, Step
<1>8. ASSUME NEW p \in Procs, Strip(p) PROVE InSync'
  BY <1>8, WritesAssumption, TextAssumption DEF Strip, Step
<1>9. ASSUME NEW p \in Procs, OpenCopy(p) PROVE InSync'
  BY <1>9, WritesAssumption, TextAssumption DEF OpenCopy, OpenFile, Step
<1>10. ASSUME NEW p \in Procs, FillCopy(p) PROVE InSync'
  BY <1>10, WritesAssumption, TextAssumption DEF FillCopy, FillFile, Over, Step
<1>11. ASSUME NEW p \in Procs, Syncconf(p) PROVE InSync'
  BY <1>11, WritesAssumption, TextAssumption DEF Syncconf, PeersPart, Step
<1>12. ASSUME NEW p \in Procs, Remove(p) PROVE InSync'
  BY <1>12, WritesAssumption, TextAssumption DEF Remove, Step
<1>13. ASSUME NEW p \in Procs, Down(p) PROVE InSync'
  BY <1>13, WritesAssumption, TextAssumption DEF Down, Step
<1>14. ASSUME NEW p \in Procs, Up(p) PROVE InSync'
  BY <1>14, WritesAssumption, TextAssumption DEF Up, SetPart, PeersPart, Step
<1>15. ASSUME NEW p \in Procs, LoadFails(p) PROVE InSync'
  BY <1>15, WritesAssumption, TextAssumption DEF LoadFails, Gap, Step
<1>16. CASE SyncerFlip
  BY <1>16, WritesAssumption, TextAssumption DEF SyncerFlip
<1>17. CASE InterfaceLost
  BY <1>17, WritesAssumption, TextAssumption DEF InterfaceLost, Gap
<1>18. CASE DaemonDies
  BY <1>18, WritesAssumption, TextAssumption DEF DaemonDies, Restart, Procs
<1>19. CASE HostDies
  BY <1>19, WritesAssumption, TextAssumption
     DEF HostDies, Restart, Procs, Last, Vouched, Known
<1>20. CASE UNCHANGED vars
  BY <1>20, WritesAssumption, TextAssumption DEF vars
<1> QED
  BY <1>1, <1>2, <1>3, <1>4, <1>5, <1>6, <1>7, <1>8, <1>9, <1>10, <1>11, <1>12,
     <1>13, <1>14, <1>15, <1>16, <1>17, <1>18, <1>19, <1>20
     DEF Next, WriteStep, LoadStep

\* A push takes neither file nor interface back.
LEMMA ForwardStep == TypeOK /\ OpenInv /\ BoundInv /\ AloneInv /\ [Next]_vars => NoStepBack
<1> SUFFICES ASSUME TypeOK, OpenInv, BoundInv, AloneInv, [Next]_vars PROVE NoStepBack
  OBVIOUS
<1> USE
   DEF NoStepBack, AloneInv, Carried, Pushing, Newer, Within, OpenInv, BoundInv, Snapshot,
       Version, Live, Part, TypeOK, PcStates, Writing, Loading, Names, Text, disk, back, own,
       Back, Last
<1>1. ASSUME NEW p \in Procs, Post(p) PROVE NoStepBack
  BY <1>1, WritesAssumption, TextAssumption
     DEF Post, UserPost, SetupPost, WireGuardSavePost, WireGuardRestorePost,
        WireGuardReloadPost, WireGuardRestartPost, Begin
<1>2. ASSUME NEW p \in Procs, ReadSettings(p) PROVE NoStepBack
  BY <1>2, WritesAssumption, TextAssumption DEF ReadSettings, MakesUp, Step
<1>3. ASSUME NEW p \in Procs, ReadPeers(p) PROVE NoStepBack
  BY <1>3, WritesAssumption, TextAssumption DEF ReadPeers, Step
<1>4. ASSUME NEW p \in Procs, OpenTmp(p) PROVE NoStepBack
  BY <1>4, WritesAssumption, TextAssumption DEF OpenTmp, OpenFile, Step
<1>5. ASSUME NEW p \in Procs, FillTmp(p) PROVE NoStepBack
  BY <1>5, WritesAssumption, TextAssumption DEF FillTmp, FillFile, Over, Step
<1>6. ASSUME NEW p \in Procs, Rename(p) PROVE NoStepBack
  BY <1>6, WritesAssumption, TextAssumption DEF Rename, Moved, Vouched, Step
<1>7. ASSUME NEW p \in Procs, WriteFails(p) PROVE NoStepBack
  BY <1>7, WritesAssumption, TextAssumption DEF WriteFails, Gap, Step
<1>8. ASSUME NEW p \in Procs, Strip(p) PROVE NoStepBack
  BY <1>8, WritesAssumption, TextAssumption DEF Strip, Step
<1>9. ASSUME NEW p \in Procs, OpenCopy(p) PROVE NoStepBack
  BY <1>9, WritesAssumption, TextAssumption DEF OpenCopy, OpenFile, Step
<1>10. ASSUME NEW p \in Procs, FillCopy(p) PROVE NoStepBack
  BY <1>10, WritesAssumption, TextAssumption DEF FillCopy, FillFile, Over, Step
<1>11. ASSUME NEW p \in Procs, Syncconf(p) PROVE NoStepBack
  BY <1>11, WritesAssumption, TextAssumption DEF Syncconf, PeersPart, Step
<1>12. ASSUME NEW p \in Procs, Remove(p) PROVE NoStepBack
  BY <1>12, WritesAssumption, TextAssumption DEF Remove, Step
<1>13. ASSUME NEW p \in Procs, Down(p) PROVE NoStepBack
  BY <1>13, WritesAssumption, TextAssumption DEF Down, Step
<1>14. ASSUME NEW p \in Procs, Up(p) PROVE NoStepBack
  BY <1>14, WritesAssumption, TextAssumption DEF Up, SetPart, PeersPart, Step
<1>15. ASSUME NEW p \in Procs, LoadFails(p) PROVE NoStepBack
  BY <1>15, WritesAssumption, TextAssumption DEF LoadFails, Gap, Step
<1>16. CASE SyncerFlip
  BY <1>16, WritesAssumption, TextAssumption DEF SyncerFlip
<1>17. CASE InterfaceLost
  BY <1>17, WritesAssumption, TextAssumption DEF InterfaceLost, Gap
<1>18. CASE DaemonDies
  BY <1>18, WritesAssumption, TextAssumption DEF DaemonDies, Restart, Procs
<1>19. CASE HostDies
  <2>1. live' = NULL /\ was' = IF file' = file THEN was ELSE Last
    BY <1>19 DEF HostDies
  <2>2. NULL \notin Snapshot /\ \A t \in Snapshot : Newer(t, t)
    BY TextAssumption, WritesAssumption
  <2> HIDE DEF Snapshot, Newer, TypeOK
  <2>3. CASE file' = file
    BY <2>1, <2>2, <2>3
  <2>4. CASE file' # file
    BY <2>1, <2>2, <2>4
  <2> QED
    BY <2>3, <2>4
<1>20. CASE UNCHANGED vars
  BY <1>20, WritesAssumption, TextAssumption DEF vars
<1> QED
  BY <1>1, <1>2, <1>3, <1>4, <1>5, <1>6, <1>7, <1>8, <1>9, <1>10, <1>11, <1>12,
     <1>13, <1>14, <1>15, <1>16, <1>17, <1>18, <1>19, <1>20
     DEF Next, WriteStep, LoadStep

\* Every step is one of Push, or leaves all it speaks of alone.
LEMMA PushStep ==
    TypeOK /\ OpenInv /\ WholeInv /\ BoundInv /\ AloneInv /\ LoadInv /\ [Next]_vars
        => [Pushes!Next]_(Pushes!vars)
<1> SUFFICES ASSUME TypeOK, OpenInv, WholeInv, BoundInv, AloneInv, LoadInv, [Next]_vars PROVE [Pushes!Next]_(Pushes!vars)
  OBVIOUS
<1> USE
   DEF Pushes!Next, Pushes!vars, Pushes!Change, Pushes!Write, Pushes!Load, Pushes!Up,
       Pushes!Down, Pushes!Crash, Pushes!Trouble, Pushes!Troubled, Pushes!Settle,
       Pushes!Rows, Pushes!Newer,
       LoadInv, AloneInv, Calm, Carried, Pushing, BoundInv, Within, Newer, OpenInv, Live,
       Part, Snapshot, Version, TypeOK, PcStates, Writing, Loading, Names, Text, disk, back, own,
       Last
<1>1. ASSUME NEW p \in Procs, Post(p) PROVE [Pushes!Next]_(Pushes!vars)
  BY <1>1, WritesAssumption, TextAssumption
     DEF Post, UserPost, SetupPost, WireGuardSavePost, WireGuardRestorePost,
        WireGuardReloadPost, WireGuardRestartPost, Begin
<1>2. ASSUME NEW p \in Procs, ReadSettings(p) PROVE [Pushes!Next]_(Pushes!vars)
  BY <1>2, WritesAssumption, TextAssumption DEF ReadSettings, MakesUp, Step
<1>3. ASSUME NEW p \in Procs, ReadPeers(p) PROVE [Pushes!Next]_(Pushes!vars)
  BY <1>3, WritesAssumption, TextAssumption DEF ReadPeers, Step
<1>4. ASSUME NEW p \in Procs, OpenTmp(p) PROVE [Pushes!Next]_(Pushes!vars)
  BY <1>4, WritesAssumption, TextAssumption DEF OpenTmp, OpenFile, Step
<1>5. ASSUME NEW p \in Procs, FillTmp(p) PROVE [Pushes!Next]_(Pushes!vars)
  BY <1>5, WritesAssumption, TextAssumption DEF FillTmp, FillFile, Over, Step
<1>6. ASSUME NEW p \in Procs, Rename(p) PROVE [Pushes!Next]_(Pushes!vars)
  BY <1>6, WritesAssumption, TextAssumption DEF Rename, Moved, Vouched, Step
<1>7. ASSUME NEW p \in Procs, WriteFails(p) PROVE [Pushes!Next]_(Pushes!vars)
  <2>1. /\ missed' = missed \cup {"failure", "settings"}
        /\ UNCHANGED <<db, live, was>>
    BY <1>7 DEF WriteFails, Gap
  <2>2. ~(missed' \cap {"overlap", "failure"} = {})
    BY <2>1, Zenon
  <2>3. CASE missed \cap {"overlap", "failure"} = {}
    <3>1. file'["conf"] = file["conf"]
      BY <1>7, <2>3, TextAssumption DEF WriteFails
    <3> QED
      BY <2>1, <2>2, <2>3, <3>1
  <2>4. CASE ~(missed \cap {"overlap", "failure"} = {})
    BY <2>1, <2>2, <2>4
  <2> QED
    BY <2>3, <2>4
<1>8. ASSUME NEW p \in Procs, Strip(p) PROVE [Pushes!Next]_(Pushes!vars)
  BY <1>8, WritesAssumption, TextAssumption DEF Strip, Step
<1>9. ASSUME NEW p \in Procs, OpenCopy(p) PROVE [Pushes!Next]_(Pushes!vars)
  BY <1>9, WritesAssumption, TextAssumption DEF OpenCopy, OpenFile, Step
<1>10. ASSUME NEW p \in Procs, FillCopy(p) PROVE [Pushes!Next]_(Pushes!vars)
  BY <1>10, WritesAssumption, TextAssumption DEF FillCopy, FillFile, Over, Step
<1>11. ASSUME NEW p \in Procs, Syncconf(p) PROVE [Pushes!Next]_(Pushes!vars)
  BY <1>11, WritesAssumption, TextAssumption DEF Syncconf, PeersPart, Step
<1>12. ASSUME NEW p \in Procs, Remove(p) PROVE [Pushes!Next]_(Pushes!vars)
  BY <1>12, WritesAssumption, TextAssumption DEF Remove, Step
<1>13. ASSUME NEW p \in Procs, Down(p) PROVE [Pushes!Next]_(Pushes!vars)
  BY <1>13, WritesAssumption, TextAssumption DEF Down, Step
<1>14. ASSUME NEW p \in Procs, Up(p) PROVE [Pushes!Next]_(Pushes!vars)
  BY <1>14, WritesAssumption, TextAssumption DEF Up, SetPart, PeersPart, Step
<1>15. ASSUME NEW p \in Procs, LoadFails(p) PROVE [Pushes!Next]_(Pushes!vars)
  BY <1>15, WritesAssumption, TextAssumption DEF LoadFails, Gap, Step
<1>16. CASE SyncerFlip
  BY <1>16, WritesAssumption, TextAssumption DEF SyncerFlip
<1>17. CASE InterfaceLost
  BY <1>17, WritesAssumption, TextAssumption DEF InterfaceLost, Gap
<1>18. CASE DaemonDies
  BY <1>18, WritesAssumption, TextAssumption DEF DaemonDies, Restart, Procs
<1>19. CASE HostDies
  <2>1. /\ live' = NULL /\ db' = db /\ missed' = missed \union {"settings"}
        /\ was' = IF file' = file THEN was ELSE Last
    BY <1>19 DEF HostDies, Restart
  <2>2. {file["conf"], kept} \subseteq Snapshot \union {Empty, Torn, NULL}
    OBVIOUS
  <2>3. file'["conf"] \in {file["conf"], kept, Empty, Torn} \union Known
    BY <1>19 DEF HostDies, Known
  <2>4. file'["conf"] \in Snapshot \union {Empty, Torn, NULL}
    BY <2>2, <2>3 DEF Known
  <2>5. file'["conf"] \in Snapshot => Newer(db, file'["conf"])
    BY <2>3, TextAssumption DEF Known
  <2>6. Last' = Last
    <3>1. CASE Last = NULL
      <4>1. file["conf"] = NULL /\ kept = NULL
        BY <3>1 DEF WholeInv
      <4>2. file'["conf"] = NULL
        BY <1>19, <4>1, TextAssumption DEF HostDies
      <4> QED
        BY <2>1, <3>1, <4>1, <4>2
    <3>2. CASE Last # NULL
      BY <2>1, <3>2
    <3> QED
      BY <3>1, <3>2
  <2>7. Calm' <=> Calm
    <3>1. Calm <=> "overlap" \notin missed /\ "failure" \notin missed
      OBVIOUS
    <3>2. Calm' <=> "overlap" \notin missed' /\ "failure" \notin missed'
      OBVIOUS
    <3> QED
      BY <2>1, <3>1, <3>2
  <2>8. CASE Calm
    <3>1. Pushes!Crash
      BY <2>1, <2>4, <2>5, <2>6, <2>7, <2>8
    <3> QED
      BY <2>8, <3>1
  <2>9. CASE ~Calm
    <3>1. db' \in Snapshot /\ Newer(db', db)
      BY <2>1, WritesAssumption
    <3>2. Pushes!Troubled
      BY <2>7, <2>9, <3>1
    <3> QED
      BY <3>2
  <2> QED
    BY <2>8, <2>9
<1>20. CASE UNCHANGED vars
  BY <1>20, WritesAssumption, TextAssumption DEF vars
<1> QED
  BY <1>1, <1>2, <1>3, <1>4, <1>5, <1>6, <1>7, <1>8, <1>9, <1>10, <1>11, <1>12,
     <1>13, <1>14, <1>15, <1>16, <1>17, <1>18, <1>19, <1>20
     DEF Next, WriteStep, LoadStep

\* The daemon starts without files, interface or changes of rows.
LEMMA InitInv == Init => IInv
<1> SUFFICES ASSUME Init PROVE IInv
  OBVIOUS
<1> USE TextAssumption, WritesAssumption DEF Init, NoRows, Procs
<1>1. TypeOK
  BY DEF TypeOK, PcStates, Modes, Names, Reasons, Text, Snapshot, Version
<1>2. OpenInv /\ WholeInv
  BY DEF OpenInv, WholeInv, Names, Writing, Loading
<1>3. BoundInv
  BY DEF BoundInv, Within, Names, Text, Snapshot, Version, Newer
<1>4. AloneInv /\ LoadInv /\ CleanInv /\ SettingsInv /\ InSync
  BY DEF AloneInv, LoadInv, Calm, CleanInv, SettingsInv, InSync, Pushing, Writing, Loading
<1> QED
  BY <1>1, <1>2, <1>3, <1>4 DEF IInv

\* Every step keeps the invariant.
LEMMA NextInv == IInv /\ [Next]_vars => IInv'
<1> SUFFICES ASSUME IInv, [Next]_vars PROVE IInv'
  OBVIOUS
<1>1. TypeOK' /\ OpenInv' /\ WholeInv'
  BY TypeStep, OpenStep, WholeStep DEF IInv
<1>2. BoundInv' /\ AloneInv' /\ LoadInv' /\ CleanInv'
  BY BoundStep, AloneStep, LoadInvStep, CleanStep DEF IInv
<1>3. SettingsInv' /\ InSync'
  BY SettingsStep, InSyncStep DEF IInv
<1> QED
  BY <1>1, <1>2, <1>3 DEF IInv

\* The inductive invariant holds in every behaviour.
THEOREM Invariance == Spec => []IInv
<1> QED
  BY InitInv, NextInv, PTL DEF Spec

-----------------------------------------------------------------------------
\* The state is well typed, however many requests push and whatever fails.
THEOREM TypeCorrect == Spec => []TypeOK
<1>1. IInv => TypeOK
  BY DEF IInv
<1> QED
  BY <1>1, Invariance, PTL

\* wg0.conf is the whole text of one push, also when a stop of the host has undone a
\* rename, unless pushes met or the stop took text that was never synced.
THEOREM FileIsWhole == Spec => []WholeFile
<1>1. IInv => WholeFile
  BY DEF IInv, WholeInv, WholeFile
<1> QED
  BY <1>1, Invariance, PTL

\* When pushes have ended and no gap has opened, file and interface are what
\* the rows say.
THEOREM FollowsRows == Spec => []InSync
<1>1. IInv => InSync
  BY DEF IInv
<1> QED
  BY <1>1, Invariance, PTL

\* A push that meets no other and does not fail never brings old rows back; a stop of
\* the host may, to wg0.conf, and the push that follows it writes none older than
\* those it took.
THEOREM GoesForward == Spec => Forward
<1>1. IInv /\ [Next]_vars => NoStepBack
  BY ForwardStep DEF IInv
<1> QED
  BY <1>1, Invariance, PTL DEF Spec, Forward

\* Pushes, with their temporary files, copies, crashes and failures, implement
\* the pushes of Push: in the calm each push writes rows no older than the last one
\* did, and the interface gets the rows written last, even when a stop of the host
\* has brought an older wg0.conf back.
THEOREM ImplementsPush == Spec => PushSpec
<1>1. Init => Pushes!Init
  BY TextAssumption DEF Init, Pushes!Init, NoRows, Names, Last
<1>2. IInv /\ [Next]_vars => [Pushes!Next]_(Pushes!vars)
  BY PushStep DEF IInv
<1> QED
  BY <1>1, <1>2, Invariance, PTL DEF Spec, PushSpec, Pushes!Spec
=============================================================================
