---------------------------- MODULE BackupProofs ----------------------------
(***************************************************************************)
(* Theorems about backups.  A request that nobody has written beside knows *)
(* which part of its file is, or has been made, what the database says:    *)
(* Copied(p) says it for an export and Rebuilt(p) for a restore.           *)
(* Then: where key pairs come apart, and that it is nowhere else.          *)
(***************************************************************************)
EXTENDS Backup, TLAPS

Restoring == {"settings", "server", "tables", "regroup", "members"}

\* What a finished backup is: its memberships and presets are those of its groups.
Whole(f) ==
    /\ f.settings # NULL /\ f.key # NULL
    /\ \A m \in f.member : m[1] \in f.groups
    /\ \A g \in Groups \ f.groups : f.preset[g] = NULL

FileInv ==
    /\ shelf.settings # NULL => Whole(shelf)
    /\ \A p \in Requests :
          /\ pc[p] \in Restoring \union {"presets"} => Whole(file[p])
          /\ pc[p] \in {"key", "peers", "groups"} =>
                /\ file[p].settings # NULL /\ file[p].preset = Blank.preset
          /\ pc[p] \in {"peers", "groups"} => file[p].key # NULL
          /\ pc[p] \in {"presets", "regroup", "members"} => job[p].todo \subseteq file[p].groups
          /\ pc[p] = "members" =>
                /\ job[p].at \in file[p].groups \ job[p].todo
                /\ \A u \in job[p].links : <<job[p].at, u>> \in file[p].member

\* What p has read is what the database says.
Copied(p) ==
    /\ pc[p] \in {"key", "peers", "groups", "presets"} => file[p].settings = settings
    /\ pc[p] \in {"peers", "groups", "presets"} => file[p].key = key
    /\ pc[p] \in {"groups", "presets"} => file[p].peer = peer
    /\ pc[p] = "presets" =>
          /\ file[p].groups = groups /\ file[p].member = member
          /\ \A g \in Groups \ job[p].todo : file[p].preset[g] = preset[g]

\* The rows of a group that p has still to write.
AtMember(p, m) == pc[p] = "members" /\ m[1] = job[p].at /\ m[2] \in job[p].links
AtPreset(p, g) == pc[p] = "members" /\ g = job[p].at

\* What p has written is what its file says, and what it was to replace is gone.
Rebuilt(p) ==
    /\ pc[p] \in {"server", "tables", "regroup", "members"} => settings = file[p].settings
    /\ pc[p] \in {"tables", "regroup", "members"} => key = file[p].key
    /\ pc[p] \in {"regroup", "members"} =>
          /\ \A u \in Names : file[p].peer[u] # NULL => Back(u, file[p].peer[u])
          /\ "peers" \in opts[p] => peer = file[p].peer
          /\ file[p].groups \ job[p].todo \subseteq groups
          /\ \A m \in file[p].member :
                m[2] \in Accounts /\ m[1] \notin job[p].todo /\ ~AtMember(p, m) => m \in member
          /\ opts[p] # {} => member \subseteq file[p].member
          /\ \A g \in file[p].groups \ job[p].todo :
                file[p].preset[g] # NULL /\ ~AtPreset(p, g) => preset[g] = file[p].preset[g]
          /\ "groups" \in opts[p] =>
                /\ groups \subseteq file[p].groups
                /\ \A g \in Groups : preset[g] \in {NULL, file[p].preset[g]}

AloneInv == \A p \in alone : Copied(p) /\ Rebuilt(p)

IInv == TypeOK /\ FileInv /\ AloneInv

-----------------------------------------------------------------------------
\* A blank file is one.
LEMMA BlankIsFile == Blank \in Files /\ NoJob \in Jobs
BY DEF Blank, Files, NoJob, Jobs, Row

\* An account of a file that is restored is there, and none that is kept goes.
LEMMA UpsertIsRow ==
  ASSUME NEW old \in Row \union {NULL}, NEW new \in Row \union {NULL}
  PROVE  /\ Upsert(old, new) \in Row \union {NULL}
         /\ old # NULL => Upsert(old, new) # NULL
         /\ new # NULL => /\ Upsert(old, new) # NULL /\ Upsert(old, new).pub = new.pub
                          /\ new.priv # NULL => Upsert(old, new).priv = new.priv
         /\ Upsert(NULL, new) = new
<1>1. CASE new = NULL \/ old = NULL
  BY <1>1 DEF Upsert
<1>2. CASE new \in Row /\ old \in Row
  <2> DEFINE merged == [new EXCEPT !.priv = old.priv]
  <2>1. merged \in Row /\ merged.pub = new.pub
    <3>1. old.priv \in Keys \union {NULL}
      BY <1>2 DEF Row
    <3> QED
      BY <1>2, <3>1 DEF Row
  <2>2. Upsert(old, new) \in Row /\ Upsert(old, new).pub = new.pub
    <3>1. CASE new.priv # NULL
      BY <1>2, <3>1, NullAssumption DEF Upsert
    <3>2. CASE new.priv = NULL
      <4>1. Upsert(old, new) = merged
        BY <1>2, <3>2, NullAssumption DEF Upsert
      <4> QED
        BY <2>1, <4>1
    <3> QED
      BY <3>1, <3>2
  <2>3. new.priv # NULL => Upsert(old, new) = new
    BY <1>2, NullAssumption DEF Upsert
  <2>4. Upsert(NULL, new) = new /\ Upsert(old, new) # NULL
    BY <2>2, NullAssumption DEF Upsert
  <2> QED
    BY <2>2, <2>3, <2>4
<1> QED
  BY <1>1, <1>2

\* A job of which less is to be done is one.
LEMMA ShorterJob ==
  ASSUME NEW j \in Jobs, NEW s
  PROVE  [j EXCEPT !.todo = j.todo \ s] \in Jobs /\ [j EXCEPT !.links = j.links \ s] \in Jobs
BY DEF Jobs

\* Every action keeps the types and the foreign keys.
LEMMA TypeStep == TypeOK /\ FileInv /\ [Next]_vars => TypeOK'
<1> SUFFICES ASSUME TypeOK, FileInv, [Next]_vars PROVE TypeOK'
  OBVIOUS
<1> USE DEF TypeOK, PcStates, Accounts, Files, Jobs, db, tables, local
<1>1. ASSUME NEW p \in Requests, ExportSettings(p)
      PROVE  TypeOK'
  <2>1. [Blank EXCEPT !.settings = settings] \in Files
    BY BlankIsFile
  <2>2. file' \in [Requests -> Files]
    BY <1>1, <2>1 DEF ExportSettings
  <2> QED
    BY <1>1, <2>2 DEF ExportSettings, Begin, Goto
<1>2. ASSUME NEW p \in Requests, ExportServer(p)
      PROVE  TypeOK'
  <2>1. [file[p] EXCEPT !.key = key] \in Files
    OBVIOUS
  <2>2. file' \in [Requests -> Files]
    BY <1>2, <2>1 DEF ExportServer
  <2> QED
    BY <1>2, <2>2 DEF ExportServer, Goto
<1>3. ASSUME NEW p \in Requests, ExportPeers(p)
      PROVE  TypeOK'
  <2>1. [file[p] EXCEPT !.peer = peer] \in Files
    OBVIOUS
  <2>2. file' \in [Requests -> Files]
    BY <1>3, <2>1 DEF ExportPeers
  <2> QED
    BY <1>3, <2>2 DEF ExportPeers, Goto
<1>4. ASSUME NEW p \in Requests, ExportGroups(p)
      PROVE  TypeOK'
  <2>1. /\ member \in SUBSET (Groups \X Names) /\ groups \in SUBSET Groups
        /\ file[p] \in Files /\ job[p] \in Jobs
    OBVIOUS
  <2>2. /\ file' = [file EXCEPT ![p].groups = groups, ![p].member = member]
        /\ job' = [job EXCEPT ![p].todo = groups]
    BY <1>4 DEF ExportGroups
  <2>3. file' \in [Requests -> Files] /\ job' \in [Requests -> Jobs]
    BY <2>1, <2>2
  <2> QED
    BY <1>4, <2>3 DEF ExportGroups, Goto
<1>5. ASSUME NEW p \in Requests, NEW g \in Groups, ExportPreset(p, g)
      PROVE  TypeOK'
  <2>1. [file[p].preset EXCEPT ![g] = preset[g]] \in [Groups -> Limits \union {NULL}]
    OBVIOUS
  <2>2. [file[p] EXCEPT !.preset = [file[p].preset EXCEPT ![g] = preset[g]]] \in Files
    BY <2>1
  <2>3. file' \in [Requests -> Files]
    <3>1. file' = [file EXCEPT ![p] =
                     [file[p] EXCEPT !.preset = [file[p].preset EXCEPT ![g] = preset[g]]]]
      BY <1>5 DEF ExportPreset
    <3> QED
      BY <2>2, <3>1
  <2>4. job' \in [Requests -> Jobs]
    <3>1. [job[p] EXCEPT !.todo = job[p].todo \ {g}] \in Jobs
      BY ShorterJob
    <3>2. job' = [job EXCEPT ![p] = [job[p] EXCEPT !.todo = job[p].todo \ {g}]]
      BY <1>5 DEF ExportPreset
    <3> QED
      BY <3>1, <3>2
  <2> QED
    BY <1>5, <2>3, <2>4 DEF ExportPreset
<1>6. ASSUME NEW p \in Requests, Download(p)
      PROVE  TypeOK'
  BY <1>6, BlankIsFile DEF Download, Leave
<1>7. ASSUME NEW p \in Requests, NEW o \in SUBSET {"peers", "groups"}, RestorePost(p, o)
      PROVE  TypeOK'
  BY <1>7 DEF RestorePost, Begin, Goto
<1>8. ASSUME NEW p \in Requests, RestoreSettings(p)
      PROVE  TypeOK'
  BY <1>8 DEF RestoreSettings, Write, Goto, FileInv, Restoring, Whole
<1>9. ASSUME NEW p \in Requests, RestoreServer(p)
      PROVE  TypeOK'
  BY <1>9 DEF RestoreServer, Write, Goto, FileInv, Restoring, Whole
<1>10. ASSUME NEW p \in Requests, RestoreTables(p)
      PROVE  TypeOK'
  <2> DEFINE kept == IF "peers" \in opts[p] THEN Blank.peer ELSE peer
  <2>1. /\ kept \in [Names -> Row \union {NULL}] /\ file[p].peer \in [Names -> Row \union {NULL}]
        /\ peer' = [u \in Names |-> Upsert(kept[u], file[p].peer[u])]
    BY <1>10 DEF RestoreTables, Blank
  <2>2. peer' \in [Names -> Row \union {NULL}]
    <3>1. \A u \in Names : Upsert(kept[u], file[p].peer[u]) \in Row \union {NULL}
      <4> SUFFICES ASSUME NEW u \in Names
                   PROVE  Upsert(kept[u], file[p].peer[u]) \in Row \union {NULL}
        OBVIOUS
      <4>1. kept[u] \in Row \union {NULL} /\ file[p].peer[u] \in Row \union {NULL}
        BY <2>1
      <4> HIDE DEF kept
      <4> QED
        BY <4>1, UpsertIsRow
    <3> HIDE DEF kept
    <3> QED
      BY <2>1, <3>1
  <2>3. member' \subseteq groups' \X Accounts'
    <3>1. CASE opts[p] = {}
      <4>1. kept = peer /\ member' = member /\ groups' = groups
        BY <1>10, <3>1 DEF RestoreTables
      <4>2. Accounts \subseteq Accounts'
        BY <2>1, <4>1, UpsertIsRow
      <4> QED
        BY <4>1, <4>2
    <3>2. CASE opts[p] # {}
      BY <1>10, <3>2 DEF RestoreTables
    <3> QED
      BY <3>1, <3>2
  <2>4. job' \in [Requests -> Jobs]
    BY <1>10 DEF RestoreTables
  <2>5. /\ groups' \subseteq Groups /\ preset' \in [Groups -> Limits \union {NULL}]
        /\ \A g \in Groups \ groups' : preset'[g] = NULL
    BY <1>10 DEF RestoreTables, Blank
  <2> QED
    BY <1>10, <2>2, <2>3, <2>4, <2>5 DEF RestoreTables, Write, Goto
<1>11. ASSUME NEW p \in Requests, NEW g \in Groups, RestoreGroup(p, g)
      PROVE  TypeOK'
  <2>1. [todo |-> job[p].todo \ {g}, at |-> g,
         links |-> {u \in Names : <<g, u>> \in file[p].member}] \in Jobs
    OBVIOUS
  <2>2. job' \in [Requests -> Jobs]
    BY <1>11, <2>1 DEF RestoreGroup
  <2>3. groups' \subseteq Groups /\ groups \subseteq groups'
    BY <1>11 DEF RestoreGroup
  <2> QED
    BY <1>11, <2>2, <2>3 DEF RestoreGroup, Write, Goto
<1>12. ASSUME NEW p \in Requests, NEW u \in Names, RestoreMember(p, u)
      PROVE  TypeOK'
  <2>1. job' \in [Requests -> Jobs]
    <3>1. [job[p] EXCEPT !.links = job[p].links \ {u}] \in Jobs
      BY ShorterJob
    <3>2. job' = [job EXCEPT ![p] = [job[p] EXCEPT !.links = job[p].links \ {u}]]
      BY <1>12 DEF RestoreMember
    <3> QED
      BY <3>1, <3>2
  <2>2. member' \subseteq groups \X Accounts
    BY <1>12 DEF RestoreMember
  <2> QED
    BY <1>12, <2>1, <2>2 DEF RestoreMember, Write
<1>13. ASSUME NEW p \in Requests, RestorePreset(p)
      PROVE  TypeOK'
  <2>1. file[p].preset[job[p].at] \in Limits \union {NULL} \/ job[p].at = NULL
    OBVIOUS
  <2>2. CASE preset' = preset
    BY <1>13, <2>2 DEF RestorePreset, Write, Goto
  <2>3. CASE /\ job[p].at \in groups
             /\ preset' = [preset EXCEPT ![job[p].at] = file[p].preset[job[p].at]]
    <3>1. preset' \in [Groups -> Limits \union {NULL}]
      BY <2>3
    <3>2. \A g \in Groups \ groups : preset'[g] = NULL
      BY <2>3
    <3> QED
      BY <1>13, <3>1, <3>2 DEF RestorePreset, Write, Goto
  <2> QED
    BY <1>13, <2>2, <2>3 DEF RestorePreset
<1>14. ASSUME NEW p \in Requests, RestoreDone(p)
      PROVE  TypeOK'
  BY <1>14, BlankIsFile DEF RestoreDone, Leave
<1>15. ASSUME NEW p \in Requests, NEW c \in Configs,
             NEW k \in Keys \union {NULL}, WireGuardSave(p, c, k)
      PROVE  TypeOK'
  <2>1. [Blank EXCEPT !.key = k] \in Files
    BY BlankIsFile
  <2>2. file' \in [Requests -> Files]
    BY <1>15, <2>1 DEF WireGuardSave
  <2>3. settings' \in Configs \union {NULL} /\ alone' \subseteq Requests
    BY <1>15 DEF WireGuardSave, Write
  <2> QED
    BY <1>15, <2>2, <2>3 DEF WireGuardSave, Goto
<1>16. ASSUME NEW p \in Requests, SaveServer(p)
      PROVE  TypeOK'
  BY <1>16, BlankIsFile DEF SaveServer, Leave, Write
<1>17. ASSUME NEW p \in Requests, Fail(p)
      PROVE  TypeOK'
  BY <1>17, BlankIsFile DEF Fail, Leave
<1>18. ASSUME NEW u \in Names, NEW k \in Keys, UserSave(u, k) PROVE TypeOK'
  <2>1. [pub |-> k, priv |-> k] \in Row
    BY DEF Row
  <2>2. peer' \in [Names -> Row \union {NULL}] /\ Accounts \subseteq Accounts'
    BY <1>18, <2>1, NullAssumption DEF UserSave
  <2> QED
    BY <1>18, <2>2 DEF UserSave, Edit
<1>19. ASSUME NEW u \in Names, UserChange(u) PROVE TypeOK'
  BY <1>19 DEF UserChange, Edit
<1>20. ASSUME NEW u \in Names, NEW v \in Names, UserRename(u, v) PROVE TypeOK'
  <2>1. /\ peer' \in [Names -> Row \union {NULL}]
        /\ v \in Accounts' /\ Accounts \ {u} \subseteq Accounts'
    BY <1>20 DEF UserRename
  <2>2. member' \subseteq groups \X Accounts'
    <3> SUFFICES ASSUME NEW m \in member' PROVE m \in groups \X Accounts'
      OBVIOUS
    <3>1. CASE m \in member /\ m[2] # u
      BY <2>1, <3>1
    <3>2. CASE m \in Groups \X {v} /\ <<m[1], u>> \in member
      BY <2>1, <3>2
    <3> QED
      BY <1>20, <3>1, <3>2 DEF UserRename
  <2> QED
    BY <1>20, <2>1, <2>2 DEF UserRename, Edit
<1>21. ASSUME NEW u \in Names, UserDelete(u) PROVE TypeOK'
  BY <1>21 DEF UserDelete, Edit
<1>22. ASSUME NEW g \in Groups, GroupCreate(g) PROVE TypeOK'
  BY <1>22 DEF GroupCreate, Edit
<1>23. ASSUME NEW g \in Groups, GroupDelete(g) PROVE TypeOK'
  BY <1>23 DEF GroupDelete, Edit
<1>24. ASSUME NEW g \in Groups, NEW u \in Names, MemberAdd(g, u) PROVE TypeOK'
  BY <1>24 DEF MemberAdd, Edit
<1>25. ASSUME NEW g \in Groups, NEW u \in Names, MemberRemove(g, u) PROVE TypeOK'
  BY <1>25 DEF MemberRemove, Edit
<1>26. ASSUME NEW g \in Groups, NEW l \in Limits \union {NULL}, PresetSave(g, l) PROVE TypeOK'
  BY <1>26 DEF PresetSave, Edit
<1>27. CASE UNCHANGED vars
  BY <1>27 DEF vars
<1> QED
  BY <1>1, <1>2, <1>3, <1>4, <1>5, <1>6, <1>7, <1>8, <1>9, <1>10, <1>11, <1>12,
     <1>13, <1>14, <1>15, <1>16, <1>17, <1>18, <1>19, <1>20, <1>21, <1>22, <1>23, <1>24,
     <1>25, <1>26, <1>27
     DEF Next, Export, Restore, Save, Others

\* A file that is finished is whole.
LEMMA FileStep == TypeOK /\ FileInv /\ [Next]_vars => FileInv'
<1> SUFFICES ASSUME TypeOK, FileInv, [Next]_vars PROVE FileInv'
  OBVIOUS
<1> USE DEF FileInv, Restoring, Whole, TypeOK, Files, Jobs, db, tables, local
<1>1. ASSUME NEW p \in Requests, ExportSettings(p)
      PROVE  FileInv'
  BY <1>1, NullAssumption DEF ExportSettings, Begin, Goto, Blank
<1>2. ASSUME NEW p \in Requests, ExportServer(p)
      PROVE  FileInv'
  BY <1>2, NullAssumption DEF ExportServer, Goto
<1>3. ASSUME NEW p \in Requests, ExportPeers(p)
      PROVE  FileInv'
  BY <1>3 DEF ExportPeers, Goto
<1>4. ASSUME NEW p \in Requests, ExportGroups(p)
      PROVE  FileInv'
  BY <1>4 DEF ExportGroups, Goto, Blank
<1>5. ASSUME NEW p \in Requests, NEW g \in Groups, ExportPreset(p, g)
      PROVE  FileInv'
  BY <1>5 DEF ExportPreset
<1>6. ASSUME NEW p \in Requests, Download(p)
      PROVE  FileInv'
  BY <1>6 DEF Download, Leave
<1>7. ASSUME NEW p \in Requests, NEW o \in SUBSET {"peers", "groups"}, RestorePost(p, o)
      PROVE  FileInv'
  BY <1>7 DEF RestorePost, Begin, Goto
<1>8. ASSUME NEW p \in Requests, RestoreSettings(p)
      PROVE  FileInv'
  BY <1>8 DEF RestoreSettings, Write, Goto
<1>9. ASSUME NEW p \in Requests, RestoreServer(p)
      PROVE  FileInv'
  BY <1>9 DEF RestoreServer, Write, Goto
<1>10. ASSUME NEW p \in Requests, RestoreTables(p)
      PROVE  FileInv'
  BY <1>10 DEF RestoreTables, Write, Goto
<1>11. ASSUME NEW p \in Requests, NEW g \in Groups, RestoreGroup(p, g)
      PROVE  FileInv'
  BY <1>11 DEF RestoreGroup, Write, Goto
<1>12. ASSUME NEW p \in Requests, NEW u \in Names, RestoreMember(p, u)
      PROVE  FileInv'
  BY <1>12 DEF RestoreMember, Write
<1>13. ASSUME NEW p \in Requests, RestorePreset(p)
      PROVE  FileInv'
  BY <1>13 DEF RestorePreset, Write, Goto
<1>14. ASSUME NEW p \in Requests, RestoreDone(p)
      PROVE  FileInv'
  BY <1>14 DEF RestoreDone, Leave
<1>15. ASSUME NEW p \in Requests, NEW c \in Configs,
             NEW k \in Keys \union {NULL}, WireGuardSave(p, c, k)
      PROVE  FileInv'
  BY <1>15 DEF WireGuardSave, Write, Goto
<1>16. ASSUME NEW p \in Requests, SaveServer(p)
      PROVE  FileInv'
  BY <1>16 DEF SaveServer, Leave, Write
<1>17. ASSUME NEW p \in Requests, Fail(p)
      PROVE  FileInv'
  BY <1>17 DEF Fail, Leave
<1>18. CASE Others
  <2>1. UNCHANGED <<shelf, pc, file, job>>
    BY <1>18 DEF Others, UserSave, UserChange, UserRename, UserDelete, GroupCreate, GroupDelete,
                  MemberAdd, MemberRemove, PresetSave, Edit
  <2> QED
    BY <2>1
<1>19. CASE UNCHANGED vars
  BY <1>19 DEF vars
<1> QED
  BY <1>1, <1>2, <1>3, <1>4, <1>5, <1>6, <1>7, <1>8, <1>9, <1>10, <1>11, <1>12,
     <1>13, <1>14, <1>15, <1>16, <1>17, <1>18, <1>19
     DEF Next, Export, Restore, Save

\* A request keeps what it knows while nobody writes and its own variables stay.
LEMMA Frame ==
  ASSUME NEW q, Copied(q), Rebuilt(q), UNCHANGED db,
         pc'[q] = pc[q], file'[q] = file[q], opts'[q] = opts[q], job'[q] = job[q]
  PROVE  Copied(q)' /\ Rebuilt(q)'
BY DEF Copied, Rebuilt, AtMember, AtPreset, Back, Accounts, db, tables

\* Every action keeps what the requests that are alone know.
LEMMA AloneStep == IInv /\ [Next]_vars => AloneInv'
<1> SUFFICES ASSUME TypeOK, FileInv, AloneInv, [Next]_vars, NEW q \in alone'
             PROVE  Copied(q)' /\ Rebuilt(q)'
  BY DEF IInv, AloneInv
<1> USE DEF TypeOK, Files, Jobs, local
<1>1. ASSUME NEW p \in Requests, ExportSettings(p)
      PROVE  Copied(q)' /\ Rebuilt(q)'
  <2>1. CASE q # p
    <3>1. q \in alone /\ UNCHANGED db
      BY <1>1, <2>1 DEF ExportSettings, Begin, Goto
    <3>2. pc'[q] = pc[q] /\ file'[q] = file[q] /\ opts'[q] = opts[q] /\ job'[q] = job[q]
      BY <1>1, <2>1, <3>1 DEF ExportSettings, Begin, Goto
    <3> QED
      BY <3>1, <3>2, Frame DEF AloneInv
  <2>2. CASE q = p
    BY <1>1, <2>2 DEF ExportSettings, Begin, Goto, Copied, Rebuilt, AloneInv, db, tables, Blank
  <2> QED
    BY <2>1, <2>2
<1>2. ASSUME NEW p \in Requests, ExportServer(p)
      PROVE  Copied(q)' /\ Rebuilt(q)'
  <2>1. CASE q # p
    <3>1. q \in alone /\ UNCHANGED db
      BY <1>2, <2>1 DEF ExportServer, Goto
    <3>2. pc'[q] = pc[q] /\ file'[q] = file[q] /\ opts'[q] = opts[q] /\ job'[q] = job[q]
      BY <1>2, <2>1, <3>1 DEF ExportServer, Goto
    <3> QED
      BY <3>1, <3>2, Frame DEF AloneInv
  <2>2. CASE q = p
    BY <1>2, <2>2 DEF ExportServer, Goto, Copied, Rebuilt, AloneInv, db, tables, Blank
  <2> QED
    BY <2>1, <2>2
<1>3. ASSUME NEW p \in Requests, ExportPeers(p)
      PROVE  Copied(q)' /\ Rebuilt(q)'
  <2>1. CASE q # p
    <3>1. q \in alone /\ UNCHANGED db
      BY <1>3, <2>1 DEF ExportPeers, Goto
    <3>2. pc'[q] = pc[q] /\ file'[q] = file[q] /\ opts'[q] = opts[q] /\ job'[q] = job[q]
      BY <1>3, <2>1, <3>1 DEF ExportPeers, Goto
    <3> QED
      BY <3>1, <3>2, Frame DEF AloneInv
  <2>2. CASE q = p
    BY <1>3, <2>2 DEF ExportPeers, Goto, Copied, Rebuilt, AloneInv, db, tables, Blank
  <2> QED
    BY <2>1, <2>2
<1>4. ASSUME NEW p \in Requests, ExportGroups(p)
      PROVE  Copied(q)' /\ Rebuilt(q)'
  <2>1. CASE q # p
    <3>1. q \in alone /\ UNCHANGED db
      BY <1>4, <2>1 DEF ExportGroups, Goto
    <3>2. pc'[q] = pc[q] /\ file'[q] = file[q] /\ opts'[q] = opts[q] /\ job'[q] = job[q]
      BY <1>4, <2>1, <3>1 DEF ExportGroups, Goto
    <3> QED
      BY <3>1, <3>2, Frame DEF AloneInv
  <2>2. CASE q = p
    <3>1. /\ UNCHANGED db /\ pc'[p] = "presets" /\ pc[p] = "groups" /\ Copied(p)
          /\ file'[p].settings = file[p].settings /\ file'[p].key = file[p].key
          /\ file'[p].peer = file[p].peer /\ file'[p].preset = file[p].preset
          /\ file'[p].groups = groups /\ file'[p].member = member
          /\ job'[p].todo = groups
      BY <1>4, <2>2 DEF ExportGroups, Goto, AloneInv
    <3>2. \A g \in Groups \ groups : file[p].preset[g] = preset[g]
      BY <3>1 DEF FileInv, Blank
    <3> QED
      BY <2>2, <3>1, <3>2 DEF Copied, Rebuilt, db, tables
  <2> QED
    BY <2>1, <2>2
<1>5. ASSUME NEW p \in Requests, NEW g \in Groups, ExportPreset(p, g)
      PROVE  Copied(q)' /\ Rebuilt(q)'
  <2>1. CASE q # p
    <3>1. q \in alone /\ UNCHANGED db
      BY <1>5, <2>1 DEF ExportPreset
    <3>2. pc'[q] = pc[q] /\ file'[q] = file[q] /\ opts'[q] = opts[q] /\ job'[q] = job[q]
      BY <1>5, <2>1, <3>1 DEF ExportPreset
    <3> QED
      BY <3>1, <3>2, Frame DEF AloneInv
  <2>2. CASE q = p
    <3>1. /\ UNCHANGED db /\ pc'[p] = "presets" /\ pc[p] = "presets" /\ Copied(p)
          /\ file'[p].settings = file[p].settings /\ file'[p].key = file[p].key
          /\ file'[p].peer = file[p].peer /\ file'[p].groups = file[p].groups
          /\ file'[p].member = file[p].member
          /\ job'[p].todo = job[p].todo \ {g}
      BY <1>5, <2>2 DEF ExportPreset, AloneInv
    <3>2. file'[p].preset = [file[p].preset EXCEPT ![g] = preset[g]]
      BY <1>5 DEF ExportPreset
    <3>3. \A h \in Groups \ job'[p].todo : file'[p].preset[h] = preset[h]
      BY <3>1, <3>2 DEF Copied
    <3> QED
      BY <2>2, <3>1, <3>3 DEF Copied, Rebuilt, db, tables
  <2> QED
    BY <2>1, <2>2
<1>6. ASSUME NEW p \in Requests, Download(p)
      PROVE  Copied(q)' /\ Rebuilt(q)'
  <2>1. CASE q # p
    <3>1. q \in alone /\ UNCHANGED db
      BY <1>6, <2>1 DEF Download, Leave
    <3>2. pc'[q] = pc[q] /\ file'[q] = file[q] /\ opts'[q] = opts[q] /\ job'[q] = job[q]
      BY <1>6, <2>1, <3>1 DEF Download, Leave
    <3> QED
      BY <3>1, <3>2, Frame DEF AloneInv
  <2>2. CASE q = p
    BY <1>6, <2>2 DEF Download, Leave
  <2> QED
    BY <2>1, <2>2
<1>7. ASSUME NEW p \in Requests, NEW o \in SUBSET {"peers", "groups"}, RestorePost(p, o)
      PROVE  Copied(q)' /\ Rebuilt(q)'
  <2>1. CASE q # p
    <3>1. q \in alone /\ UNCHANGED db
      BY <1>7, <2>1 DEF RestorePost, Begin, Goto
    <3>2. pc'[q] = pc[q] /\ file'[q] = file[q] /\ opts'[q] = opts[q] /\ job'[q] = job[q]
      BY <1>7, <2>1, <3>1 DEF RestorePost, Begin, Goto
    <3> QED
      BY <3>1, <3>2, Frame DEF AloneInv
  <2>2. CASE q = p
    BY <1>7, <2>2 DEF RestorePost, Begin, Goto, Copied, Rebuilt, AloneInv, db, tables, Blank
  <2> QED
    BY <2>1, <2>2
<1>8. ASSUME NEW p \in Requests, RestoreSettings(p)
      PROVE  Copied(q)' /\ Rebuilt(q)'
  <2>1. q = p /\ q \in alone
    BY <1>8 DEF RestoreSettings, Write, Goto
  <2> QED
    BY <1>8, <2>1 DEF RestoreSettings, Write, Goto, Copied, Rebuilt, AloneInv
<1>9. ASSUME NEW p \in Requests, RestoreServer(p)
      PROVE  Copied(q)' /\ Rebuilt(q)'
  <2>1. q = p /\ q \in alone
    BY <1>9 DEF RestoreServer, Write, Goto
  <2> QED
    BY <1>9, <2>1 DEF RestoreServer, Write, Goto, Copied, Rebuilt, AloneInv
<1>10. ASSUME NEW p \in Requests, RestoreTables(p)
      PROVE  Copied(q)' /\ Rebuilt(q)'
  <2>1. q = p /\ q \in alone
    BY <1>10 DEF RestoreTables, Write, Goto
  <2>2. \A u \in Names : file[p].peer[u] # NULL => Back(u, file[p].peer[u])'
    <3> SUFFICES ASSUME NEW u \in Names, file[p].peer[u] # NULL
                 PROVE  Back(u, file[p].peer[u])'
      OBVIOUS
    <3> DEFINE old == IF "peers" \in opts[p] THEN NULL ELSE peer[u]
    <3>1. /\ peer'[u] = Upsert(old, file[p].peer[u])
          /\ old \in Row \union {NULL} /\ file[p].peer[u] \in Row \union {NULL}
      BY <1>10 DEF RestoreTables, Blank
    <3>2. /\ peer'[u] # NULL /\ peer'[u].pub = file[p].peer[u].pub
          /\ file[p].peer[u].priv # NULL => peer'[u].priv = file[p].peer[u].priv
      BY <3>1, UpsertIsRow
    <3>3. file'[p] = file[p]
      BY <1>10 DEF RestoreTables
    <3> QED
      BY <3>2, <3>3 DEF Back, Accounts
  <2>3. "peers" \in opts[p] => peer' = file[p].peer
    <3> SUFFICES ASSUME "peers" \in opts[p] PROVE peer' = file[p].peer
      OBVIOUS
    <3>1. /\ peer' = [u \in Names |-> Upsert(NULL, file[p].peer[u])]
          /\ file[p].peer \in [Names -> Row \union {NULL}]
      BY <1>10 DEF RestoreTables, Blank
    <3>2. \A u \in Names : Upsert(NULL, file[p].peer[u]) = file[p].peer[u]
      BY <3>1, UpsertIsRow
    <3> QED
      BY <3>1, <3>2
  <2>4. /\ pc'[p] = "regroup" /\ file'[p] = file[p] /\ opts'[p] = opts[p]
        /\ job'[p].todo = file[p].groups
        /\ settings' = settings /\ key' = key
    BY <1>10 DEF RestoreTables, Goto
  <2>5. settings = file[p].settings /\ key = file[p].key
    BY <1>10, <2>1 DEF RestoreTables, Goto, Rebuilt, AloneInv
  <2>6. \A m \in file[p].member : m[1] \in file[p].groups
    BY <1>10 DEF RestoreTables, Goto, FileInv, Restoring, Whole
  <2>7. opts[p] # {} => member' = {}
    BY <1>10 DEF RestoreTables
  <2>8. "groups" \in opts[p] => groups' = {} /\ \A g \in Groups : preset'[g] = NULL
    BY <1>10 DEF RestoreTables, Blank
  <2> QED
    BY <2>1, <2>2, <2>3, <2>4, <2>5, <2>6, <2>7, <2>8 DEF Copied, Rebuilt
<1>11. ASSUME NEW p \in Requests, NEW g \in Groups, RestoreGroup(p, g)
      PROVE  Copied(q)' /\ Rebuilt(q)'
  <2>1. q = p /\ q \in alone
    BY <1>11 DEF RestoreGroup, Write, Goto
  <2>2. /\ pc'[p] = "members" /\ pc[p] = "regroup"
        /\ file'[p] = file[p] /\ opts'[p] = opts[p]
        /\ job'[p].todo = job[p].todo \ {g} /\ job'[p].at = g
        /\ job'[p].links = {u \in Names : <<g, u>> \in file[p].member}
        /\ UNCHANGED <<settings, key, peer, member, preset>>
        /\ groups' = groups \union {g} /\ g \in file[p].groups
    BY <1>11 DEF RestoreGroup, Goto, FileInv
  <2>3. Rebuilt(p)
    BY <2>1 DEF AloneInv
  <2>4. \A m \in file[p].member : m[1] = g => m[2] \in job'[p].links
    <3> SUFFICES ASSUME NEW m \in file[p].member, m[1] = g PROVE m[2] \in job'[p].links
      OBVIOUS
    <3>1. file[p].member \subseteq Groups \X Names
      OBVIOUS
    <3>2. m[2] \in Names /\ m = <<g, m[2]>>
      BY <3>1
    <3>3. <<g, m[2]>> \in file[p].member
      BY <3>2
    <3> QED
      BY <2>2, <3>2, <3>3
  <2> QED
    BY <2>1, <2>2, <2>3, <2>4 DEF Copied, Rebuilt, AtMember, AtPreset, Back, Accounts
<1>12. ASSUME NEW p \in Requests, NEW u \in Names, RestoreMember(p, u)
      PROVE  Copied(q)' /\ Rebuilt(q)'
  <2>1. q = p /\ q \in alone
    BY <1>12 DEF RestoreMember, Write
  <2>2. /\ pc'[p] = "members" /\ pc[p] = "members"
        /\ file'[p] = file[p] /\ opts'[p] = opts[p]
        /\ job'[p].todo = job[p].todo /\ job'[p].at = job[p].at
        /\ job'[p].links = job[p].links \ {u}
        /\ UNCHANGED <<settings, key, peer, groups, preset>>
        /\ \/ u \notin Accounts /\ member' = member
           \/ member' = member \union {<<job[p].at, u>>}
    BY <1>12 DEF RestoreMember
  <2>3. <<job[p].at, u>> \in file[p].member
    BY <1>12 DEF RestoreMember, FileInv
  <2>4. Rebuilt(p)
    BY <2>1 DEF AloneInv
  <2>5. ASSUME NEW m \in file[p].member, m[2] \in Accounts', m[1] \notin job'[p].todo,
               ~AtMember(p, m)'
        PROVE  m \in member'
    <3>1. m = <<m[1], m[2]>> /\ m[2] \in Accounts
      BY <2>2, <2>5 DEF Accounts
    <3>2. CASE AtMember(p, m)
      <4>1. m[1] = job[p].at /\ m[2] = u
        BY <2>2, <2>5, <3>2 DEF AtMember
      <4> QED
        BY <2>2, <3>1, <4>1
    <3>3. CASE ~AtMember(p, m)
      BY <2>2, <2>4, <2>5, <3>1, <3>3 DEF Rebuilt
    <3> QED
      BY <3>2, <3>3
  <2>6. opts[p] # {} => member' \subseteq file[p].member
    <3>1. opts[p] # {} => member \subseteq file[p].member
      BY <2>2, <2>4 DEF Rebuilt
    <3>2. member' \subseteq member \union {<<job[p].at, u>>}
      BY <2>2
    <3> QED
      BY <2>3, <3>1, <3>2
  <2>7. \A g \in file[p].groups \ job[p].todo :
           file[p].preset[g] # NULL /\ ~AtPreset(p, g)' => preset'[g] = file[p].preset[g]
    BY <2>2, <2>4 DEF Rebuilt, AtPreset
  <2> QED
    BY <2>1, <2>2, <2>4, <2>5, <2>6, <2>7 DEF Copied, Rebuilt, Back, Accounts
<1>13. ASSUME NEW p \in Requests, RestorePreset(p)
      PROVE  Copied(q)' /\ Rebuilt(q)'
  <2>1. q = p /\ q \in alone
    BY <1>13 DEF RestorePreset, Write, Goto
  <2>2. /\ pc'[p] = "regroup" /\ pc[p] = "members" /\ job[p].links = {}
        /\ file'[p] = file[p] /\ opts'[p] = opts[p] /\ job'[p] = job[p]
        /\ UNCHANGED <<settings, key, peer, groups, member>>
        /\ \/ file[p].preset[job[p].at] = NULL /\ preset' = preset
           \/ preset' = [preset EXCEPT ![job[p].at] = file[p].preset[job[p].at]]
    BY <1>13 DEF RestorePreset, Goto
  <2>3. job[p].at \in file[p].groups
    BY <2>2 DEF FileInv
  <2>4. Rebuilt(p)
    BY <2>1 DEF AloneInv
  <2>5. /\ \A g \in Groups \ {job[p].at} : preset'[g] = preset[g]
        /\ preset'[job[p].at] \in {preset[job[p].at], file[p].preset[job[p].at]}
        /\ file[p].preset[job[p].at] # NULL => preset'[job[p].at] = file[p].preset[job[p].at]
    BY <2>2, <2>3
  <2>6. \A m \in file[p].member :
           m[2] \in Accounts' /\ m[1] \notin job[p].todo => m \in member
    BY <2>2, <2>4 DEF Rebuilt, AtMember, Accounts
  <2>7. \A g \in file[p].groups \ job[p].todo :
           file[p].preset[g] # NULL => preset'[g] = file[p].preset[g]
    BY <2>2, <2>4, <2>5 DEF Rebuilt, AtPreset
  <2>8. "groups" \in opts[p] => \A g \in Groups : preset'[g] \in {NULL, file[p].preset[g]}
    BY <2>2, <2>4, <2>5 DEF Rebuilt
  <2> QED
    BY <2>1, <2>2, <2>4, <2>6, <2>7, <2>8 DEF Copied, Rebuilt, Back, Accounts
<1>14. ASSUME NEW p \in Requests, RestoreDone(p)
      PROVE  Copied(q)' /\ Rebuilt(q)'
  <2>1. CASE q # p
    <3>1. q \in alone /\ UNCHANGED db
      BY <1>14, <2>1 DEF RestoreDone, Leave
    <3>2. pc'[q] = pc[q] /\ file'[q] = file[q] /\ opts'[q] = opts[q] /\ job'[q] = job[q]
      BY <1>14, <2>1, <3>1 DEF RestoreDone, Leave
    <3> QED
      BY <3>1, <3>2, Frame DEF AloneInv
  <2>2. CASE q = p
    BY <1>14, <2>2 DEF RestoreDone, Leave
  <2> QED
    BY <2>1, <2>2
<1>15. ASSUME NEW p \in Requests, NEW c \in Configs,
             NEW k \in Keys \union {NULL}, WireGuardSave(p, c, k)
      PROVE  Copied(q)' /\ Rebuilt(q)'
  <2>1. q = p /\ q \in alone
    BY <1>15 DEF WireGuardSave, Write, Goto
  <2> QED
    BY <1>15, <2>1 DEF WireGuardSave, Write, Goto, Copied, Rebuilt, AloneInv
<1>16. ASSUME NEW p \in Requests, SaveServer(p)
      PROVE  Copied(q)' /\ Rebuilt(q)'
  <2>1. q = p /\ q \in alone
    BY <1>16 DEF SaveServer, Leave, Write
  <2> QED
    BY <1>16, <2>1 DEF SaveServer, Leave, Write, Copied, Rebuilt, AloneInv
<1>17. ASSUME NEW p \in Requests, Fail(p)
      PROVE  Copied(q)' /\ Rebuilt(q)'
  <2>1. CASE q # p
    <3>1. q \in alone /\ UNCHANGED db
      BY <1>17, <2>1 DEF Fail, Leave
    <3>2. pc'[q] = pc[q] /\ file'[q] = file[q] /\ opts'[q] = opts[q] /\ job'[q] = job[q]
      BY <1>17, <2>1, <3>1 DEF Fail, Leave
    <3> QED
      BY <3>1, <3>2, Frame DEF AloneInv
  <2>2. CASE q = p
    BY <1>17, <2>2 DEF Fail, Leave
  <2> QED
    BY <2>1, <2>2
<1>18. CASE Others
  BY <1>18 DEF Others, UserSave, UserChange, UserRename, UserDelete, GroupCreate, GroupDelete,
                MemberAdd, MemberRemove, PresetSave, Edit
<1>19. CASE UNCHANGED vars
  BY <1>19, Frame DEF vars, AloneInv, db, tables
<1> QED
  BY <1>1, <1>2, <1>3, <1>4, <1>5, <1>6, <1>7, <1>8, <1>9, <1>10, <1>11, <1>12,
     <1>13, <1>14, <1>15, <1>16, <1>17, <1>18, <1>19
     DEF Next, Export, Restore, Save

-----------------------------------------------------------------------------
LEMMA Start == Init => IInv
<1> SUFFICES ASSUME Init PROVE IInv
  OBVIOUS
<1>1. TypeOK
  <2>1. [pub : Keys, priv : {NULL}] \subseteq Row
    BY DEF Row
  <2> QED
    BY <2>1, BlankIsFile, NullAssumption DEF Init, TypeOK, PcStates, Accounts, Blank
<1>2. FileInv
  BY DEF Init, FileInv, Restoring, Whole, Blank
<1>3. AloneInv
  BY DEF Init, AloneInv
<1> QED
  BY <1>1, <1>2, <1>3 DEF IInv

LEMMA Invariance == Spec => []IInv
<1>1. IInv /\ [Next]_vars => IInv'
  BY TypeStep, FileStep, AloneStep DEF IInv
<1> QED
  BY Start, <1>1, PTL DEF Spec

\* The tables keep their types and refer to rows that are there.
THEOREM TypeCorrect == Spec => []TypeOK
<1>1. IInv => TypeOK
  BY DEF IInv
<1> QED
  BY Invariance, <1>1, PTL

\* Whatever other requests there are, a backup that none of them has written
\* beside is the database as it is.
THEOREM BackupsAreSnapshots == Spec => []BackupIsSnapshot
<1>1. IInv => BackupIsSnapshot
  <2> SUFFICES ASSUME IInv, NEW p \in Requests, p \in alone, pc[p] = "presets", job[p].todo = {}
               PROVE  file[p] = Image
    BY DEF BackupIsSnapshot
  <2>1. file[p] \in Files /\ preset \in [Groups -> Limits \union {NULL}]
    BY DEF IInv, TypeOK
  <2>2. Copied(p)
    BY DEF IInv, AloneInv
  <2>3. file[p].preset = preset
    BY <2>1, <2>2 DEF Copied, Files
  <2> QED
    BY <2>1, <2>2, <2>3 DEF Copied, Files, Image
<1> QED
  BY Invariance, <1>1, PTL

\* A restore of any backup that this system has made, with any options, brings back
\* what the file holds and, where it was to replace a table, nothing but that, if nobody
\* has written beside it.
THEOREM RestoresAreFaithful == Spec => []RestoreIsFaithful
<1>1. IInv => RestoreIsFaithful
  <2> SUFFICES ASSUME IInv, NEW p \in Requests, p \in alone, pc[p] = "regroup", job[p].todo = {}
               PROVE  Restored(p)
    BY DEF RestoreIsFaithful
  <2> DEFINE f == file[p]
             back == {m \in f.member : m[2] \in Accounts}
  <2>1. Rebuilt(p) /\ Whole(f) /\ f \in Files
    BY DEF IInv, AloneInv, FileInv, Restoring, TypeOK
  <2>2. settings = f.settings /\ key = f.key
    BY <2>1 DEF Rebuilt
  <2>3. \A u \in Names : f.peer[u] # NULL => Back(u, f.peer[u])
    BY <2>1 DEF Rebuilt
  <2>4. f.groups \subseteq groups /\ back \subseteq member
    BY <2>1 DEF Rebuilt, AtMember
  <2>5. \A g \in Groups : f.preset[g] # NULL => preset[g] = f.preset[g]
    BY <2>1 DEF Rebuilt, AtPreset, Whole
  <2>6. opts[p] # {} => member = back
    BY <2>1, <2>4 DEF Rebuilt, IInv, TypeOK
  <2>7. "peers" \in opts[p] => peer = f.peer
    BY <2>1 DEF Rebuilt
  <2>8. "groups" \in opts[p] => groups = f.groups
    BY <2>1, <2>4 DEF Rebuilt
  <2>9. "groups" \in opts[p] => preset = f.preset
    <3> SUFFICES ASSUME "groups" \in opts[p] PROVE preset = f.preset
      OBVIOUS
    <3>1. \A g \in Groups : preset[g] = f.preset[g]
      BY <2>1, <2>5 DEF Rebuilt
    <3> QED
      BY <2>1, <3>1 DEF IInv, TypeOK, Files
  <2> QED
    BY <2>2, <2>3, <2>4, <2>5, <2>6, <2>7, <2>8, <2>9 DEF Restored
<1> QED
  BY Invariance, <1>1, PTL
-----------------------------------------------------------------------------
(* Key pairs. *)

\* What becomes of a row is a pair, unless it keeps the private key of another.
LEMMA UpsertMatches ==
  ASSUME NEW old \in Row \union {NULL}, NEW new \in Row \union {NULL},
         old # NULL => old.priv \in {NULL, old.pub},
         new # NULL => new.priv \in {NULL, new.pub},
         ~(old # NULL /\ new # NULL /\ old.priv # NULL /\ new.priv = NULL /\ new.pub # old.pub),
         Upsert(old, new) # NULL
  PROVE  Upsert(old, new).priv \in {NULL, Upsert(old, new).pub}
<1>1. CASE new = NULL \/ old = NULL \/ (new # NULL /\ new.priv # NULL)
  BY <1>1 DEF Upsert
<1>2. CASE new \in Row /\ old \in Row /\ new.priv = NULL
  <2> DEFINE merged == [new EXCEPT !.priv = old.priv]
  <2>1. merged.pub = new.pub /\ merged.priv = old.priv
    BY <1>2 DEF Row
  <2>2. Upsert(old, new) = merged
    BY <1>2, NullAssumption DEF Upsert
  <2> QED
    BY <1>2, <2>1, <2>2, NullAssumption
<1> QED
  BY <1>1, <1>2

\* A step that changes no account and gives every file pairs.
LEMMA SameRows ==
  ASSUME AllMatched, UNCHANGED peer,
         Matched(shelf.peer)', \A q \in Requests : Matched(file[q].peer)'
  PROVE  AllMatched'
BY DEF AllMatched, KeysMatch, Matched

\* A step that changes no file and gives every account a pair.
LEMMA SameFiles ==
  ASSUME AllMatched, UNCHANGED <<shelf, file>>,
         \A u \in Names : peer'[u] # NULL => peer'[u].priv \in {NULL, peer'[u].pub}
  PROVE  AllMatched'
BY DEF AllMatched, KeysMatch, Matched

\* Only that merge parts a pair.
LEMMA PairStep ==
  TypeOK /\ AllMatched /\ [Next]_vars => AllMatched' \/ \E p \in Requests : Merges(p)
<1> SUFFICES ASSUME TypeOK, AllMatched, [Next]_vars
             PROVE  AllMatched' \/ \E p \in Requests : Merges(p)
  OBVIOUS
<1> USE DEF TypeOK, Files
<1>1. ASSUME NEW p \in Requests, ExportSettings(p) PROVE AllMatched'
  <2>1. UNCHANGED peer
    BY <1>1 DEF ExportSettings, Begin, Goto, Blank, db, tables
  <2>2. Matched(shelf.peer)' /\ \A q \in Requests : Matched(file[q].peer)'
    BY <1>1 DEF AllMatched, KeysMatch, Matched, ExportSettings, Begin, Goto, Blank, db, tables
  <2> QED
    BY <2>1, <2>2, SameRows
<1>2. ASSUME NEW p \in Requests, ExportServer(p) PROVE AllMatched'
  <2>1. UNCHANGED peer
    BY <1>2 DEF ExportServer, Goto, db, tables
  <2>2. Matched(shelf.peer)' /\ \A q \in Requests : Matched(file[q].peer)'
    BY <1>2 DEF AllMatched, KeysMatch, Matched, ExportServer, Goto, db, tables
  <2> QED
    BY <2>1, <2>2, SameRows
<1>3. ASSUME NEW p \in Requests, ExportPeers(p) PROVE AllMatched'
  <2>1. UNCHANGED peer
    BY <1>3 DEF ExportPeers, Goto, db, tables
  <2>2. Matched(shelf.peer)' /\ \A q \in Requests : Matched(file[q].peer)'
    BY <1>3 DEF AllMatched, KeysMatch, Matched, ExportPeers, Goto, db, tables
  <2> QED
    BY <2>1, <2>2, SameRows
<1>4. ASSUME NEW p \in Requests, ExportGroups(p) PROVE AllMatched'
  <2>1. UNCHANGED peer
    BY <1>4 DEF ExportGroups, Goto, db, tables
  <2>2. Matched(shelf.peer)' /\ \A q \in Requests : Matched(file[q].peer)'
    BY <1>4 DEF AllMatched, KeysMatch, Matched, ExportGroups, Goto, db, tables
  <2> QED
    BY <2>1, <2>2, SameRows
<1>5. ASSUME NEW p \in Requests, NEW g \in Groups, ExportPreset(p, g) PROVE AllMatched'
  <2>1. UNCHANGED peer
    BY <1>5 DEF ExportPreset, Goto, db, tables
  <2>2. Matched(shelf.peer)' /\ \A q \in Requests : Matched(file[q].peer)'
    BY <1>5 DEF AllMatched, KeysMatch, Matched, ExportPreset, Goto, db, tables
  <2> QED
    BY <2>1, <2>2, SameRows
<1>6. ASSUME NEW p \in Requests, Download(p) PROVE AllMatched'
  <2>1. UNCHANGED peer
    BY <1>6 DEF Download, Leave, Blank, db, tables
  <2>2. Matched(shelf.peer)' /\ \A q \in Requests : Matched(file[q].peer)'
    BY <1>6 DEF AllMatched, KeysMatch, Matched, Download, Leave, Blank, db, tables
  <2> QED
    BY <2>1, <2>2, SameRows
<1>7. ASSUME NEW p \in Requests, NEW o \in SUBSET {"peers", "groups"}, RestorePost(p, o)
      PROVE  AllMatched'
  <2>1. UNCHANGED peer
    BY <1>7 DEF RestorePost, Begin, Goto, db, tables
  <2>2. Matched(shelf.peer)' /\ \A q \in Requests : Matched(file[q].peer)'
    BY <1>7 DEF AllMatched, KeysMatch, Matched, RestorePost, Begin, Goto, db, tables
  <2> QED
    BY <2>1, <2>2, SameRows
<1>8. ASSUME NEW p \in Requests, RestoreSettings(p) PROVE AllMatched'
  <2>1. UNCHANGED peer
    BY <1>8 DEF RestoreSettings, Goto, tables, local
  <2>2. Matched(shelf.peer)' /\ \A q \in Requests : Matched(file[q].peer)'
    BY <1>8 DEF AllMatched, KeysMatch, Matched, RestoreSettings, Goto, tables, local
  <2> QED
    BY <2>1, <2>2, SameRows
<1>9. ASSUME NEW p \in Requests, RestoreServer(p) PROVE AllMatched'
  <2>1. UNCHANGED peer
    BY <1>9 DEF RestoreServer, Goto, tables, local
  <2>2. Matched(shelf.peer)' /\ \A q \in Requests : Matched(file[q].peer)'
    BY <1>9 DEF AllMatched, KeysMatch, Matched, RestoreServer, Goto, tables, local
  <2> QED
    BY <2>1, <2>2, SameRows
<1>10. ASSUME NEW p \in Requests, NEW g \in Groups, RestoreGroup(p, g) PROVE AllMatched'
  <2>1. UNCHANGED peer
    BY <1>10 DEF RestoreGroup, Goto
  <2>2. Matched(shelf.peer)' /\ \A q \in Requests : Matched(file[q].peer)'
    BY <1>10 DEF AllMatched, KeysMatch, Matched, RestoreGroup, Goto
  <2> QED
    BY <2>1, <2>2, SameRows
<1>11. ASSUME NEW p \in Requests, NEW u \in Names, RestoreMember(p, u) PROVE AllMatched'
  <2>1. UNCHANGED peer
    BY <1>11 DEF RestoreMember
  <2>2. Matched(shelf.peer)' /\ \A q \in Requests : Matched(file[q].peer)'
    BY <1>11 DEF AllMatched, KeysMatch, Matched, RestoreMember
  <2> QED
    BY <2>1, <2>2, SameRows
<1>12. ASSUME NEW p \in Requests, RestorePreset(p) PROVE AllMatched'
  <2>1. UNCHANGED peer
    BY <1>12 DEF RestorePreset, Goto, local
  <2>2. Matched(shelf.peer)' /\ \A q \in Requests : Matched(file[q].peer)'
    BY <1>12 DEF AllMatched, KeysMatch, Matched, RestorePreset, Goto, local
  <2> QED
    BY <2>1, <2>2, SameRows
<1>13. ASSUME NEW p \in Requests, RestoreDone(p) \/ Fail(p) PROVE AllMatched'
  <2>1. UNCHANGED peer
    BY <1>13 DEF RestoreDone, Fail, Leave, Blank, db, tables
  <2>2. Matched(shelf.peer)' /\ \A q \in Requests : Matched(file[q].peer)'
    <3>1. UNCHANGED shelf /\ file' = [file EXCEPT ![p] = Blank]
      BY <1>13 DEF RestoreDone, Fail, Leave
    <3>2. Matched(Blank.peer)
      BY DEF Matched, Blank
    <3> QED
      BY <3>1, <3>2, BlankIsFile DEF AllMatched, Matched
  <2> QED
    BY <2>1, <2>2, SameRows
<1>14. ASSUME NEW p \in Requests, NEW c \in Configs, NEW k \in Keys \union {NULL},
             WireGuardSave(p, c, k)
      PROVE  AllMatched'
  <2>1. UNCHANGED peer
    BY <1>14 DEF WireGuardSave, Goto, Blank, tables
  <2>2. Matched(shelf.peer)' /\ \A q \in Requests : Matched(file[q].peer)'
    BY <1>14 DEF AllMatched, KeysMatch, Matched, WireGuardSave, Goto, Blank, tables
  <2> QED
    BY <2>1, <2>2, SameRows
<1>15. ASSUME NEW p \in Requests, SaveServer(p) PROVE AllMatched'
  <2>1. UNCHANGED peer
    BY <1>15 DEF SaveServer, Leave, Blank, tables
  <2>2. Matched(shelf.peer)' /\ \A q \in Requests : Matched(file[q].peer)'
    BY <1>15 DEF AllMatched, KeysMatch, Matched, SaveServer, Leave, Blank, tables
  <2> QED
    BY <2>1, <2>2, SameRows
<1>16. ASSUME NEW p \in Requests, RestoreTables(p), ~Merges(p) PROVE AllMatched'
  <2> DEFINE kept == IF "peers" \in opts[p] THEN Blank.peer ELSE peer
  <2>1. /\ pc[p] = "tables" /\ pc'[p] = "regroup"
        /\ UNCHANGED <<shelf, file>>
        /\ peer' = [u \in Names |-> Upsert(kept[u], file[p].peer[u])]
    BY <1>16 DEF RestoreTables, Goto
  <2>2. ASSUME NEW u \in Names, peer'[u] # NULL
        PROVE  peer'[u].priv \in {NULL, peer'[u].pub}
    <3>1. kept[u] \in Row \union {NULL} /\ file[p].peer[u] \in Row \union {NULL}
      BY DEF Blank
    <3>2. kept[u] # NULL => kept[u] = peer[u] /\ "peers" \notin opts[p]
      BY DEF Blank
    <3>3. /\ kept[u] # NULL => kept[u].priv \in {NULL, kept[u].pub}
          /\ file[p].peer[u] # NULL => file[p].peer[u].priv \in {NULL, file[p].peer[u].pub}
      BY <3>2 DEF AllMatched, KeysMatch, Matched
    <3>4. ~(kept[u] # NULL /\ file[p].peer[u] # NULL /\ kept[u].priv # NULL
            /\ file[p].peer[u].priv = NULL /\ file[p].peer[u].pub # kept[u].pub)
      BY <1>16, <2>1, <3>2 DEF Merges, Accounts
    <3>5. peer'[u] = Upsert(kept[u], file[p].peer[u])
      BY <2>1
    <3> HIDE DEF kept
    <3> QED
      BY <2>2, <3>1, <3>3, <3>4, <3>5, UpsertMatches
  <2> QED
    BY <2>1, <2>2, SameFiles
<1>17. ASSUME NEW u \in Names, NEW k \in Keys, UserSave(u, k) PROVE AllMatched'
  <2>1. UNCHANGED <<shelf, file>>
    BY <1>17 DEF UserSave, Edit, local
  <2>2. \A w \in Names : peer'[w] # NULL => peer'[w].priv \in {NULL, peer'[w].pub}
    BY <1>17 DEF AllMatched, KeysMatch, Matched, UserSave, Edit, local
  <2> QED
    BY <2>1, <2>2, SameFiles
<1>18. ASSUME NEW u \in Names, NEW v \in Names, UserRename(u, v) PROVE AllMatched'
  <2>1. UNCHANGED <<shelf, file>>
    BY <1>18 DEF UserRename, Edit, Accounts, local
  <2>2. \A w \in Names : peer'[w] # NULL => peer'[w].priv \in {NULL, peer'[w].pub}
    BY <1>18 DEF AllMatched, KeysMatch, Matched, UserRename, Edit, Accounts, local
  <2> QED
    BY <2>1, <2>2, SameFiles
<1>19. ASSUME NEW u \in Names, UserDelete(u) PROVE AllMatched'
  <2>1. UNCHANGED <<shelf, file>>
    BY <1>19 DEF UserDelete, Edit, Accounts, local
  <2>2. \A w \in Names : peer'[w] # NULL => peer'[w].priv \in {NULL, peer'[w].pub}
    BY <1>19 DEF AllMatched, KeysMatch, Matched, UserDelete, Edit, Accounts, local
  <2> QED
    BY <2>1, <2>2, SameFiles
<1>20. CASE UNCHANGED <<peer, shelf, file>>
  BY <1>20 DEF AllMatched, KeysMatch, Matched
<1>21. ASSUME NEW u \in Names, UserChange(u) PROVE UNCHANGED <<peer, shelf, file>>
  BY <1>21 DEF UserChange, Edit, tables, local
<1>22. ASSUME NEW g \in Groups,
             \/ GroupCreate(g) \/ GroupDelete(g)
             \/ \E u \in Names : MemberAdd(g, u) \/ MemberRemove(g, u)
             \/ \E l \in Limits \union {NULL} : PresetSave(g, l)
      PROVE  UNCHANGED <<peer, shelf, file>>
  BY <1>22 DEF GroupCreate, GroupDelete, MemberAdd, MemberRemove, PresetSave, Edit, local
<1>23. CASE Others
  BY <1>17, <1>18, <1>19, <1>20, <1>21, <1>22, <1>23 DEF Others
<1>24. CASE UNCHANGED vars
  BY <1>20, <1>24 DEF vars, db, tables, local
<1> QED
  BY <1>1, <1>2, <1>3, <1>4, <1>5, <1>6, <1>7, <1>8,
     <1>9, <1>10, <1>11, <1>12, <1>13, <1>14, <1>15, <1>16, <1>23, <1>24
     DEF Next, Export, Restore, Save

\* Whatever saves, renames, backs up and restores, only a restore that keeps an
\* account with a private key, under a file that has none, parts a key pair.
THEOREM OnlyMergesPartPairs == Spec => OnlyMergesPart
<1>1. IInv /\ [Next]_vars => [AllMatched => AllMatched' \/ \E p \in Requests : Merges(p)]_vars
  BY PairStep DEF IInv
<1> QED
  BY Invariance, <1>1, PTL DEF Spec, OnlyMergesPart

\* So the keys of every account match as long as no such restore is made.
THEOREM KeysMatchUntilMerged ==
  Spec /\ [][\A p \in Requests : ~Merges(p)]_vars => []KeysMatch
<1>1. Init => AllMatched
  BY DEF Init, AllMatched, KeysMatch, Matched, Blank
<1>2. IInv /\ AllMatched /\ [Next]_vars /\ [\A p \in Requests : ~Merges(p)]_vars => AllMatched'
  BY PairStep DEF IInv, vars, db, tables, local, AllMatched, KeysMatch, Matched
<1>3. AllMatched => KeysMatch
  BY DEF AllMatched
<1> QED
  BY Invariance, <1>1, <1>2, <1>3, PTL DEF Spec
=============================================================================
