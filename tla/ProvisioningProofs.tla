-------------------------- MODULE ProvisioningProofs --------------------------
(***************************************************************************)
(* Proofs about Provisioning.  Each property says that a check still holds *)
(* when the write comes that rests on it, unless the request was misled:   *)
(* so the invariants say what a request knows at the step it is at.        *)
(***************************************************************************)
EXTENDS Provisioning, TLAPS

\* Who writes a server, or looks for an address, has a Config; peers come after the server.
FormInv ==
    \A p \in Requests :
       /\ pc[p] \in {"wizard", "server", "peers", "save", "restore", "range"} =>
             form[p].config # NULL
       /\ pc[p] = "peers" => server # NULL

\* What a request that was not misled knows.
AdminInv == \A p \in Requests \ misled : pc[p] = "admin" => admins = {}
WizardInv == \A p \in Requests \ misled : pc[p] = "wizard" => config = NULL
SettingsInv == \A p \in Requests \ misled : pc[p] \in Writing => config = form[p].config
AddrInv == \A p \in Requests \ misled : pc[p] = "create" => form[p].addr \notin Used

IInv ==
    /\ TypeOK /\ FormInv
    /\ AdminInv /\ OneAdmin
    /\ WizardInv /\ SettingsInv /\ ServerMatches
    /\ AddrInv /\ DistinctAddresses
-----------------------------------------------------------------------------
\* Every step keeps the types.
LEMMA TypeStep ==
    ASSUME TypeOK, FormInv, [Next]_vars
    PROVE  TypeOK'
<1>1. ASSUME NEW p \in Requests, SetupAdminPost(p) PROVE TypeOK'
  BY <1>1 DEF SetupAdminPost, Goto, NotComplete, TypeOK, Forms, Peers, Accounts,
     PcStates, FormInv, rows, history
<1>2. ASSUME NEW p \in Requests, CountAdmins(p) PROVE TypeOK'
  BY <1>2 DEF CountAdmins, Goto, TypeOK, Forms, Peers, Accounts, PcStates, FormInv,
     rows, history
<1>3. ASSUME NEW p \in Requests, NEW a \in Admins, InsertAdmin(p, a) PROVE TypeOK'
  BY <1>3 DEF InsertAdmin, Leave, Fill, Write, Mark, NoForm, NoPeers, TypeOK, Forms,
     Peers, Accounts, PcStates, FormInv, rows, history
<1>4. ASSUME NEW p \in Requests, NEW c \in Config, SetupWireGuardPost(p, c) PROVE
   TypeOK'
  BY <1>4 DEF SetupWireGuardPost, Submit, Goto, NotComplete, Fill, TypeOK, Forms,
     Peers, Accounts, PcStates, FormInv, rows, history, NoPeers
<1>5. ASSUME NEW p \in Requests, NEW c \in Config, NEW f \in Peers,
   SetupWireGuardImportPost(p, c, f) PROVE TypeOK'
  BY <1>5 DEF SetupWireGuardImportPost, Submit, Goto, NotComplete, Fill, TypeOK,
     Forms, Peers, Accounts, PcStates, FormInv, rows, history
<1>6. ASSUME NEW p \in Requests, WriteSettings(p) PROVE TypeOK'
  BY <1>6 DEF WriteSettings, Goto, WriteFirst, TypeOK, Forms, Peers, Accounts,
     PcStates, FormInv, rows, history
<1>7. ASSUME NEW p \in Requests, WriteServer(p) PROVE TypeOK'
  BY <1>7 DEF WriteServer, Goto, Write, TypeOK, Forms, Peers, Accounts, PcStates,
     FormInv, rows, history
<1>8. ASSUME NEW p \in Requests, NEW u \in Names, ImportPeer(p, u) PROVE TypeOK'
  BY <1>8 DEF ImportPeer, Write, TypeOK, Forms, Peers, Accounts, PcStates, FormInv,
     rows, history
<1>9. ASSUME NEW p \in Requests, SetupDone(p) PROVE TypeOK'
  BY <1>9 DEF SetupDone, Leave, Fill, NoForm, NoPeers, TypeOK, Forms, Peers,
     Accounts, PcStates, FormInv, rows, history
<1>10. ASSUME NEW p \in Requests, NEW c \in Config, WireGuardSave(p, c) PROVE
   TypeOK'
  BY <1>10 DEF WireGuardSave, Replace, Goto, Fill, WriteFirst, NoForm, NoPeers, TypeOK,
     Forms, Peers, Accounts, PcStates, FormInv, rows, history
<1>11. ASSUME NEW p \in Requests, SaveServer(p) PROVE TypeOK'
  BY <1>11 DEF SaveServer, Leave, Fill, Write, NoForm, NoPeers, TypeOK, Forms,
     Peers, Accounts, PcStates, FormInv, rows, history
<1>12. ASSUME NEW p \in Requests, NEW c \in Config, RestoreSettings(p, c) PROVE
   TypeOK'
  BY <1>12 DEF RestoreSettings, Replace, Goto, Fill, WriteFirst, NoForm, NoPeers,
     TypeOK, Forms, Peers, Accounts, PcStates, FormInv, rows, history
<1>13. ASSUME NEW p \in Requests, RestoreServer(p) PROVE TypeOK'
  BY <1>13 DEF RestoreServer, Goto, Fill, Write, NoForm, NoPeers, TypeOK, Forms,
     Peers, Accounts, PcStates, FormInv, rows, history
<1>14. ASSUME NEW p \in Requests, NEW f \in Peers, NEW l \in SUBSET Names, NEW r \in
   BOOLEAN, RestorePeers(p, f, l, r) PROVE TypeOK'
  BY <1>14 DEF RestorePeers, Leave, Fill, Write, NoForm, NoPeers, TypeOK, Forms,
     Peers, Accounts, PcStates, FormInv, rows, history
<1>15. ASSUME NEW p \in Requests, ReadRange(p) PROVE TypeOK'
  BY <1>15 DEF ReadRange, Goto, Fill, NoForm, NoPeers, TypeOK, Forms, Peers,
     Accounts, PcStates, FormInv, rows, history
<1>16. ASSUME NEW p \in Requests, NextClientAllowedIP(p) PROVE TypeOK'
  BY <1>16, HostsAssumption DEF NextClientAllowedIP, Goto, Free, TypeOK, Forms,
     Peers, Accounts, PcStates, FormInv, rows, history, Config
<1>17. ASSUME NEW p \in Requests, NEW h \in Hosts, Type(p, h) PROVE TypeOK'
  BY <1>17 DEF Type, Goto, Fill, NoForm, NoPeers, TypeOK, Forms, Peers, Accounts,
     PcStates, FormInv, rows, history
<1>18. ASSUME NEW p \in Requests, NEW u \in Names, UserCreate(p, u) PROVE TypeOK'
  BY <1>18 DEF UserCreate, Leave, Fill, Write, Mark, NoForm, NoPeers, TypeOK, Forms,
     Peers, Accounts, PcStates, FormInv, rows, history
<1>19. ASSUME NEW p \in Requests, Fail(p) PROVE TypeOK'
  BY <1>19 DEF Fail, Leave, Fill, NoForm, NoPeers, TypeOK, Forms, Peers, Accounts,
     PcStates, FormInv, rows, history
<1>20. ASSUME NEW u \in Names, UserDelete(u) PROVE TypeOK'
  BY <1>20 DEF UserDelete, TypeOK, Forms, Peers, Accounts, PcStates, FormInv, rows,
     history
<1>21. ASSUME Restart PROVE TypeOK'
  BY <1>21 DEF Restart, NoForm, NoPeers, TypeOK, Forms, Peers, Accounts, PcStates,
     FormInv, rows, history
<1>22. CASE UNCHANGED vars
  BY <1>22 DEF vars, rows, history, TypeOK, Forms, Peers, Accounts, PcStates,
     FormInv
<1>23. QED
  BY <1>1, <1>2, <1>3, <1>4, <1>5, <1>6, <1>7, <1>8, <1>9, <1>10, <1>11, <1>12, <1>13,
     <1>14, <1>15, <1>16, <1>17, <1>18, <1>19, <1>20, <1>21, <1>22 DEF Next, Setup,
     Serve

\* Every step keeps the forms in order.
LEMMA FormStep ==
    ASSUME TypeOK, FormInv, [Next]_vars
    PROVE  FormInv'
<1>1. ASSUME NEW p \in Requests, SetupAdminPost(p) PROVE FormInv'
  BY <1>1 DEF SetupAdminPost, Goto, NotComplete, FormInv, TypeOK, Forms, rows,
     history
<1>2. ASSUME NEW p \in Requests, CountAdmins(p) PROVE FormInv'
  BY <1>2 DEF CountAdmins, Goto, FormInv, TypeOK, Forms, rows, history
<1>3. ASSUME NEW p \in Requests, NEW a \in Admins, InsertAdmin(p, a) PROVE FormInv'
  BY <1>3 DEF InsertAdmin, Leave, Fill, Write, Mark, NoForm, NoPeers, FormInv,
     TypeOK, Forms, rows, history
<1>4. ASSUME NEW p \in Requests, NEW c \in Config, SetupWireGuardPost(p, c) PROVE
   FormInv'
  BY <1>4, NullAssumption DEF SetupWireGuardPost, Submit, Goto, NotComplete, Fill,
     FormInv, TypeOK, Forms, rows, history
<1>5. ASSUME NEW p \in Requests, NEW c \in Config, NEW f \in Peers,
   SetupWireGuardImportPost(p, c, f) PROVE FormInv'
  BY <1>5, NullAssumption DEF SetupWireGuardImportPost, Submit, Goto, NotComplete,
     Fill, FormInv, TypeOK, Forms, rows, history
<1>6. ASSUME NEW p \in Requests, WriteSettings(p) PROVE FormInv'
  BY <1>6 DEF WriteSettings, Goto, WriteFirst, FormInv, TypeOK, Forms, rows, history
<1>7. ASSUME NEW p \in Requests, WriteServer(p) PROVE FormInv'
  BY <1>7, NullAssumption DEF WriteServer, Goto, Write, FormInv, TypeOK, Forms,
     rows, history
<1>8. ASSUME NEW p \in Requests, NEW u \in Names, ImportPeer(p, u) PROVE FormInv'
  BY <1>8 DEF ImportPeer, Write, FormInv, TypeOK, Forms, rows, history
<1>9. ASSUME NEW p \in Requests, SetupDone(p) PROVE FormInv'
  BY <1>9 DEF SetupDone, Leave, Fill, NoForm, NoPeers, FormInv, TypeOK, Forms, rows,
     history
<1>10. ASSUME NEW p \in Requests, NEW c \in Config, WireGuardSave(p, c) PROVE
   FormInv'
  BY <1>10, NullAssumption DEF WireGuardSave, Replace, Goto, Fill, WriteFirst, NoForm,
     NoPeers, FormInv, TypeOK, Forms, rows, history
<1>11. ASSUME NEW p \in Requests, SaveServer(p) PROVE FormInv'
  BY <1>11 DEF SaveServer, Leave, Fill, Write, NoForm, NoPeers, FormInv, TypeOK,
     Forms, rows, history
<1>12. ASSUME NEW p \in Requests, NEW c \in Config, RestoreSettings(p, c) PROVE
   FormInv'
  BY <1>12, NullAssumption DEF RestoreSettings, Replace, Goto, Fill, WriteFirst,
     NoForm, NoPeers, FormInv, TypeOK, Forms, rows, history
<1>13. ASSUME NEW p \in Requests, RestoreServer(p) PROVE FormInv'
  BY <1>13, NullAssumption DEF RestoreServer, Goto, Fill, Write, NoForm, NoPeers,
     FormInv, TypeOK, Forms, rows, history
<1>14. ASSUME NEW p \in Requests, NEW f \in Peers, NEW l \in SUBSET Names, NEW r \in
   BOOLEAN, RestorePeers(p, f, l, r) PROVE FormInv'
  BY <1>14, NullAssumption DEF RestorePeers, Leave, Fill, Write, NoForm, NoPeers,
     FormInv, TypeOK, Forms, rows, history
<1>15. ASSUME NEW p \in Requests, ReadRange(p) PROVE FormInv'
  BY <1>15, NullAssumption DEF ReadRange, Goto, Fill, NoForm, NoPeers, FormInv,
     TypeOK, Forms, rows, history
<1>16. ASSUME NEW p \in Requests, NextClientAllowedIP(p) PROVE FormInv'
  BY <1>16 DEF NextClientAllowedIP, Goto, Free, FormInv, TypeOK, Forms, rows,
     history
<1>17. ASSUME NEW p \in Requests, NEW h \in Hosts, Type(p, h) PROVE FormInv'
  BY <1>17 DEF Type, Goto, Fill, NoForm, NoPeers, FormInv, TypeOK, Forms, rows,
     history
<1>18. ASSUME NEW p \in Requests, NEW u \in Names, UserCreate(p, u) PROVE FormInv'
  BY <1>18 DEF UserCreate, Leave, Fill, Write, Mark, NoForm, NoPeers, FormInv,
     TypeOK, Forms, rows, history
<1>19. ASSUME NEW p \in Requests, Fail(p) PROVE FormInv'
  BY <1>19 DEF Fail, Leave, Fill, NoForm, NoPeers, FormInv, TypeOK, Forms, rows,
     history
<1>20. ASSUME NEW u \in Names, UserDelete(u) PROVE FormInv'
  BY <1>20 DEF UserDelete, FormInv, TypeOK, Forms, rows, history
<1>21. ASSUME Restart PROVE FormInv'
  BY <1>21 DEF Restart, NoForm, NoPeers, FormInv, TypeOK, Forms, rows, history
<1>22. CASE UNCHANGED vars
  BY <1>22 DEF vars, rows, history, FormInv, TypeOK, Forms
<1>23. QED
  BY <1>1, <1>2, <1>3, <1>4, <1>5, <1>6, <1>7, <1>8, <1>9, <1>10, <1>11, <1>12, <1>13,
     <1>14, <1>15, <1>16, <1>17, <1>18, <1>19, <1>20, <1>21, <1>22 DEF Next, Setup,
     Serve

\* A count that was not overtaken is right until the insert.
LEMMA AdminStep ==
    ASSUME TypeOK, AdminInv, OneAdmin, [Next]_vars
    PROVE  (AdminInv /\ OneAdmin)'
<1>1. ASSUME NEW p \in Requests, SetupAdminPost(p) PROVE (AdminInv /\ OneAdmin)'
  BY <1>1 DEF SetupAdminPost, Goto, NotComplete, AdminInv, OneAdmin, TypeOK, rows,
     history
<1>2. ASSUME NEW p \in Requests, CountAdmins(p) PROVE (AdminInv /\ OneAdmin)'
  BY <1>2 DEF CountAdmins, Goto, AdminInv, OneAdmin, TypeOK, rows, history
<1>3. ASSUME NEW p \in Requests, NEW a \in Admins, InsertAdmin(p, a) PROVE (AdminInv
   /\ OneAdmin)'
  BY <1>3 DEF InsertAdmin, Leave, Fill, Write, Mark, NoForm, NoPeers, AdminInv,
     OneAdmin, TypeOK, rows, history
<1>4. ASSUME NEW p \in Requests, NEW c \in Config, SetupWireGuardPost(p, c) PROVE
   (AdminInv /\ OneAdmin)'
  BY <1>4 DEF SetupWireGuardPost, Submit, Goto, NotComplete, Fill, AdminInv,
     OneAdmin, TypeOK, rows, history
<1>5. ASSUME NEW p \in Requests, NEW c \in Config, NEW f \in Peers,
   SetupWireGuardImportPost(p, c, f) PROVE (AdminInv /\ OneAdmin)'
  BY <1>5 DEF SetupWireGuardImportPost, Submit, Goto, NotComplete, Fill, AdminInv,
     OneAdmin, TypeOK, rows, history
<1>6. ASSUME NEW p \in Requests, WriteSettings(p) PROVE (AdminInv /\ OneAdmin)'
  BY <1>6 DEF WriteSettings, Goto, WriteFirst, AdminInv, OneAdmin, TypeOK, rows,
     history
<1>7. ASSUME NEW p \in Requests, WriteServer(p) PROVE (AdminInv /\ OneAdmin)'
  BY <1>7 DEF WriteServer, Goto, Write, AdminInv, OneAdmin, TypeOK, rows, history
<1>8. ASSUME NEW p \in Requests, NEW u \in Names, ImportPeer(p, u) PROVE (AdminInv
   /\ OneAdmin)'
  BY <1>8 DEF ImportPeer, Write, AdminInv, OneAdmin, TypeOK, rows, history
<1>9. ASSUME NEW p \in Requests, SetupDone(p) PROVE (AdminInv /\ OneAdmin)'
  BY <1>9 DEF SetupDone, Leave, Fill, NoForm, NoPeers, AdminInv, OneAdmin, TypeOK,
     rows, history
<1>10. ASSUME NEW p \in Requests, NEW c \in Config, WireGuardSave(p, c) PROVE
   (AdminInv /\ OneAdmin)'
  BY <1>10 DEF WireGuardSave, Replace, Goto, Fill, WriteFirst, NoForm, NoPeers, AdminInv,
     OneAdmin, TypeOK, rows, history
<1>11. ASSUME NEW p \in Requests, SaveServer(p) PROVE (AdminInv /\ OneAdmin)'
  BY <1>11 DEF SaveServer, Leave, Fill, Write, NoForm, NoPeers, AdminInv, OneAdmin,
     TypeOK, rows, history
<1>12. ASSUME NEW p \in Requests, NEW c \in Config, RestoreSettings(p, c) PROVE
   (AdminInv /\ OneAdmin)'
  BY <1>12 DEF RestoreSettings, Replace, Goto, Fill, WriteFirst, NoForm, NoPeers,
     AdminInv, OneAdmin, TypeOK, rows, history
<1>13. ASSUME NEW p \in Requests, RestoreServer(p) PROVE (AdminInv /\ OneAdmin)'
  BY <1>13 DEF RestoreServer, Goto, Fill, Write, NoForm, NoPeers, AdminInv, OneAdmin,
     TypeOK, rows, history
<1>14. ASSUME NEW p \in Requests, NEW f \in Peers, NEW l \in SUBSET Names, NEW r \in
   BOOLEAN, RestorePeers(p, f, l, r) PROVE (AdminInv /\ OneAdmin)'
  BY <1>14 DEF RestorePeers, Leave, Fill, Write, NoForm, NoPeers, AdminInv, OneAdmin,
     TypeOK, rows, history
<1>15. ASSUME NEW p \in Requests, ReadRange(p) PROVE (AdminInv /\ OneAdmin)'
  BY <1>15 DEF ReadRange, Goto, Fill, NoForm, NoPeers, AdminInv, OneAdmin, TypeOK,
     rows, history
<1>16. ASSUME NEW p \in Requests, NextClientAllowedIP(p) PROVE (AdminInv /\
   OneAdmin)'
  BY <1>16 DEF NextClientAllowedIP, Goto, Free, AdminInv, OneAdmin, TypeOK, rows,
     history
<1>17. ASSUME NEW p \in Requests, NEW h \in Hosts, Type(p, h) PROVE (AdminInv /\
   OneAdmin)'
  BY <1>17 DEF Type, Goto, Fill, NoForm, NoPeers, AdminInv, OneAdmin, TypeOK, rows,
     history
<1>18. ASSUME NEW p \in Requests, NEW u \in Names, UserCreate(p, u) PROVE (AdminInv
   /\ OneAdmin)'
  BY <1>18 DEF UserCreate, Leave, Fill, Write, Mark, NoForm, NoPeers, AdminInv,
     OneAdmin, TypeOK, rows, history
<1>19. ASSUME NEW p \in Requests, Fail(p) PROVE (AdminInv /\ OneAdmin)'
  BY <1>19 DEF Fail, Leave, Fill, NoForm, NoPeers, AdminInv, OneAdmin, TypeOK, rows,
     history
<1>20. ASSUME NEW u \in Names, UserDelete(u) PROVE (AdminInv /\ OneAdmin)'
  BY <1>20 DEF UserDelete, AdminInv, OneAdmin, TypeOK, rows, history
<1>21. ASSUME Restart PROVE (AdminInv /\ OneAdmin)'
  BY <1>21 DEF Restart, NoForm, NoPeers, AdminInv, OneAdmin, TypeOK, rows, history
<1>22. CASE UNCHANGED vars
  BY <1>22 DEF vars, rows, history, AdminInv, OneAdmin, TypeOK
<1>23. QED
  BY <1>1, <1>2, <1>3, <1>4, <1>5, <1>6, <1>7, <1>8, <1>9, <1>10, <1>11, <1>12, <1>13,
     <1>14, <1>15, <1>16, <1>17, <1>18, <1>19, <1>20, <1>21, <1>22 DEF Next, Setup,
     Serve

\* A check that was not overtaken is right until the settings are written.
LEMMA WizardStep ==
    ASSUME TypeOK, WizardInv, [Next]_vars
    PROVE  WizardInv'
<1>1. ASSUME NEW p \in Requests, SetupAdminPost(p) PROVE WizardInv'
  BY <1>1 DEF SetupAdminPost, Goto, NotComplete, WizardInv, TypeOK, rows, history
<1>2. ASSUME NEW p \in Requests, CountAdmins(p) PROVE WizardInv'
  BY <1>2 DEF CountAdmins, Goto, WizardInv, TypeOK, rows, history
<1>3. ASSUME NEW p \in Requests, NEW a \in Admins, InsertAdmin(p, a) PROVE
   WizardInv'
  BY <1>3 DEF InsertAdmin, Leave, Fill, Write, Mark, NoForm, NoPeers, WizardInv,
     TypeOK, rows, history
<1>4. ASSUME NEW p \in Requests, NEW c \in Config, SetupWireGuardPost(p, c) PROVE
   WizardInv'
  BY <1>4 DEF SetupWireGuardPost, Submit, Goto, NotComplete, Fill, WizardInv,
     TypeOK, rows, history
<1>5. ASSUME NEW p \in Requests, NEW c \in Config, NEW f \in Peers,
   SetupWireGuardImportPost(p, c, f) PROVE WizardInv'
  BY <1>5 DEF SetupWireGuardImportPost, Submit, Goto, NotComplete, Fill, WizardInv,
     TypeOK, rows, history
<1>6. ASSUME NEW p \in Requests, WriteSettings(p) PROVE WizardInv'
  BY <1>6 DEF WriteSettings, Goto, WriteFirst, WizardInv, TypeOK, rows, history
<1>7. ASSUME NEW p \in Requests, WriteServer(p) PROVE WizardInv'
  BY <1>7 DEF WriteServer, Goto, Write, WizardInv, TypeOK, rows, history
<1>8. ASSUME NEW p \in Requests, NEW u \in Names, ImportPeer(p, u) PROVE WizardInv'
  BY <1>8 DEF ImportPeer, Write, WizardInv, TypeOK, rows, history
<1>9. ASSUME NEW p \in Requests, SetupDone(p) PROVE WizardInv'
  BY <1>9 DEF SetupDone, Leave, Fill, NoForm, NoPeers, WizardInv, TypeOK, rows,
     history
<1>10. ASSUME NEW p \in Requests, NEW c \in Config, WireGuardSave(p, c) PROVE
   WizardInv'
  BY <1>10 DEF WireGuardSave, Replace, Goto, Fill, WriteFirst, NoForm, NoPeers, WizardInv,
     TypeOK, rows, history
<1>11. ASSUME NEW p \in Requests, SaveServer(p) PROVE WizardInv'
  BY <1>11 DEF SaveServer, Leave, Fill, Write, NoForm, NoPeers, WizardInv, TypeOK,
     rows, history
<1>12. ASSUME NEW p \in Requests, NEW c \in Config, RestoreSettings(p, c) PROVE
   WizardInv'
  BY <1>12 DEF RestoreSettings, Replace, Goto, Fill, WriteFirst, NoForm, NoPeers,
     WizardInv, TypeOK, rows, history
<1>13. ASSUME NEW p \in Requests, RestoreServer(p) PROVE WizardInv'
  BY <1>13 DEF RestoreServer, Goto, Fill, Write, NoForm, NoPeers, WizardInv, TypeOK,
     rows, history
<1>14. ASSUME NEW p \in Requests, NEW f \in Peers, NEW l \in SUBSET Names, NEW r \in
   BOOLEAN, RestorePeers(p, f, l, r) PROVE WizardInv'
  BY <1>14 DEF RestorePeers, Leave, Fill, Write, NoForm, NoPeers, WizardInv, TypeOK,
     rows, history
<1>15. ASSUME NEW p \in Requests, ReadRange(p) PROVE WizardInv'
  BY <1>15 DEF ReadRange, Goto, Fill, NoForm, NoPeers, WizardInv, TypeOK, rows,
     history
<1>16. ASSUME NEW p \in Requests, NextClientAllowedIP(p) PROVE WizardInv'
  BY <1>16 DEF NextClientAllowedIP, Goto, Free, WizardInv, TypeOK, rows, history
<1>17. ASSUME NEW p \in Requests, NEW h \in Hosts, Type(p, h) PROVE WizardInv'
  BY <1>17 DEF Type, Goto, Fill, NoForm, NoPeers, WizardInv, TypeOK, rows, history
<1>18. ASSUME NEW p \in Requests, NEW u \in Names, UserCreate(p, u) PROVE WizardInv'
  BY <1>18 DEF UserCreate, Leave, Fill, Write, Mark, NoForm, NoPeers, WizardInv,
     TypeOK, rows, history
<1>19. ASSUME NEW p \in Requests, Fail(p) PROVE WizardInv'
  BY <1>19 DEF Fail, Leave, Fill, NoForm, NoPeers, WizardInv, TypeOK, rows, history
<1>20. ASSUME NEW u \in Names, UserDelete(u) PROVE WizardInv'
  BY <1>20 DEF UserDelete, WizardInv, TypeOK, rows, history
<1>21. ASSUME Restart PROVE WizardInv'
  BY <1>21 DEF Restart, NoForm, NoPeers, WizardInv, TypeOK, rows, history
<1>22. CASE UNCHANGED vars
  BY <1>22 DEF vars, rows, history, WizardInv, TypeOK
<1>23. QED
  BY <1>1, <1>2, <1>3, <1>4, <1>5, <1>6, <1>7, <1>8, <1>9, <1>10, <1>11, <1>12, <1>13,
     <1>14, <1>15, <1>16, <1>17, <1>18, <1>19, <1>20, <1>21, <1>22 DEF Next, Setup,
     Serve

\* Settings that were not overwritten are those of the server to come.
LEMMA SettingsStep ==
    ASSUME TypeOK, FormInv, SettingsInv, ServerMatches, [Next]_vars
    PROVE  (SettingsInv /\ ServerMatches)'
<1>1. ASSUME NEW p \in Requests, SetupAdminPost(p) PROVE (SettingsInv /\
   ServerMatches)'
  BY <1>1 DEF SetupAdminPost, Goto, NotComplete, SettingsInv, ServerMatches, Midway,
     Writing, FormInv, TypeOK, Forms, rows, history
<1>2. ASSUME NEW p \in Requests, CountAdmins(p) PROVE (SettingsInv /\
   ServerMatches)'
  BY <1>2 DEF CountAdmins, Goto, SettingsInv, ServerMatches, Midway, Writing,
     FormInv, TypeOK, Forms, rows, history
<1>3. ASSUME NEW p \in Requests, NEW a \in Admins, InsertAdmin(p, a) PROVE
   (SettingsInv /\ ServerMatches)'
  BY <1>3 DEF InsertAdmin, Leave, Fill, Write, Mark, NoForm, NoPeers, SettingsInv,
     ServerMatches, Midway, Writing, FormInv, TypeOK, Forms, rows, history
<1>4. ASSUME NEW p \in Requests, NEW c \in Config, SetupWireGuardPost(p, c) PROVE
   (SettingsInv /\ ServerMatches)'
  BY <1>4 DEF SetupWireGuardPost, Submit, Goto, NotComplete, Fill, SettingsInv,
     ServerMatches, Midway, Writing, FormInv, TypeOK, Forms, rows, history
<1>5. ASSUME NEW p \in Requests, NEW c \in Config, NEW f \in Peers,
   SetupWireGuardImportPost(p, c, f) PROVE (SettingsInv /\ ServerMatches)'
  BY <1>5 DEF SetupWireGuardImportPost, Submit, Goto, NotComplete, Fill,
     SettingsInv, ServerMatches, Midway, Writing, FormInv, TypeOK, Forms, rows,
     history
<1>6. ASSUME NEW p \in Requests, WriteSettings(p) PROVE (SettingsInv /\
   ServerMatches)'
  BY <1>6 DEF WriteSettings, Goto, WriteFirst, SettingsInv, ServerMatches, Midway,
     Writing, FormInv, TypeOK, Forms, rows, history
<1>7. ASSUME NEW p \in Requests, WriteServer(p) PROVE (SettingsInv /\
   ServerMatches)'
  BY <1>7 DEF WriteServer, Goto, Write, SettingsInv, ServerMatches, Midway, Writing,
     FormInv, TypeOK, Forms, rows, history
<1>8. ASSUME NEW p \in Requests, NEW u \in Names, ImportPeer(p, u) PROVE
   (SettingsInv /\ ServerMatches)'
  BY <1>8 DEF ImportPeer, Write, SettingsInv, ServerMatches, Midway, Writing,
     FormInv, TypeOK, Forms, rows, history
<1>9. ASSUME NEW p \in Requests, SetupDone(p) PROVE (SettingsInv /\ ServerMatches)'
  BY <1>9 DEF SetupDone, Leave, Fill, NoForm, NoPeers, SettingsInv, ServerMatches,
     Midway, Writing, FormInv, TypeOK, Forms, rows, history
<1>10. ASSUME NEW p \in Requests, NEW c \in Config, WireGuardSave(p, c) PROVE
   (SettingsInv /\ ServerMatches)'
  BY <1>10 DEF WireGuardSave, Replace, Goto, Fill, WriteFirst, NoForm, NoPeers, SettingsInv,
     ServerMatches, Midway, Writing, FormInv, TypeOK, Forms, rows, history
<1>11. ASSUME NEW p \in Requests, SaveServer(p) PROVE (SettingsInv /\
   ServerMatches)'
  BY <1>11 DEF SaveServer, Leave, Fill, Write, NoForm, NoPeers, SettingsInv,
     ServerMatches, Midway, Writing, FormInv, TypeOK, Forms, rows, history
<1>12. ASSUME NEW p \in Requests, NEW c \in Config, RestoreSettings(p, c) PROVE
   (SettingsInv /\ ServerMatches)'
  BY <1>12 DEF RestoreSettings, Replace, Goto, Fill, WriteFirst, NoForm, NoPeers,
     SettingsInv, ServerMatches, Midway, Writing, FormInv, TypeOK, Forms, rows,
     history
<1>13. ASSUME NEW p \in Requests, RestoreServer(p) PROVE (SettingsInv /\
   ServerMatches)'
  BY <1>13 DEF RestoreServer, Goto, Fill, Write, NoForm, NoPeers, SettingsInv,
     ServerMatches, Midway, Writing, FormInv, TypeOK, Forms, rows, history
<1>14. ASSUME NEW p \in Requests, NEW f \in Peers, NEW l \in SUBSET Names, NEW r \in
   BOOLEAN, RestorePeers(p, f, l, r) PROVE (SettingsInv /\ ServerMatches)'
  BY <1>14 DEF RestorePeers, Leave, Fill, Write, NoForm, NoPeers, SettingsInv,
     ServerMatches, Midway, Writing, FormInv, TypeOK, Forms, rows, history
<1>15. ASSUME NEW p \in Requests, ReadRange(p) PROVE (SettingsInv /\ ServerMatches)'
  BY <1>15 DEF ReadRange, Goto, Fill, NoForm, NoPeers, SettingsInv, ServerMatches,
     Midway, Writing, FormInv, TypeOK, Forms, rows, history
<1>16. ASSUME NEW p \in Requests, NextClientAllowedIP(p) PROVE (SettingsInv /\
   ServerMatches)'
  BY <1>16 DEF NextClientAllowedIP, Goto, Free, SettingsInv, ServerMatches, Midway,
     Writing, FormInv, TypeOK, Forms, rows, history
<1>17. ASSUME NEW p \in Requests, NEW h \in Hosts, Type(p, h) PROVE (SettingsInv /\
   ServerMatches)'
  BY <1>17 DEF Type, Goto, Fill, NoForm, NoPeers, SettingsInv, ServerMatches,
     Midway, Writing, FormInv, TypeOK, Forms, rows, history
<1>18. ASSUME NEW p \in Requests, NEW u \in Names, UserCreate(p, u) PROVE
   (SettingsInv /\ ServerMatches)'
  BY <1>18 DEF UserCreate, Leave, Fill, Write, Mark, NoForm, NoPeers, SettingsInv,
     ServerMatches, Midway, Writing, FormInv, TypeOK, Forms, rows, history
<1>19. ASSUME NEW p \in Requests, Fail(p) PROVE (SettingsInv /\ ServerMatches)'
  BY <1>19 DEF Fail, Leave, Fill, NoForm, NoPeers, SettingsInv, ServerMatches,
     Midway, Writing, FormInv, TypeOK, Forms, rows, history
<1>20. ASSUME NEW u \in Names, UserDelete(u) PROVE (SettingsInv /\ ServerMatches)'
  BY <1>20 DEF UserDelete, SettingsInv, ServerMatches, Midway, Writing, FormInv,
     TypeOK, Forms, rows, history
<1>21. ASSUME Restart PROVE (SettingsInv /\ ServerMatches)'
  BY <1>21 DEF Restart, NoForm, NoPeers, SettingsInv, ServerMatches, Midway,
     Writing, FormInv, TypeOK, Forms, rows, history
<1>22. CASE UNCHANGED vars
  BY <1>22 DEF vars, rows, history, SettingsInv, ServerMatches, Midway, Writing,
     FormInv, TypeOK, Forms
<1>23. QED
  BY <1>1, <1>2, <1>3, <1>4, <1>5, <1>6, <1>7, <1>8, <1>9, <1>10, <1>11, <1>12, <1>13,
     <1>14, <1>15, <1>16, <1>17, <1>18, <1>19, <1>20, <1>21, <1>22 DEF Next, Setup,
     Serve

\* A suggestion that was not overtaken is free until the insert.
LEMMA AddrStep ==
    ASSUME TypeOK, AddrInv, DistinctAddresses, [Next]_vars
    PROVE  (AddrInv /\ DistinctAddresses)'
<1>1. ASSUME NEW p \in Requests, SetupAdminPost(p) PROVE (AddrInv /\
   DistinctAddresses)'
  BY <1>1 DEF SetupAdminPost, Goto, NotComplete, AddrInv, DistinctAddresses, Used,
     Accounts, TypeOK, Forms, rows, history
<1>2. ASSUME NEW p \in Requests, CountAdmins(p) PROVE (AddrInv /\
   DistinctAddresses)'
  BY <1>2 DEF CountAdmins, Goto, AddrInv, DistinctAddresses, Used, Accounts, TypeOK,
     Forms, rows, history
<1>3. ASSUME NEW p \in Requests, NEW a \in Admins, InsertAdmin(p, a) PROVE (AddrInv
   /\ DistinctAddresses)'
  BY <1>3 DEF InsertAdmin, Leave, Fill, Write, Mark, NoForm, NoPeers, AddrInv,
     DistinctAddresses, Used, Accounts, TypeOK, Forms, rows, history
<1>4. ASSUME NEW p \in Requests, NEW c \in Config, SetupWireGuardPost(p, c) PROVE
   (AddrInv /\ DistinctAddresses)'
  BY <1>4 DEF SetupWireGuardPost, Submit, Goto, NotComplete, Fill, AddrInv,
     DistinctAddresses, Used, Accounts, TypeOK, Forms, rows, history
<1>5. ASSUME NEW p \in Requests, NEW c \in Config, NEW f \in Peers,
   SetupWireGuardImportPost(p, c, f) PROVE (AddrInv /\ DistinctAddresses)'
  BY <1>5 DEF SetupWireGuardImportPost, Submit, Goto, NotComplete, Fill, AddrInv,
     DistinctAddresses, Used, Accounts, TypeOK, Forms, rows, history
<1>6. ASSUME NEW p \in Requests, WriteSettings(p) PROVE (AddrInv /\
   DistinctAddresses)'
  BY <1>6 DEF WriteSettings, Goto, WriteFirst, AddrInv, DistinctAddresses, Used,
     Accounts, TypeOK, Forms, rows, history
<1>7. ASSUME NEW p \in Requests, WriteServer(p) PROVE (AddrInv /\
   DistinctAddresses)'
  BY <1>7 DEF WriteServer, Goto, Write, AddrInv, DistinctAddresses, Used, Accounts,
     TypeOK, Forms, rows, history
<1>8. ASSUME NEW p \in Requests, NEW u \in Names, ImportPeer(p, u) PROVE (AddrInv /\
   DistinctAddresses)'
  BY <1>8 DEF ImportPeer, Write, AddrInv, DistinctAddresses, Used, Accounts, TypeOK,
     Forms, rows, history
<1>9. ASSUME NEW p \in Requests, SetupDone(p) PROVE (AddrInv /\ DistinctAddresses)'
  BY <1>9 DEF SetupDone, Leave, Fill, NoForm, NoPeers, AddrInv, DistinctAddresses,
     Used, Accounts, TypeOK, Forms, rows, history
<1>10. ASSUME NEW p \in Requests, NEW c \in Config, WireGuardSave(p, c) PROVE
   (AddrInv /\ DistinctAddresses)'
  BY <1>10 DEF WireGuardSave, Replace, Goto, Fill, WriteFirst, NoForm, NoPeers, AddrInv,
     DistinctAddresses, Used, Accounts, TypeOK, Forms, rows, history
<1>11. ASSUME NEW p \in Requests, SaveServer(p) PROVE (AddrInv /\
   DistinctAddresses)'
  BY <1>11 DEF SaveServer, Leave, Fill, Write, NoForm, NoPeers, AddrInv,
     DistinctAddresses, Used, Accounts, TypeOK, Forms, rows, history
<1>12. ASSUME NEW p \in Requests, NEW c \in Config, RestoreSettings(p, c) PROVE
   (AddrInv /\ DistinctAddresses)'
  BY <1>12 DEF RestoreSettings, Replace, Goto, Fill, WriteFirst, NoForm, NoPeers,
     AddrInv, DistinctAddresses, Used, Accounts, TypeOK, Forms, rows, history
<1>13. ASSUME NEW p \in Requests, RestoreServer(p) PROVE (AddrInv /\
   DistinctAddresses)'
  BY <1>13 DEF RestoreServer, Goto, Fill, Write, NoForm, NoPeers, AddrInv,
     DistinctAddresses, Used, Accounts, TypeOK, Forms, rows, history
<1>14. ASSUME NEW p \in Requests, NEW f \in Peers, NEW l \in SUBSET Names, NEW r \in
   BOOLEAN, RestorePeers(p, f, l, r) PROVE (AddrInv /\ DistinctAddresses)'
  BY <1>14 DEF RestorePeers, Leave, Fill, Write, NoForm, NoPeers, AddrInv,
     DistinctAddresses, Used, Accounts, TypeOK, Forms, rows, history
<1>15. ASSUME NEW p \in Requests, ReadRange(p) PROVE (AddrInv /\ DistinctAddresses)'
  BY <1>15 DEF ReadRange, Goto, Fill, NoForm, NoPeers, AddrInv, DistinctAddresses,
     Used, Accounts, TypeOK, Forms, rows, history
<1>16. ASSUME NEW p \in Requests, NextClientAllowedIP(p) PROVE (AddrInv /\
   DistinctAddresses)'
  BY <1>16 DEF NextClientAllowedIP, Goto, Free, AddrInv, DistinctAddresses, Used,
     Accounts, TypeOK, Forms, rows, history
<1>17. ASSUME NEW p \in Requests, NEW h \in Hosts, Type(p, h) PROVE (AddrInv /\
   DistinctAddresses)'
  BY <1>17 DEF Type, Goto, Fill, NoForm, NoPeers, AddrInv, DistinctAddresses, Used,
     Accounts, TypeOK, Forms, rows, history
<1>18. ASSUME NEW p \in Requests, NEW u \in Names, UserCreate(p, u) PROVE (AddrInv
   /\ DistinctAddresses)'
  BY <1>18 DEF UserCreate, Leave, Fill, Write, Mark, NoForm, NoPeers, AddrInv,
     DistinctAddresses, Used, Accounts, TypeOK, Forms, rows, history
<1>19. ASSUME NEW p \in Requests, Fail(p) PROVE (AddrInv /\ DistinctAddresses)'
  BY <1>19 DEF Fail, Leave, Fill, NoForm, NoPeers, AddrInv, DistinctAddresses, Used,
     Accounts, TypeOK, Forms, rows, history
<1>20. ASSUME NEW u \in Names, UserDelete(u) PROVE (AddrInv /\ DistinctAddresses)'
  BY <1>20 DEF UserDelete, AddrInv, DistinctAddresses, Used, Accounts, TypeOK,
     Forms, rows, history
<1>21. ASSUME Restart PROVE (AddrInv /\ DistinctAddresses)'
  BY <1>21 DEF Restart, NoForm, NoPeers, AddrInv, DistinctAddresses, Used, Accounts,
     TypeOK, Forms, rows, history
<1>22. CASE UNCHANGED vars
  BY <1>22 DEF vars, rows, history, AddrInv, DistinctAddresses, Used, Accounts,
     TypeOK, Forms
<1>23. QED
  BY <1>1, <1>2, <1>3, <1>4, <1>5, <1>6, <1>7, <1>8, <1>9, <1>10, <1>11, <1>12, <1>13,
     <1>14, <1>15, <1>16, <1>17, <1>18, <1>19, <1>20, <1>21, <1>22 DEF Next, Setup,
     Serve

-----------------------------------------------------------------------------
\* The invariant holds in every reachable state.
THEOREM Invariance == Spec => []IInv
<1>1. Init => IInv
  <2> SUFFICES ASSUME Init PROVE IInv
    OBVIOUS
  <2>1. Accounts = {}
    BY DEF Init, Accounts, NoPeers
  <2>2. TypeOK
    <3>1. NoPeers \in Peers
      BY DEF NoPeers, Peers
    <3>2. NoForm \in Forms
      BY <3>1 DEF NoForm, Forms
    <3>3. QED
      BY <2>1, <3>1, <3>2 DEF Init, TypeOK, PcStates
  <2>3. FormInv /\ AdminInv /\ WizardInv /\ SettingsInv /\ AddrInv
    BY DEF Init, FormInv, AdminInv, WizardInv, SettingsInv, Writing, AddrInv
  <2>4. OneAdmin /\ ServerMatches
    BY DEF Init, OneAdmin, ServerMatches
  <2>5. DistinctAddresses
    BY <2>1 DEF DistinctAddresses
  <2>6. QED
    BY <2>2, <2>3, <2>4, <2>5 DEF IInv
<1>2. IInv /\ [Next]_vars => IInv'
  BY TypeStep, FormStep, AdminStep, WizardStep, SettingsStep, AddrStep DEF IInv
<1>3. QED
  BY <1>1, <1>2, PTL DEF Spec

\* The rows keep their types, and accounts refer to a server.
THEOREM TypeCorrect == Spec => []TypeOK
<1>1. IInv => TypeOK
  BY DEF IInv
<1>2. QED
  BY <1>1, Invariance, PTL

\* However many requests there are, all administrators but one were added by
\* requests that were overtaken or whose count failed (handlers.go:185-201).
THEOREM OneAdministrator == Spec => []OneAdmin
<1>1. IInv => OneAdmin
  BY DEF IInv
<1>2. QED
  BY <1>1, Invariance, PTL

\* Addresses that were suggested and not overtaken are distinct, through deletions and
\* restores that replace all accounts, and beside the accounts whose address came from
\* a file or a keyboard: imported, typed, or put back by a restore that keeps the
\* others (peers.go:48-72, backup.go:397-401).
THEOREM AddressesAreDistinct == Spec => []DistinctAddresses
<1>1. IInv => DistinctAddresses
  BY DEF IInv
<1>2. QED
  BY <1>1, Invariance, PTL

\* The server is as the settings say after any number of setups, saves and restores,
\* unless the last one failed between the two writes, found no server to update, or
\* was overtaken there (handlers.go:392-401, state.go:103-110, backup.go:366-372).
THEOREM ServerFollowsSettings == Spec => []ServerMatches
<1>1. IInv => ServerMatches
  BY DEF IInv
<1>2. QED
  BY <1>1, Invariance, PTL

\* The wizard overwrites settings only for those who were misled (handlers.go:330).
THEOREM WizardIsClosed == Spec => WizardIsUsedOnce
<1>1. IInv /\ [Next]_vars =>
         [\A p \in Requests \ misled :
             pc[p] = "wizard" /\ pc'[p] = "server" => config = NULL]_vars
  BY DEF IInv, WizardInv
<1>2. QED
  BY <1>1, Invariance, PTL DEF Spec, WizardIsUsedOnce
=============================================================================
