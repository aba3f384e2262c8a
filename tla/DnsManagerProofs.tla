-------------------------- MODULE DnsManagerProofs --------------------------
(***************************************************************************)
(* Proofs about DnsManager: types, the manager's lock, that no child is    *)
(* ever forgotten while it runs, and that the child follows the database   *)
(* unless one of the known gaps has opened.                                *)
(***************************************************************************)
EXTENDS DnsManager, TLAPS

\* The lock is held by the one request that is between Lock and Leave.
LockInv == \A p \in Procs : pc[p] \in Holding <=> mu = p

\* DNS that is on has an address, in the database and in the plans.
PlanInv ==
    /\ row.on => row.host # NULL
    /\ \A p \in Procs :
          /\ pc[p] \in {"ensure", "list", "alias", "exec"} => want[p].row.on
          /\ pc[p] = "unalias" => ~want[p].row.on
          /\ want[p].row.on => want[p].row.host # NULL

\* A living child is the manager's, and its watcher still waits; one that is being
\* stopped is there until it has ended, and a new one is only made after that.
ChildInv ==
    /\ \A k \in Kids : serves[k] # NULL => k = cmd /\ watcher[k] = "wait"
    /\ \A p \in Procs : /\ pc[p] \in {"wait", "recv"} => cmd # NULL
                        /\ pc[p] = "recv" => serves[cmd] = NULL
                        /\ pc[p] \in {"unalias", "alias", "exec"} => cmd = NULL

Reader(p) == pc[p] \in HasRead
Pending(p) == pc[p] \in {"cut", "push", "read"}

\* p will do what the database says now, as far as it has come.
Knows(p) ==
    /\ want[p].row = row
    /\ row.on /\ pc[p] \notin {"ensure", "list"} => want[p].recs = records
    /\ pc[p] = "exec" => AliasOf(row.host) \subseteq alias

\* When nothing was missed, nobody is late and nobody is about to read, then the
\* last one to have read knows the database; when that one has the lock it still
\* does; and when it has left, the child is right.
SyncInv ==
    missed = {} /\ late = {} /\ (\A p \in Procs : ~Pending(p)) =>
       /\ \A p \in Procs :
             Reader(p) /\ (\A q \in Procs : Reader(q) => p \notin ahead[q]) => Knows(p)
       /\ (\A p \in Procs : ~Reader(p)) =>
             /\ \A p \in Procs : mu = p => Knows(p)
             /\ mu = NULL => Matches

\* Only readers are late, or ahead of others.
LateInv ==
    /\ \A p \in late : Reader(p)
    /\ \A p \in Procs : p \notin ahead[p] /\ \A q \in ahead[p] : Reader(q)

IInv == TypeOK /\ LockInv /\ PlanInv /\ ChildInv /\ EndReachesManager /\ LateInv /\ SyncInv

-----------------------------------------------------------------------------
\* A resolved address is an address.
LEMMA EnsureHostType ==
    ASSUME NEW r \in Row
    PROVE  EnsureHost(r) \in Row /\ EnsureHost(r).host # NULL /\ EnsureHost(r).on = r.on
BY AddressAssumption DEF EnsureHost, AutoHost, Row, Hosts

\* A request that has written is about to read, and has changed only rows.
LEMMA PostPends ==
    ASSUME NEW p \in Procs, Post(p)
    PROVE  /\ pc[p] = "idle"
           /\ \E next \in {"cut", "push", "read"} : pc' = [pc EXCEPT ![p] = next]
           /\ UNCHANGED <<net, mu, child, want, history>>
<1>1. \E next \in {"cut", "push", "read"} : Begin(p, next)
  BY DEF Post, DNSSavePost, DNSRecordPost, DNSReloadPost, WireGuardPost
<1> QED
  BY <1>1 DEF Begin, history

\* Every action keeps the types; what is started has an address.
LEMMA TypeStep == TypeOK /\ PlanInv /\ [Next]_vars => TypeOK'
<1> SUFFICES ASSUME TypeOK, PlanInv, [Next]_vars PROVE TypeOK'
  OBVIOUS
<1> USE DEF TypeOK, PcStates, HasRead, Holding, Reasons, Plan, Row, NoPlan, Off, db, net, child, history
<1>1. ASSUME NEW p \in Procs, Post(p) PROVE TypeOK'
  <2>1. ASSUME NEW on \in BOOLEAN, NEW host \in Own \union {NULL}, DNSSavePost(p, on, host)
        PROVE  TypeOK'
    BY <2>1 DEF DNSSavePost, Begin, EnsureHost, AutoHost, Hosts
  <2>2. ASSUME NEW r \in Records, DNSRecordPost(p, r) PROVE TypeOK'
    BY <2>2 DEF DNSRecordPost, Begin
  <2>3. CASE DNSReloadPost(p)
    BY <2>3 DEF DNSReloadPost, Begin
  <2>4. CASE WireGuardPost(p)
    <3>1. configured' \in BOOLEAN
      BY <2>4 DEF WireGuardPost
    <3> QED
      BY <2>4, <3>1 DEF WireGuardPost, Begin
  <2> QED
    BY <1>1, <2>1, <2>2, <2>3, <2>4 DEF Post
<1>2. ASSUME NEW p \in Procs, TakeDown(p) PROVE TypeOK'
  BY <1>2 DEF TakeDown
<1>3. ASSUME NEW p \in Procs, Push(p) PROVE TypeOK'
  BY <1>3 DEF Push
<1>4. ASSUME NEW p \in Procs, PushFails(p) PROVE TypeOK'
  BY <1>4 DEF PushFails
<1>5. ASSUME NEW p \in Procs, Read(p) PROVE TypeOK'
  BY <1>5 DEF Read, Follow
<1>6. ASSUME NEW p \in Procs, Ensure(p) PROVE TypeOK'
  <2> DEFINE cfg == EnsureHost(want[p].row)
  <2>1. cfg \in Row
    BY EnsureHostType
  <2>2. row' \in Row
    BY <1>6, <2>1 DEF Ensure
  <2>3. want' \in [Procs -> Plan]
    <3>1. [want[p] EXCEPT !.row = cfg] \in Plan
      BY <2>1
    <3>2. want' = want \/ want' = [want EXCEPT ![p].row = cfg]
      BY <1>6 DEF Ensure
    <3> QED
      BY <3>1, <3>2
  <2>4. ahead' \in [Procs -> SUBSET Procs]
    BY <1>6 DEF Ensure, Follow
  <2>5. missed' \subseteq Reasons
    BY <1>6 DEF Ensure
  <2> QED
    BY <1>6, <2>2, <2>3, <2>4, <2>5 DEF Ensure
<1>7. ASSUME NEW p \in Procs, List(p) PROVE TypeOK'
  BY <1>7 DEF List
<1>8. ASSUME NEW p \in Procs, NoChild(p) PROVE TypeOK'
  <2>1. pc' \in [Procs -> PcStates]
    BY <1>8 DEF NoChild, Stopped
  <2> QED
    BY <1>8, <2>1 DEF NoChild, Stopped
<1>9. ASSUME NEW p \in Procs, Signal(p) PROVE TypeOK'
  <2>1. pc' \in [Procs -> PcStates] /\ cmd' \in {cmd, NULL}
    BY <1>9 DEF Signal, Stopped
  <2> QED
    BY <1>9, <2>1 DEF Signal, Stopped
<1>10. ASSUME NEW p \in Procs, StopWaits(p) PROVE TypeOK'
  <2>1. pc' \in [Procs -> PcStates] /\ cmd' \in {cmd, NULL}
    BY <1>10 DEF StopWaits, Stopped
  <2>2. UNCHANGED <<db, net, mu, serves, pipe, watcher, want, history>>
    BY <1>10 DEF StopWaits, Stopped
  <2> QED
    BY <2>1, <2>2
<1>11. ASSUME NEW p \in Procs, StopReceives(p) PROVE TypeOK'
  <2>1. pc' \in [Procs -> PcStates]
    BY <1>11 DEF StopReceives, Stopped
  <2>2. pipe' \in [Kids -> BOOLEAN] /\ cmd' = NULL
    BY <1>11 DEF StopReceives, Stopped
  <2> QED
    BY <1>11, <2>1, <2>2 DEF StopReceives, Stopped
<1>12. ASSUME NEW p \in Procs, Unalias(p) PROVE TypeOK'
  BY <1>12 DEF Unalias, Leave
<1>13. ASSUME NEW p \in Procs, AddAlias(p) PROVE TypeOK'
  BY <1>13 DEF AddAlias, AliasOf, Hosts
<1>14. ASSUME NEW p \in Procs, Exec(p) PROVE TypeOK'
  BY <1>14 DEF Exec, Leave, PlanInv, Snapshot
<1>15. ASSUME NEW p \in Procs, ApplyFails(p) PROVE TypeOK'
  BY <1>15 DEF ApplyFails, Leave, Forget
<1>16. ASSUME NEW p \in Procs, Lock(p) PROVE TypeOK'
  BY <1>16 DEF Lock, Forget
<1>17. ASSUME NEW k \in Kids, Exit(k) PROVE TypeOK'
  BY <1>17 DEF Exit
<1>18. ASSUME NEW k \in Kids, WatchWaits(k) PROVE TypeOK'
  BY <1>18 DEF WatchWaits
<1>19. ASSUME NEW k \in Kids, WatchReceives(k) PROVE TypeOK'
  BY <1>19 DEF WatchReceives
<1>20. ASSUME NEW k \in Kids, WatchClears(k) PROVE TypeOK'
  BY <1>20 DEF WatchClears
<1>21. CASE OtherPush
  BY <1>21 DEF OtherPush
<1>22. CASE RestorePost
  BY <1>22 DEF RestorePost
<1>23. CASE InterfaceLost
  BY <1>23 DEF InterfaceLost
<1>24. CASE Restart
  BY <1>24 DEF Restart
<1>25. CASE UNCHANGED vars
  BY <1>25 DEF vars
<1> QED
  BY <1>1, <1>2, <1>3, <1>4, <1>5, <1>6, <1>7, <1>8, <1>9, <1>10, <1>11, <1>12,
     <1>13, <1>14, <1>15, <1>16, <1>17, <1>18, <1>19, <1>20, <1>21, <1>22, <1>23, <1>24, <1>25
     DEF Next, ApplyStep, WatchStep

\* The lock is taken when it is free and released by its holder.
LEMMA LockStep == TypeOK /\ LockInv /\ [Next]_vars => LockInv'
<1> SUFFICES ASSUME TypeOK, LockInv, [Next]_vars PROVE LockInv'
  OBVIOUS
<1> USE DEF LockInv, TypeOK, PcStates, HasRead, Holding, Procs, db, net, child, history
<1>1. ASSUME NEW p \in Procs, Post(p) PROVE LockInv'
  BY <1>1, PostPends
<1>2. ASSUME NEW p \in Procs, TakeDown(p) PROVE LockInv'
  BY <1>2 DEF TakeDown
<1>3. ASSUME NEW p \in Procs, Push(p) PROVE LockInv'
  BY <1>3 DEF Push
<1>4. ASSUME NEW p \in Procs, PushFails(p) PROVE LockInv'
  BY <1>4 DEF PushFails
<1>5. ASSUME NEW p \in Procs, Read(p) PROVE LockInv'
  BY <1>5 DEF Read, Follow
<1>6. ASSUME NEW p \in Procs, Ensure(p) PROVE LockInv'
  BY <1>6 DEF Ensure, Follow
<1>7. ASSUME NEW p \in Procs, List(p) PROVE LockInv'
  BY <1>7 DEF List
<1>8. ASSUME NEW p \in Procs, NoChild(p) PROVE LockInv'
  BY <1>8 DEF NoChild, Stopped
<1>9. ASSUME NEW p \in Procs, Signal(p) PROVE LockInv'
  BY <1>9 DEF Signal, Stopped
<1>10. ASSUME NEW p \in Procs, StopWaits(p) PROVE LockInv'
  BY <1>10 DEF StopWaits, Stopped
<1>11. ASSUME NEW p \in Procs, StopReceives(p) PROVE LockInv'
  BY <1>11 DEF StopReceives, Stopped
<1>12. ASSUME NEW p \in Procs, Unalias(p) PROVE LockInv'
  BY <1>12, ProcessAssumption DEF Unalias, Leave
<1>13. ASSUME NEW p \in Procs, AddAlias(p) PROVE LockInv'
  BY <1>13 DEF AddAlias
<1>14. ASSUME NEW p \in Procs, Exec(p) PROVE LockInv'
  BY <1>14, ProcessAssumption DEF Exec, Leave
<1>15. ASSUME NEW p \in Procs, ApplyFails(p) PROVE LockInv'
  BY <1>15, ProcessAssumption DEF ApplyFails, Leave, Forget
<1>16. ASSUME NEW p \in Procs, Lock(p) PROVE LockInv'
  BY <1>16, ProcessAssumption DEF Lock, Forget
<1>17. ASSUME NEW k \in Kids, Exit(k) PROVE LockInv'
  BY <1>17 DEF Exit
<1>18. ASSUME NEW k \in Kids, WatchWaits(k) PROVE LockInv'
  BY <1>18 DEF WatchWaits
<1>19. ASSUME NEW k \in Kids, WatchReceives(k) PROVE LockInv'
  BY <1>19 DEF WatchReceives
<1>20. ASSUME NEW k \in Kids, WatchClears(k) PROVE LockInv'
  BY <1>20 DEF WatchClears
<1>21. CASE OtherPush
  BY <1>21 DEF OtherPush
<1>22. CASE RestorePost
  BY <1>22 DEF RestorePost
<1>23. CASE InterfaceLost
  BY <1>23 DEF InterfaceLost
<1>24. CASE Restart
  BY <1>24, ProcessAssumption DEF Restart
<1>25. CASE UNCHANGED vars
  BY <1>25 DEF vars
<1> QED
  BY <1>1, <1>2, <1>3, <1>4, <1>5, <1>6, <1>7, <1>8, <1>9, <1>10, <1>11, <1>12,
     <1>13, <1>14, <1>15, <1>16, <1>17, <1>18, <1>19, <1>20, <1>21, <1>22, <1>23, <1>24, <1>25
     DEF Next, ApplyStep, WatchStep

\* A plan is made by reading, and only its owner changes it.
LEMMA PlanStep == TypeOK /\ PlanInv /\ [Next]_vars => PlanInv'
<1> SUFFICES ASSUME TypeOK, PlanInv, [Next]_vars PROVE PlanInv'
  OBVIOUS
<1> USE DEF PlanInv, TypeOK, HasRead, Plan, Row, db, net, child, history
<1>1. ASSUME NEW p \in Procs, Post(p) PROVE PlanInv'
  <2>1. ASSUME NEW on \in BOOLEAN, NEW host \in Own \union {NULL}, DNSSavePost(p, on, host)
        PROVE  PlanInv'
    <3>1. [on |-> on, host |-> host] \in Row
      BY DEF Hosts
    <3> QED
      BY <2>1, <3>1, EnsureHostType DEF DNSSavePost, Begin
  <2>2. ASSUME NEW r \in Records, DNSRecordPost(p, r) PROVE PlanInv'
    BY <2>2 DEF DNSRecordPost, Begin
  <2>3. CASE DNSReloadPost(p)
    BY <2>3 DEF DNSReloadPost, Begin
  <2>4. CASE WireGuardPost(p)
    BY <2>4 DEF WireGuardPost, Begin
  <2> QED
    BY <1>1, <2>1, <2>2, <2>3, <2>4 DEF Post
<1>2. ASSUME NEW p \in Procs, TakeDown(p) PROVE PlanInv'
  BY <1>2 DEF TakeDown
<1>3. ASSUME NEW p \in Procs, Push(p) PROVE PlanInv'
  BY <1>3 DEF Push
<1>4. ASSUME NEW p \in Procs, PushFails(p) PROVE PlanInv'
  BY <1>4 DEF PushFails
<1>5. ASSUME NEW p \in Procs, Read(p) PROVE PlanInv'
  BY <1>5 DEF Read, Follow
<1>6. ASSUME NEW p \in Procs, Ensure(p) PROVE PlanInv'
  BY <1>6, EnsureHostType DEF Ensure, Follow
<1>7. ASSUME NEW p \in Procs, List(p) PROVE PlanInv'
  BY <1>7 DEF List
<1>8. ASSUME NEW p \in Procs, NoChild(p) PROVE PlanInv'
  BY <1>8 DEF NoChild, Stopped
<1>9. ASSUME NEW p \in Procs, Signal(p) PROVE PlanInv'
  BY <1>9 DEF Signal, Stopped
<1>10. ASSUME NEW p \in Procs, StopWaits(p) PROVE PlanInv'
  BY <1>10 DEF StopWaits, Stopped
<1>11. ASSUME NEW p \in Procs, StopReceives(p) PROVE PlanInv'
  BY <1>11 DEF StopReceives, Stopped
<1>12. ASSUME NEW p \in Procs, Unalias(p) PROVE PlanInv'
  BY <1>12 DEF Unalias, Leave, NoPlan, Off
<1>13. ASSUME NEW p \in Procs, AddAlias(p) PROVE PlanInv'
  BY <1>13 DEF AddAlias
<1>14. ASSUME NEW p \in Procs, Exec(p) PROVE PlanInv'
  BY <1>14 DEF Exec, Leave, NoPlan, Off
<1>15. ASSUME NEW p \in Procs, ApplyFails(p) PROVE PlanInv'
  BY <1>15 DEF ApplyFails, Leave, Forget, NoPlan, Off
<1>16. ASSUME NEW p \in Procs, Lock(p) PROVE PlanInv'
  BY <1>16 DEF Lock, Forget
<1>17. ASSUME NEW k \in Kids, Exit(k) PROVE PlanInv'
  BY <1>17 DEF Exit
<1>18. ASSUME NEW k \in Kids, WatchWaits(k) PROVE PlanInv'
  BY <1>18 DEF WatchWaits
<1>19. ASSUME NEW k \in Kids, WatchReceives(k) PROVE PlanInv'
  BY <1>19 DEF WatchReceives
<1>20. ASSUME NEW k \in Kids, WatchClears(k) PROVE PlanInv'
  BY <1>20 DEF WatchClears
<1>21. CASE OtherPush
  BY <1>21 DEF OtherPush
<1>22. CASE RestorePost
  BY <1>22 DEF RestorePost
<1>23. CASE InterfaceLost
  BY <1>23 DEF InterfaceLost
<1>24. CASE Restart
  BY <1>24 DEF Restart, NoPlan, Off
<1>25. CASE UNCHANGED vars
  BY <1>25 DEF vars
<1> QED
  BY <1>1, <1>2, <1>3, <1>4, <1>5, <1>6, <1>7, <1>8, <1>9, <1>10, <1>11, <1>12,
     <1>13, <1>14, <1>15, <1>16, <1>17, <1>18, <1>19, <1>20, <1>21, <1>22, <1>23, <1>24, <1>25
     DEF Next, ApplyStep, WatchStep

\* A child is forgotten only when it has ended.
LEMMA ChildStep == TypeOK /\ LockInv /\ ChildInv /\ [Next]_vars => ChildInv'
<1> SUFFICES ASSUME TypeOK, LockInv, ChildInv, [Next]_vars PROVE ChildInv'
  OBVIOUS
<1> USE DEF ChildInv, LockInv, TypeOK, Holding, db, net, child, history
<1>1. ASSUME NEW p \in Procs, Post(p) PROVE ChildInv'
  BY <1>1, PostPends
<1>2. ASSUME NEW p \in Procs, TakeDown(p) PROVE ChildInv'
  BY <1>2 DEF TakeDown
<1>3. ASSUME NEW p \in Procs, Push(p) PROVE ChildInv'
  BY <1>3 DEF Push
<1>4. ASSUME NEW p \in Procs, PushFails(p) PROVE ChildInv'
  BY <1>4 DEF PushFails
<1>5. ASSUME NEW p \in Procs, Read(p) PROVE ChildInv'
  BY <1>5 DEF Read, Follow
<1>6. ASSUME NEW p \in Procs, Ensure(p) PROVE ChildInv'
  BY <1>6 DEF Ensure, Follow
<1>7. ASSUME NEW p \in Procs, List(p) PROVE ChildInv'
  BY <1>7 DEF List
<1>8. ASSUME NEW p \in Procs, NoChild(p) PROVE ChildInv'
  BY <1>8 DEF NoChild, Stopped
<1>9. ASSUME NEW p \in Procs, Signal(p) PROVE ChildInv'
  BY <1>9 DEF Signal, Stopped
<1>10. ASSUME NEW p \in Procs, StopWaits(p) PROVE ChildInv'
  BY <1>10 DEF StopWaits, Stopped
<1>11. ASSUME NEW p \in Procs, StopReceives(p) PROVE ChildInv'
  BY <1>11 DEF StopReceives, Stopped
<1>12. ASSUME NEW p \in Procs, Unalias(p) PROVE ChildInv'
  BY <1>12 DEF Unalias, Leave
<1>13. ASSUME NEW p \in Procs, AddAlias(p) PROVE ChildInv'
  BY <1>13 DEF AddAlias
<1>14. ASSUME NEW p \in Procs, Exec(p) PROVE ChildInv'
  BY <1>14, ProcessAssumption DEF Exec, Leave, Free
<1>15. ASSUME NEW p \in Procs, ApplyFails(p) PROVE ChildInv'
  BY <1>15 DEF ApplyFails, Leave, Forget
<1>16. ASSUME NEW p \in Procs, Lock(p) PROVE ChildInv'
  BY <1>16 DEF Lock, Forget
<1>17. ASSUME NEW k \in Kids, Exit(k) PROVE ChildInv'
  BY <1>17 DEF Exit
<1>18. ASSUME NEW k \in Kids, WatchWaits(k) PROVE ChildInv'
  BY <1>18 DEF WatchWaits
<1>19. ASSUME NEW k \in Kids, WatchReceives(k) PROVE ChildInv'
  BY <1>19 DEF WatchReceives
<1>20. ASSUME NEW k \in Kids, WatchClears(k) PROVE ChildInv'
  BY <1>20, ProcessAssumption DEF WatchClears
<1>21. CASE OtherPush
  BY <1>21 DEF OtherPush
<1>22. CASE RestorePost
  BY <1>22 DEF RestorePost
<1>23. CASE InterfaceLost
  BY <1>23 DEF InterfaceLost
<1>24. CASE Restart
  BY <1>24 DEF Restart
<1>25. CASE UNCHANGED vars
  BY <1>25 DEF vars
<1> QED
  BY <1>1, <1>2, <1>3, <1>4, <1>5, <1>6, <1>7, <1>8, <1>9, <1>10, <1>11, <1>12,
     <1>13, <1>14, <1>15, <1>16, <1>17, <1>18, <1>19, <1>20, <1>21, <1>22, <1>23, <1>24, <1>25
     DEF Next, ApplyStep, WatchStep

\* Nobody is called late who does not read.
LEMMA LateStep == TypeOK /\ LockInv /\ LateInv /\ [Next]_vars => LateInv'
<1> SUFFICES ASSUME TypeOK, LockInv, LateInv, [Next]_vars PROVE LateInv'
  OBVIOUS
<1> USE DEF LateInv, Reader, TypeOK, HasRead, Holding, db, net, child, history
<1>1. ASSUME NEW p \in Procs, Post(p) PROVE LateInv'
  BY <1>1, PostPends
<1>2. ASSUME NEW p \in Procs, TakeDown(p) PROVE LateInv'
  BY <1>2 DEF TakeDown
<1>3. ASSUME NEW p \in Procs, Push(p) PROVE LateInv'
  BY <1>3 DEF Push
<1>4. ASSUME NEW p \in Procs, PushFails(p) PROVE LateInv'
  BY <1>4 DEF PushFails
<1>5. ASSUME NEW p \in Procs, Read(p) PROVE LateInv'
  BY <1>5 DEF Read, Follow
<1>6. ASSUME NEW p \in Procs, Ensure(p) PROVE LateInv'
  BY <1>6 DEF Ensure, Follow
<1>7. ASSUME NEW p \in Procs, List(p) PROVE LateInv'
  BY <1>7 DEF List
<1>8. ASSUME NEW p \in Procs, NoChild(p) PROVE LateInv'
  BY <1>8 DEF NoChild, Stopped
<1>9. ASSUME NEW p \in Procs, Signal(p) PROVE LateInv'
  BY <1>9 DEF Signal, Stopped
<1>10. ASSUME NEW p \in Procs, StopWaits(p) PROVE LateInv'
  BY <1>10 DEF StopWaits, Stopped
<1>11. ASSUME NEW p \in Procs, StopReceives(p) PROVE LateInv'
  BY <1>11 DEF StopReceives, Stopped
<1>12. ASSUME NEW p \in Procs, Unalias(p) PROVE LateInv'
  BY <1>12 DEF Unalias, Leave
<1>13. ASSUME NEW p \in Procs, AddAlias(p) PROVE LateInv'
  BY <1>13 DEF AddAlias
<1>14. ASSUME NEW p \in Procs, Exec(p) PROVE LateInv'
  BY <1>14 DEF Exec, Leave
<1>15. ASSUME NEW p \in Procs, ApplyFails(p) PROVE LateInv'
  BY <1>15 DEF ApplyFails, Leave, Forget
<1>16. ASSUME NEW p \in Procs, Lock(p) PROVE LateInv'
  BY <1>16 DEF Lock, Forget
<1>17. ASSUME NEW k \in Kids, Exit(k) PROVE LateInv'
  BY <1>17 DEF Exit
<1>18. ASSUME NEW k \in Kids, WatchWaits(k) PROVE LateInv'
  BY <1>18 DEF WatchWaits
<1>19. ASSUME NEW k \in Kids, WatchReceives(k) PROVE LateInv'
  BY <1>19 DEF WatchReceives
<1>20. ASSUME NEW k \in Kids, WatchClears(k) PROVE LateInv'
  BY <1>20 DEF WatchClears
<1>21. CASE OtherPush
  BY <1>21 DEF OtherPush
<1>22. CASE RestorePost
  BY <1>22 DEF RestorePost
<1>23. CASE InterfaceLost
  BY <1>23 DEF InterfaceLost
<1>24. CASE Restart
  BY <1>24 DEF Restart
<1>25. CASE UNCHANGED vars
  BY <1>25 DEF vars
<1> QED
  BY <1>1, <1>2, <1>3, <1>4, <1>5, <1>6, <1>7, <1>8, <1>9, <1>10, <1>11, <1>12,
     <1>13, <1>14, <1>15, <1>16, <1>17, <1>18, <1>19, <1>20, <1>21, <1>22, <1>23, <1>24, <1>25
     DEF Next, ApplyStep, WatchStep

\* The argument for InSync.
LEMMA SyncStep == IInv /\ [Next]_vars => SyncInv'
<1> SUFFICES ASSUME IInv, [Next]_vars PROVE SyncInv'
  OBVIOUS
<1> USE DEF IInv, LockInv, PlanInv, ChildInv, SyncInv, Matches, Knows, Reader, Pending, LateInv, TypeOK, HasRead, Holding, db, net, child, history
<1>1. ASSUME NEW p \in Procs, Post(p) PROVE SyncInv'
  <2>1. pc'[p] \in {"cut", "push", "read"}
    BY <1>1, PostPends
  <2> QED
    BY <2>1
<1>2. ASSUME NEW p \in Procs, TakeDown(p) PROVE SyncInv'
  BY <1>2 DEF TakeDown
<1>3. ASSUME NEW p \in Procs, Push(p) PROVE SyncInv'
  BY <1>3 DEF Push
<1>4. ASSUME NEW p \in Procs, PushFails(p) PROVE SyncInv'
  BY <1>4 DEF PushFails
<1>5. ASSUME NEW p \in Procs, Read(p) PROVE SyncInv'
  BY <1>5 DEF Read, Follow
<1>6. ASSUME NEW p \in Procs, Ensure(p) PROVE SyncInv'
  <2> DEFINE cfg == EnsureHost(want[p].row)
  <2>1. CASE cfg = want[p].row
    BY <1>6, <2>1 DEF Ensure
  <2>2. CASE cfg # want[p].row
    <3>1. pc'[p] = "list" /\ row' = cfg /\ want'[p].row = cfg /\ Follow(p)
      <4>1. want[p] \in Plan /\ want' = [want EXCEPT ![p].row = cfg]
        BY <1>6, <2>2 DEF Ensure
      <4>2. want'[p].row = cfg
        BY <4>1
      <4> QED
        BY <1>6, <2>2, <4>2 DEF Ensure
    <3>2. Reader(p)' /\ Knows(p)'
      BY <3>1
    <3>3. \A q \in Procs : Reader(q)' /\ q # p => q \in ahead'[p]
      BY <1>6, <3>1 DEF Ensure, Follow
    <3> QED
      BY <3>2, <3>3
  <2> QED
    BY <2>1, <2>2
<1>7. ASSUME NEW p \in Procs, List(p) PROVE SyncInv'
  BY <1>7 DEF List
<1>8. ASSUME NEW p \in Procs, NoChild(p) PROVE SyncInv'
  BY <1>8 DEF NoChild, Stopped
<1>9. ASSUME NEW p \in Procs, Signal(p) PROVE SyncInv'
  BY <1>9, ProcessAssumption DEF Signal, Stopped
<1>10. ASSUME NEW p \in Procs, StopWaits(p) PROVE SyncInv'
  BY <1>10, ProcessAssumption DEF StopWaits, Stopped
<1>11. ASSUME NEW p \in Procs, StopReceives(p) PROVE SyncInv'
  BY <1>11, ProcessAssumption DEF StopReceives, Stopped
<1>12. ASSUME NEW p \in Procs, Unalias(p) PROVE SyncInv'
  <2>1. mu = p /\ mu' = NULL
    BY <1>12 DEF Unalias, Leave
  <2>2. Knows(p) => Matches'
    BY <1>12 DEF Unalias
  <2>4. \A q \in Procs : q # p => want'[q] = want[q] /\ pc'[q] = pc[q]
    BY <1>12 DEF Unalias, Leave
  <2>5. late' = late
    BY <1>12 DEF Unalias, Leave
  <2> QED
    BY <1>12, <2>1, <2>2, <2>4, <2>5, ProcessAssumption DEF Unalias, Leave
<1>13. ASSUME NEW p \in Procs, AddAlias(p) PROVE SyncInv'
  BY <1>13 DEF AddAlias
<1>14. ASSUME NEW p \in Procs, Exec(p) PROVE SyncInv'
  <2>1. mu = p /\ mu' = NULL
    BY <1>14 DEF Exec, Leave
  <2>2. PICK k \in Kids :
           /\ cmd' = k
           /\ serves' = [serves EXCEPT ![k] = [host |-> want[p].row.host, recs |-> want[p].recs]]
    BY <1>14 DEF Exec
  <2>3. Knows(p) => Matches'
    BY <1>14, <2>2, ProcessAssumption DEF Exec
  <2>4. \A q \in Procs : q # p => want'[q] = want[q] /\ pc'[q] = pc[q]
    BY <1>14 DEF Exec, Leave
  <2>5. late' = late
    BY <1>14 DEF Exec, Leave
  <2> QED
    BY <1>14, <2>1, <2>3, <2>4, <2>5, ProcessAssumption DEF Exec, Leave
<1>15. ASSUME NEW p \in Procs, ApplyFails(p) PROVE SyncInv'
  BY <1>15 DEF ApplyFails, Leave, Forget
<1>16. ASSUME NEW p \in Procs, Lock(p) PROVE SyncInv'
  <2>1. CASE p \in late
    <3>1. "stale" \in missed'
      BY <1>16, <2>1 DEF Lock
    <3> QED
      BY <3>1
  <2>3. CASE p \notin late /\ (late # {} \/ ahead[p] # {})
    <3>1. PICK q \in late \union ahead[p] : q # p
      BY <2>3
    <3>2. q \in late'
      BY <1>16, <3>1 DEF Lock
    <3> QED
      BY <3>2
  <2>2. CASE late = {} /\ ahead[p] = {}
    <3>1. mu' = p /\ pc'[p] = "stop" /\ UNCHANGED <<db, net, child, want, missed, late>>
      BY <1>16, <2>2 DEF Lock
    <3>2. \A q \in Procs : q # p => pc'[q] = pc[q] /\ ahead'[q] = ahead[q] \ {p}
      BY <1>16 DEF Lock, Forget
    <3>3. \A q \in Procs : Reader(q)' <=> Reader(q) /\ q # p
      BY <3>1, <3>2
    <3>4. Reader(p) /\ p \notin ahead[p]
      BY <1>16 DEF Lock
    <3>5. Knows(p) => Knows(p)'
      BY <1>16, <3>1 DEF Lock
    <3>6. \A q \in Procs : Reader(q)' => (Knows(q) => Knows(q)')
      BY <3>1, <3>2, <3>3
    <3>7. (\A q \in Procs : ~Pending(q)') => \A q \in Procs : ~Pending(q)
      BY <1>16, <3>2 DEF Lock
    <3> QED
      BY <2>2, <3>1, <3>2, <3>3, <3>4, <3>5, <3>6, <3>7, ProcessAssumption
  <2> QED
    BY <2>1, <2>2, <2>3
<1>17. ASSUME NEW k \in Kids, Exit(k) PROVE SyncInv'
  <2>1. CASE Signalled(k)
    <3>1. mu # NULL /\ mu' = mu
      BY <1>17, <2>1, ProcessAssumption DEF Signalled, Exit
    <3> QED
      BY <1>17, <2>1, <3>1 DEF Exit
  <2>2. CASE ~Signalled(k)
    BY <1>17, <2>2 DEF Exit
  <2> QED
    BY <2>1, <2>2
<1>18. ASSUME NEW k \in Kids, WatchWaits(k) PROVE SyncInv'
  BY <1>18 DEF WatchWaits
<1>19. ASSUME NEW k \in Kids, WatchReceives(k) PROVE SyncInv'
  BY <1>19 DEF WatchReceives
<1>20. ASSUME NEW k \in Kids, WatchClears(k) PROVE SyncInv'
  <2>1. CASE cmd = k
    <3>1. serves[k] = NULL
      BY <1>20 DEF WatchClears
    <3>2. row.on => [host |-> row.host, recs |-> records] # NULL
      BY NoSnapshotAssumption DEF Snapshot, Row
    <3>3. ~Matches
      BY <2>1, <3>1, <3>2, ProcessAssumption
    <3> QED
      BY <1>20, <2>1, <3>3 DEF WatchClears
  <2>2. CASE cmd # k
    BY <1>20, <2>2 DEF WatchClears
  <2> QED
    BY <2>1, <2>2
<1>21. CASE OtherPush
  BY <1>21 DEF OtherPush
<1>22. CASE RestorePost
  BY <1>22 DEF RestorePost
<1>23. CASE InterfaceLost
  BY <1>23 DEF InterfaceLost
<1>24. CASE Restart
  <2>1. Main \in Procs /\ pc'[Main] = "push"
    BY <1>24 DEF Restart, Procs
  <2> QED
    BY <2>1
<1>25. CASE UNCHANGED vars
  BY <1>25 DEF vars
<1> QED
  BY <1>1, <1>2, <1>3, <1>4, <1>5, <1>6, <1>7, <1>8, <1>9, <1>10, <1>11, <1>12,
     <1>13, <1>14, <1>15, <1>16, <1>17, <1>18, <1>19, <1>20, <1>21, <1>22, <1>23, <1>24, <1>25
     DEF Next, ApplyStep, WatchStep

\* Who has read the end of the child that the manager has.
LEMMA EndStep ==
    TypeOK /\ LockInv /\ ChildInv /\ EndReachesManager /\ [Next]_vars => EndReachesManager'
<1> SUFFICES ASSUME TypeOK, LockInv, ChildInv, EndReachesManager, [Next]_vars
             PROVE  EndReachesManager'
  OBVIOUS
<1> USE DEF EndReachesManager, ChildInv, LockInv, TypeOK, Holding, db, net, child, history
<1>1. ASSUME NEW p \in Procs, Post(p) PROVE EndReachesManager'
  BY <1>1, PostPends
<1>2. ASSUME NEW p \in Procs, TakeDown(p) PROVE EndReachesManager'
  BY <1>2 DEF TakeDown
<1>3. ASSUME NEW p \in Procs, Push(p) PROVE EndReachesManager'
  BY <1>3 DEF Push
<1>4. ASSUME NEW p \in Procs, PushFails(p) PROVE EndReachesManager'
  BY <1>4 DEF PushFails
<1>5. ASSUME NEW p \in Procs, Read(p) PROVE EndReachesManager'
  BY <1>5 DEF Read, Follow
<1>6. ASSUME NEW p \in Procs, Ensure(p) PROVE EndReachesManager'
  BY <1>6 DEF Ensure, Follow
<1>7. ASSUME NEW p \in Procs, List(p) PROVE EndReachesManager'
  BY <1>7 DEF List
<1>8. ASSUME NEW p \in Procs, NoChild(p) PROVE EndReachesManager'
  BY <1>8 DEF NoChild, Stopped
<1>9. ASSUME NEW p \in Procs, Signal(p) PROVE EndReachesManager'
  BY <1>9 DEF Signal, Stopped
<1>10. ASSUME NEW p \in Procs, StopWaits(p) PROVE EndReachesManager'
  BY <1>10 DEF StopWaits, Stopped
<1>11. ASSUME NEW p \in Procs, StopReceives(p) PROVE EndReachesManager'
  BY <1>11 DEF StopReceives, Stopped
<1>12. ASSUME NEW p \in Procs, Unalias(p) PROVE EndReachesManager'
  BY <1>12 DEF Unalias, Leave
<1>13. ASSUME NEW p \in Procs, AddAlias(p) PROVE EndReachesManager'
  BY <1>13 DEF AddAlias
<1>14. ASSUME NEW p \in Procs, Exec(p) PROVE EndReachesManager'
  BY <1>14, ProcessAssumption DEF Exec, Leave, Free
<1>15. ASSUME NEW p \in Procs, ApplyFails(p) PROVE EndReachesManager'
  BY <1>15 DEF ApplyFails, Leave, Forget
<1>16. ASSUME NEW p \in Procs, Lock(p) PROVE EndReachesManager'
  BY <1>16 DEF Lock, Forget
<1>17. ASSUME NEW k \in Kids, Exit(k) PROVE EndReachesManager'
  BY <1>17 DEF Exit
<1>18. ASSUME NEW k \in Kids, WatchWaits(k) PROVE EndReachesManager'
  BY <1>18 DEF WatchWaits
<1>19. ASSUME NEW k \in Kids, WatchReceives(k) PROVE EndReachesManager'
  BY <1>19 DEF WatchReceives
<1>20. ASSUME NEW k \in Kids, WatchClears(k) PROVE EndReachesManager'
  BY <1>20, ProcessAssumption DEF WatchClears
<1>21. CASE OtherPush
  BY <1>21 DEF OtherPush
<1>22. CASE RestorePost
  BY <1>22 DEF RestorePost
<1>23. CASE InterfaceLost
  BY <1>23 DEF InterfaceLost
<1>24. CASE Restart
  BY <1>24 DEF Restart
<1>25. CASE UNCHANGED vars
  BY <1>25 DEF vars
<1> QED
  BY <1>1, <1>2, <1>3, <1>4, <1>5, <1>6, <1>7, <1>8, <1>9, <1>10, <1>11, <1>12,
     <1>13, <1>14, <1>15, <1>16, <1>17, <1>18, <1>19, <1>20, <1>21, <1>22, <1>23, <1>24, <1>25
     DEF Next, ApplyStep, WatchStep

\* Who holds the lock and waits for a report that is gone waits on.
LEMMA EmbraceStep ==
    ASSUME TypeOK, LockInv, [Next]_vars, ~Restart, NEW q \in Procs, Embrace(q)
    PROVE  Embrace(q)'
<1> USE DEF Embrace, LockInv, TypeOK, Holding, db, net, child, history
<1>1. ASSUME NEW p \in Procs, Post(p) PROVE Embrace(q)'
  BY <1>1, PostPends, ProcessAssumption
<1>2. ASSUME NEW p \in Procs, TakeDown(p) PROVE Embrace(q)'
  BY <1>2, ProcessAssumption DEF TakeDown
<1>3. ASSUME NEW p \in Procs, Push(p) PROVE Embrace(q)'
  BY <1>3, ProcessAssumption DEF Push
<1>4. ASSUME NEW p \in Procs, PushFails(p) PROVE Embrace(q)'
  BY <1>4, ProcessAssumption DEF PushFails
<1>5. ASSUME NEW p \in Procs, Read(p) PROVE Embrace(q)'
  BY <1>5, ProcessAssumption DEF Read, Follow
<1>6. ASSUME NEW p \in Procs, Ensure(p) PROVE Embrace(q)'
  BY <1>6, ProcessAssumption DEF Ensure, Follow
<1>7. ASSUME NEW p \in Procs, List(p) PROVE Embrace(q)'
  BY <1>7, ProcessAssumption DEF List
<1>8. ASSUME NEW p \in Procs, NoChild(p) PROVE Embrace(q)'
  BY <1>8, ProcessAssumption DEF NoChild, Stopped
<1>9. ASSUME NEW p \in Procs, Signal(p) PROVE Embrace(q)'
  BY <1>9, ProcessAssumption DEF Signal, Stopped
<1>10. ASSUME NEW p \in Procs, StopWaits(p) PROVE Embrace(q)'
  BY <1>10, ProcessAssumption DEF StopWaits, Stopped
<1>11. ASSUME NEW p \in Procs, StopReceives(p) PROVE Embrace(q)'
  BY <1>11, ProcessAssumption DEF StopReceives, Stopped
<1>12. ASSUME NEW p \in Procs, Unalias(p) PROVE Embrace(q)'
  BY <1>12, ProcessAssumption DEF Unalias, Leave
<1>13. ASSUME NEW p \in Procs, AddAlias(p) PROVE Embrace(q)'
  BY <1>13, ProcessAssumption DEF AddAlias
<1>14. ASSUME NEW p \in Procs, Exec(p) PROVE Embrace(q)'
  BY <1>14, ProcessAssumption DEF Exec, Leave, Free
<1>15. ASSUME NEW p \in Procs, ApplyFails(p) PROVE Embrace(q)'
  BY <1>15, ProcessAssumption DEF ApplyFails, Leave, Forget
<1>16. ASSUME NEW p \in Procs, Lock(p) PROVE Embrace(q)'
  BY <1>16, ProcessAssumption DEF Lock, Forget
<1>17. ASSUME NEW k \in Kids, Exit(k) PROVE Embrace(q)'
  BY <1>17, ProcessAssumption DEF Exit
<1>18. ASSUME NEW k \in Kids, WatchWaits(k) PROVE Embrace(q)'
  BY <1>18, ProcessAssumption DEF WatchWaits
<1>19. ASSUME NEW k \in Kids, WatchReceives(k) PROVE Embrace(q)'
  BY <1>19, ProcessAssumption DEF WatchReceives
<1>20. ASSUME NEW k \in Kids, WatchClears(k) PROVE Embrace(q)'
  BY <1>20, ProcessAssumption DEF WatchClears
<1>21. CASE OtherPush
  BY <1>21, ProcessAssumption DEF OtherPush
<1>22. CASE RestorePost
  BY <1>22, ProcessAssumption DEF RestorePost
<1>23. CASE InterfaceLost
  BY <1>23, ProcessAssumption DEF InterfaceLost
<1>25. CASE UNCHANGED vars
  BY <1>25, ProcessAssumption DEF vars
<1> QED
  BY <1>1, <1>2, <1>3, <1>4, <1>5, <1>6, <1>7, <1>8, <1>9, <1>10, <1>11, <1>12,
     <1>13, <1>14, <1>15, <1>16, <1>17, <1>18, <1>19, <1>20, <1>21, <1>22, <1>23, <1>25
     DEF Next, ApplyStep, WatchStep

-----------------------------------------------------------------------------
(* DnsManager implements Supervisor.  A step of p changes the drafts and the  *)
(* plans by p's own.                                                          *)

OwnDraft(p) == IF Drafting(p) THEN {want[p].row} ELSE {}
OwnPlan(p) == IF Planning(p) THEN {Aim(p)} ELSE {}
OthersDrafts(p) == {want[q].row : q \in {r \in Procs \ {p} : Drafting(r)}}
OthersPlans(p) == {Aim(q) : q \in {r \in Procs \ {p} : Planning(r)}}

LEMMA Shares ==
    ASSUME NEW p \in Procs
    PROVE  Drafts = OthersDrafts(p) \union OwnDraft(p) /\ Plans = OthersPlans(p) \union OwnPlan(p)
BY DEF Drafts, Plans, OwnDraft, OwnPlan, OthersDrafts, OthersPlans

LEMMA SharesNext ==
    ASSUME NEW p \in Procs, \A q \in Procs \ {p} : pc'[q] = pc[q] /\ want'[q] = want[q]
    PROVE  /\ Drafts' = OthersDrafts(p) \union OwnDraft(p)'
           /\ Plans' = OthersPlans(p) \union OwnPlan(p)'
<1>1. \A q \in Procs \ {p} : (Drafting(q)' <=> Drafting(q)) /\ (Planning(q)' <=> Planning(q))
  BY DEF Drafting, Planning
<1>2. \A q \in Procs \ {p} : Aim(q)' = Aim(q)
  BY DEF Aim
<1>3. Drafts' = OthersDrafts(p) \union OwnDraft(p)'
  BY <1>1 DEF Drafts, OwnDraft, OthersDrafts
<1>4. Plans' = OthersPlans(p) \union OwnPlan(p)'
  BY <1>1, <1>2 DEF Plans, OwnPlan, OthersPlans
<1> QED
  BY <1>3, <1>4

\* Whoever works is busy.
LEMMA Busy ==
    ASSUME NEW p \in Procs
    PROVE  (pc[p] # "idle" => ~Quiet) /\ (pc'[p] # "idle" => ~Quiet')
BY DEF Quiet

\* What p does that keeps its share, and keeps working, the supervisor does not see.
LEMMA Unseen ==
    ASSUME NEW p \in Procs, \A q \in Procs \ {p} : pc'[q] = pc[q] /\ want'[q] = want[q],
           OwnDraft(p)' = OwnDraft(p), OwnPlan(p)' = OwnPlan(p),
           pc[p] # "idle", pc'[p] # "idle",
           UNCHANGED <<row, records, serves, missed>>
    PROVE  UNCHANGED Sup!vars
<1>1. Drafts' = Drafts /\ Plans' = Plans
  BY Shares, SharesNext
<1>2. Answers' = Answers
  BY DEF Answers
<1>3. (~Quiet)' = ~Quiet
  BY Busy
<1> QED
  BY <1>1, <1>2, <1>3 DEF Sup!vars

LEMMA SupervisorStep == IInv /\ IInv' /\ InSync' /\ [Next]_vars => [Sup!Next]_(Sup!vars)
<1> SUFFICES ASSUME IInv, IInv', InSync', [Next]_vars PROVE Sup!Next \/ UNCHANGED Sup!vars
  OBVIOUS
<1> USE DEF db, net, child, history
<1>0. TypeOK /\ TypeOK' /\ LockInv /\ PlanInv /\ ChildInv /\ SyncInv'
  BY DEF IInv
<1>a. pc \in [Procs -> PcStates] /\ want \in [Procs -> Plan] /\ serves \in [Kids -> Snapshot \union {NULL}]
  BY <1>0 DEF TypeOK
\* Nobody leaves a share behind.
<1>i. Sup!Leave
  <2>1. Quiet' => Drafts' = {} /\ Plans' = {}
    BY DEF Quiet, Drafts, Plans, Drafting, Planning, Holding
  <2>2. (~Quiet)' \in BOOLEAN
    BY DEF Quiet
  <2> QED
    BY <2>1, <2>2 DEF Sup!Leave
\* Nothing lives while the manager has no child.
<1>b. cmd = NULL => Answers = {}
  BY <1>0, ProcessAssumption DEF ChildInv, Answers
\* The last to leave, if nothing was missed, leaves the right one.
<1>c. Quiet' /\ missed' = {} => Sup!Right'
  <2> SUFFICES ASSUME Quiet', missed' = {} PROVE Sup!Right'
    OBVIOUS
  <2>1. Matches'
    BY DEF InSync
  <2>2. \A k \in Kids : serves'[k] # NULL => k = cmd'
    BY DEF IInv, ChildInv
  <2>3. CASE row'.on
    <3>1. cmd' \in Kids /\ serves'[cmd'] = Sup!Aim(row', records')
      BY <1>0, <2>1, <2>3 DEF Matches, Sup!Aim, TypeOK
    <3>2. Sup!Aim(row', records') # NULL
      BY <1>0, <2>3, NoSnapshotAssumption DEF IInv, PlanInv, TypeOK, Row, Snapshot, Sup!Aim
    <3>3. Answers' = {Sup!Aim(row', records')}
      BY <2>2, <3>1, <3>2 DEF Answers
    <3> QED
      BY <2>3, <3>3 DEF Sup!Right
  <2>4. CASE ~row'.on
    <3>1. cmd' = NULL
      BY <2>1, <2>4 DEF Matches
    <3>2. Answers' = {}
      BY <2>2, <3>1, ProcessAssumption DEF Answers
    <3> QED
      BY <2>4, <3>2 DEF Sup!Right
  <2> QED
    BY <2>3, <2>4
<1>1. ASSUME NEW p \in Procs, Post(p) PROVE Sup!Next
  <2>1. pc[p] = "idle" /\ UNCHANGED <<want, serves, missed>>
    BY <1>1, PostPends
  <2>2. pc'[p] \in {"cut", "push", "read"} /\ \A q \in Procs \ {p} : pc'[q] = pc[q]
    BY <1>1, <1>a, PostPends
  <2>3. Drafts' = Drafts /\ Plans' = Plans
    <3>1. OwnDraft(p) = {} /\ OwnPlan(p) = {} /\ OwnDraft(p)' = {} /\ OwnPlan(p)' = {}
      BY <2>1, <2>2 DEF OwnDraft, OwnPlan, Drafting, Planning, Holding
    <3> QED
      BY <2>1, <2>2, <3>1, Shares, SharesNext
  <2>4. row' \in Sup!Row /\ records' \subseteq Records
    BY <1>0 DEF TypeOK, Row, Sup!Row
  <2>5. ~Quiet'
    BY <2>2, Busy
  <2>6. Answers' = Answers
    BY <2>1 DEF Answers
  <2> QED
    BY <2>1, <2>3, <2>4, <2>5, <2>6 DEF Sup!Next, Sup!Write
<1>2. ASSUME NEW p \in Procs, TakeDown(p) \/ Push(p) PROVE UNCHANGED Sup!vars
  <2>1. /\ pc[p] \in {"cut", "push"} /\ pc'[p] \in {"push", "read"}
        /\ \A q \in Procs \ {p} : pc'[q] = pc[q]
        /\ UNCHANGED <<row, records, want, serves, missed>>
    BY <1>2, <1>a DEF TakeDown, Push
  <2>2. OwnDraft(p)' = OwnDraft(p) /\ OwnPlan(p)' = OwnPlan(p)
    BY <2>1 DEF OwnDraft, OwnPlan, Drafting, Planning, Holding
  <2> QED
    BY <2>1, <2>2, Unseen
\* A request that gives up takes its share with it.
<1>d. ASSUME NEW p \in Procs, pc[p] # "idle", pc' = [pc EXCEPT ![p] = "idle"],
             \A q \in Procs \ {p} : want'[q] = want[q],
             missed' # {}, UNCHANGED <<row, records, serves>>
      PROVE  Sup!Next
  <2>1. OwnDraft(p)' = {} /\ OwnPlan(p)' = {} /\ \A q \in Procs \ {p} : pc'[q] = pc[q]
    BY <1>a, <1>d DEF OwnDraft, OwnPlan, Drafting, Planning, Holding
  <2>2. Drafts' \subseteq Drafts /\ Plans' \subseteq Plans
    BY <1>d, <2>1, Shares, SharesNext
  <2>3. Answers' = Answers
    BY <1>d DEF Answers
  <2>4. (~Quiet)' \in {~Quiet, FALSE}
    BY <1>d, Busy
  <2> QED
    BY <1>i, <1>d, <2>2, <2>3, <2>4 DEF Sup!Next, Sup!Trouble
<1>4. ASSUME NEW p \in Procs, PushFails(p) PROVE Sup!Next
  <2>1. /\ pc[p] # "idle" /\ pc' = [pc EXCEPT ![p] = "idle"]
        /\ missed' # {} /\ UNCHANGED <<row, records, serves, want>>
    BY <1>4 DEF PushFails
  <2> QED
    BY <2>1, <1>d
<1>5. ASSUME NEW p \in Procs, Read(p) PROVE Sup!Next
  <2>1. /\ pc[p] = "read" /\ pc'[p] = IF row.on THEN "ensure" ELSE "lock"
        /\ want'[p].row = row
        /\ \A q \in Procs \ {p} : pc'[q] = pc[q] /\ want'[q] = want[q]
        /\ missed' = {} /\ UNCHANGED <<row, records, serves>>
    BY <1>5, <1>a DEF Read, Plan
  <2>2. OwnDraft(p) = {} /\ OwnPlan(p) = {}
    BY <2>1 DEF OwnDraft, OwnPlan, Drafting, Planning, Holding
  <2>3. /\ OwnDraft(p)' = IF row.on THEN {row} ELSE {}
        /\ OwnPlan(p)' = IF row.on THEN {} ELSE {NULL}
    BY <2>1 DEF OwnDraft, OwnPlan, Drafting, Planning, Holding, Aim
  <2>4. /\ IF row.on THEN Drafts' = Drafts \union {row} /\ Plans' = Plans
                     ELSE Plans' = Plans \union {NULL} /\ Drafts' = Drafts
    BY <2>1, <2>2, <2>3, Shares, SharesNext
  <2>5. Answers' = Answers /\ ~Quiet /\ ~Quiet'
    BY <2>1, Busy DEF Answers
  <2> QED
    BY <2>1, <2>4, <2>5 DEF Sup!Next, Sup!Read
<1>6. ASSUME NEW p \in Procs, Ensure(p) PROVE Sup!Next \/ UNCHANGED Sup!vars
  <2> DEFINE d == want[p].row
             cfg == EnsureHost(d)
  <2>1. /\ pc[p] = "ensure" /\ pc'[p] = "list"
        /\ \A q \in Procs \ {p} : pc'[q] = pc[q]
        /\ UNCHANGED <<records, serves>>
    BY <1>6, <1>a DEF Ensure
  <2>2. CASE cfg = d
    <3>1. UNCHANGED <<row, want, missed>>
      BY <1>6, <2>2 DEF Ensure
    <3>2. OwnDraft(p)' = OwnDraft(p) /\ OwnPlan(p)' = OwnPlan(p)
      BY <2>1, <3>1 DEF OwnDraft, OwnPlan, Drafting, Planning, Holding
    <3> QED
      BY <2>1, <3>1, <3>2, Unseen
  <2>3. CASE cfg # d
    <3>1. /\ want' = [want EXCEPT ![p].row = cfg] /\ row' = cfg
          /\ missed' = IF row = d THEN missed ELSE missed \union {"overwrite"}
      BY <1>6, <2>3 DEF Ensure
    <3>2. want'[p].row = cfg /\ \A q \in Procs \ {p} : want'[q] = want[q]
      BY <1>a, <3>1 DEF Plan
    <3>3. cfg \in {[d EXCEPT !.host = h] : h \in Hosts}
      <4>1. AutoHost \in Hosts
        BY DEF AutoHost, Hosts
      <4>2. cfg = [d EXCEPT !.host = AutoHost]
        BY <2>3 DEF EnsureHost
      <4> QED
        BY <4>1, <4>2
    <3>4. OwnDraft(p) = {d} /\ OwnPlan(p) = {} /\ OwnDraft(p)' = {cfg} /\ OwnPlan(p)' = {}
      BY <2>1, <3>2 DEF OwnDraft, OwnPlan, Drafting, Planning, Holding
    <3>5. /\ Plans' = Plans /\ d \in Drafts
          /\ Drafts' \in {Drafts \union {cfg}, (Drafts \ {d}) \union {cfg}}
      <4> HIDE DEF d, cfg
      <4>1. /\ Drafts = OthersDrafts(p) \union {d} /\ Drafts' = OthersDrafts(p) \union {cfg}
            /\ Plans' = Plans
        <5>1. /\ Drafts = OthersDrafts(p) \union OwnDraft(p)
              /\ Plans = OthersPlans(p) \union OwnPlan(p)
          BY Shares
        <5>2. /\ Drafts' = OthersDrafts(p) \union OwnDraft(p)'
              /\ Plans' = OthersPlans(p) \union OwnPlan(p)'
          BY <2>1, <3>2, SharesNext
        <5> QED
          BY <3>4, <5>1, <5>2
      <4>2. CASE d \in OthersDrafts(p)
        <5>1. Drafts = OthersDrafts(p)
          BY <4>1, <4>2
        <5> QED
          BY <4>1, <5>1
      <4>3. CASE d \notin OthersDrafts(p)
        <5>1. Drafts \ {d} = OthersDrafts(p)
          BY <4>1, <4>3
        <5> QED
          BY <4>1, <5>1
      <4> QED
        BY <4>2, <4>3
    <3>6. Answers' = Answers /\ (~Quiet)' = ~Quiet
      BY <2>1, Busy DEF Answers
    <3>7. (missed = {})' = (missed = {} /\ row = d)
      BY <3>1
    <3> QED
      BY <2>1, <3>1, <3>3, <3>5, <3>6, <3>7 DEF Sup!Next, Sup!Resolve
  <2> QED
    BY <2>2, <2>3
<1>7. ASSUME NEW p \in Procs, List(p) PROVE Sup!Next
  <2> DEFINE d == want[p].row
  <2>1. /\ pc[p] = "list" /\ pc'[p] = "lock" /\ d.on
        /\ want'[p].row = d /\ want'[p].recs = records
        /\ \A q \in Procs \ {p} : pc'[q] = pc[q] /\ want'[q] = want[q]
        /\ UNCHANGED <<row, records, serves, missed>>
    BY <1>7, <1>a, <1>0 DEF List, PlanInv, Plan
  <2>2. OwnDraft(p) = {d} /\ OwnPlan(p) = {} /\ OwnDraft(p)' = {}
    BY <2>1 DEF OwnDraft, OwnPlan, Drafting, Planning, Holding
  <2>3. OwnPlan(p)' = {Sup!Aim(d, records)}
    BY <2>1 DEF OwnPlan, Planning, Aim, Sup!Aim
  <2>4. /\ d \in Drafts /\ Drafts' \in {Drafts, Drafts \ {d}}
        /\ Plans' = Plans \union {Sup!Aim(d, records)}
    BY <2>1, <2>2, <2>3, Shares, SharesNext
  <2>5. Answers' = Answers /\ (~Quiet)' = ~Quiet
    BY <2>1, Busy DEF Answers
  <2> QED
    BY <2>1, <2>4, <2>5 DEF Sup!Next, Sup!ReadRecords
\* Stopping and adding an address are steps on the way.
<1>e. ASSUME NEW p \in Procs, pc[p] \in Holding,
             pc' = pc \/ \E next \in Holding : pc' = [pc EXCEPT ![p] = next],
             UNCHANGED <<row, records, want, serves, missed>>
      PROVE  UNCHANGED Sup!vars
  <2>1. pc'[p] \in Holding /\ \A q \in Procs \ {p} : pc'[q] = pc[q]
    BY <1>a, <1>e
  <2>2. Aim(p)' = Aim(p)
    BY <1>e DEF Aim
  <2>3. OwnDraft(p)' = OwnDraft(p) /\ OwnPlan(p)' = OwnPlan(p)
    BY <1>e, <2>1, <2>2 DEF OwnDraft, OwnPlan, Drafting, Planning, Holding
  <2>4. pc[p] # "idle" /\ pc'[p] # "idle"
    BY <1>e, <2>1 DEF Holding
  <2> QED
    BY <1>e, <2>1, <2>3, <2>4, Unseen
<1>8. ASSUME NEW p \in Procs, NoChild(p) \/ Signal(p) \/ StopWaits(p) \/ StopReceives(p)
      PROVE  UNCHANGED Sup!vars
  <2>1. pc[p] \in {"stop", "wait", "recv"} /\ UNCHANGED <<row, records, want, serves, missed>>
    BY <1>8 DEF NoChild, Signal, StopWaits, StopReceives, Stopped
  <2>2. \E next \in {"wait", "recv", "alias", "unalias"} : pc' = [pc EXCEPT ![p] = next]
    <3>1. Stopped(p) => \E next \in {"alias", "unalias"} : pc' = [pc EXCEPT ![p] = next]
      BY DEF Stopped
    <3> QED
      BY <1>8, <3>1 DEF NoChild, Signal, StopWaits, StopReceives
  <2> QED
    BY <1>e, <2>1, <2>2 DEF Holding
\* Whoever has carried out its plan leaves.
<1>f. ASSUME NEW p \in Procs, pc[p] \in {"unalias", "exec"}, Leave(p),
             UNCHANGED <<row, records, missed>>
      PROVE  Aim(p) \in Plans /\ Sup!Done(Aim(p))
  <2>1. pc'[p] = "idle" /\ \A q \in Procs \ {p} : pc'[q] = pc[q] /\ want'[q] = want[q]
    BY <1>a, <1>f DEF Leave
  <2>2. OwnDraft(p) = {} /\ OwnPlan(p) = {Aim(p)} /\ OwnDraft(p)' = {} /\ OwnPlan(p)' = {}
    BY <1>f, <2>1 DEF OwnDraft, OwnPlan, Drafting, Planning, Holding
  <2>3. Drafts' = Drafts /\ Aim(p) \in Plans /\ Plans' \in {Plans, Plans \ {Aim(p)}}
    BY <2>1, <2>2, Shares, SharesNext
  <2>4. missed = {} /\ ~(~Quiet)' => Sup!Right'
    BY <1>c, <1>f
  <2> QED
    BY <1>i, <1>f, <2>3, <2>4 DEF Sup!Done
<1>12. ASSUME NEW p \in Procs, Unalias(p) PROVE Sup!Next
  <2>1. pc[p] = "unalias" /\ Leave(p) /\ UNCHANGED <<row, records, missed, serves>>
    BY <1>12 DEF Unalias
  <2>2. Aim(p) = NULL /\ cmd = NULL
    BY <1>0, <2>1 DEF Aim, PlanInv, ChildInv
  <2>3. Answers = {} /\ Answers' = Answers
    BY <1>b, <2>1, <2>2 DEF Answers
  <2>4. NULL \in Plans /\ Sup!Done(NULL)
    BY <1>f, <2>1, <2>2
  <2> QED
    BY <2>3, <2>4 DEF Sup!Next, Sup!StayOff
<1>13. ASSUME NEW p \in Procs, AddAlias(p) PROVE UNCHANGED Sup!vars
  <2>1. /\ pc[p] = "alias" /\ pc' = [pc EXCEPT ![p] = "exec"]
        /\ UNCHANGED <<row, records, want, serves, missed>>
    BY <1>13 DEF AddAlias
  <2> QED
    BY <1>e, <2>1 DEF Holding
<1>14. ASSUME NEW p \in Procs, Exec(p) PROVE Sup!Next
  <2>1. pc[p] = "exec" /\ Leave(p) /\ UNCHANGED <<row, records, missed>>
    BY <1>14 DEF Exec
  <2>2. /\ Aim(p) = [host |-> want[p].row.host, recs |-> want[p].recs]
        /\ Aim(p) \in Snapshot /\ cmd = NULL
    BY <1>0, <1>a, <2>1 DEF Aim, PlanInv, ChildInv, Plan, Row, Snapshot
  <2>3. PICK k \in Kids : serves' = [serves EXCEPT ![k] = Aim(p)]
    BY <1>14, <2>2 DEF Exec
  <2>4. \A j \in Kids : serves[j] = NULL
    BY <1>0, <2>2, ProcessAssumption DEF ChildInv
  <2>5. Aim(p) # NULL
    BY <2>2, NoSnapshotAssumption
  <2>6. Answers = {} /\ Answers' = {Aim(p)}
    BY <1>a, <2>3, <2>4, <2>5 DEF Answers
  <2>7. Aim(p) \in Plans /\ Sup!Done(Aim(p))
    BY <1>f, <2>1
  <2>8. Sup!Start(Aim(p))
    BY <2>5, <2>6, <2>7 DEF Sup!Start
  <2> QED
    BY <2>7, <2>8 DEF Sup!Next
<1>15. ASSUME NEW p \in Procs, ApplyFails(p) PROVE Sup!Next
  <2>1. /\ pc[p] # "idle" /\ pc' = [pc EXCEPT ![p] = "idle"]
        /\ want' = [want EXCEPT ![p] = NoPlan]
        /\ missed' # {} /\ UNCHANGED <<row, records, serves>>
    BY <1>15 DEF ApplyFails, Leave
  <2>2. \A q \in Procs \ {p} : want'[q] = want[q]
    BY <1>a, <2>1
  <2> QED
    BY <2>1, <2>2, <1>d
\* Whatever goes wrong beside the requests.
<1>g. ASSUME UNCHANGED <<row, records, pc, want>>
      PROVE  UNCHANGED <<row, records, Drafts, Plans, ~Quiet>>
  BY <1>g DEF Drafts, Plans, Quiet, Drafting, Planning, Aim
<1>16. ASSUME NEW p \in Procs, Lock(p) PROVE Sup!Next \/ UNCHANGED Sup!vars
  <2>1. /\ pc[p] = "lock" /\ pc'[p] = "stop" /\ \A q \in Procs \ {p} : pc'[q] = pc[q]
        /\ UNCHANGED <<row, records, want, serves>>
        /\ missed' = missed \/ "stale" \in missed'
    BY <1>16, <1>a DEF Lock
  <2>2. Aim(p)' = Aim(p)
    BY <2>1 DEF Aim
  <2>3. OwnDraft(p)' = OwnDraft(p) /\ OwnPlan(p)' = OwnPlan(p)
    BY <2>1, <2>2 DEF OwnDraft, OwnPlan, Drafting, Planning, Holding
  <2>4. CASE missed' = missed
    BY <2>1, <2>3, <2>4, Unseen
  <2>5. CASE "stale" \in missed'
    <3>1. Drafts' = Drafts /\ Plans' = Plans
      BY <2>1, <2>3, Shares, SharesNext
    <3>2. Answers' = Answers /\ (~Quiet)' = ~Quiet
      BY <2>1, Busy DEF Answers
    <3> QED
      BY <1>i, <2>1, <2>5, <3>1, <3>2 DEF Sup!Next, Sup!Trouble
  <2> QED
    BY <2>1, <2>4, <2>5
<1>17. ASSUME NEW k \in Kids, Exit(k) PROVE Sup!Next
  <2>1. /\ UNCHANGED <<row, records, pc, want>>
        /\ serves' = [serves EXCEPT ![k] = NULL] /\ serves[k] # NULL
    BY <1>17 DEF Exit
  <2>2. \A j \in Kids : serves'[j] = NULL
    BY <1>0, <1>a, <2>1 DEF ChildInv
  <2>3. Answers' = {}
    BY <2>2 DEF Answers
  <2>4. CASE Signalled(k)
    <3>1. missed' = missed
      BY <1>17, <2>4 DEF Exit
    <3>2. PICK p \in Procs : Planning(p)
      BY <2>4 DEF Signalled, Planning, Holding
    <3>3. Plans # {}
      BY <3>2 DEF Plans
    <3> QED
      BY <1>g, <2>1, <2>3, <3>1, <3>3 DEF Sup!Next, Sup!Stop
  <2>5. CASE ~Signalled(k)
    <3>1. missed' # {}
      BY <1>17, <2>5 DEF Exit
    <3> QED
      BY <1>i, <1>g, <2>1, <2>3, <3>1 DEF Sup!Next, Sup!Trouble
  <2> QED
    BY <2>4, <2>5
<1>h. ASSUME UNCHANGED <<row, records, pc, want, serves, missed>>
      PROVE  UNCHANGED Sup!vars
  <2>1. Answers' = Answers
    BY <1>h DEF Answers
  <2> QED
    BY <1>g, <1>h, <2>1 DEF Sup!vars
<1>18. ASSUME NEW k \in Kids, WatchStep(k) \/ WatchClears(k) PROVE UNCHANGED Sup!vars
  BY <1>h, <1>18 DEF WatchStep, WatchWaits, WatchReceives, WatchClears
<1>21. CASE OtherPush
  BY <1>h, <1>21 DEF OtherPush
<1>22. CASE RestorePost \/ InterfaceLost
  <2>1. UNCHANGED <<row, records, pc, want, serves>> /\ missed' # {}
    BY <1>22 DEF RestorePost, InterfaceLost
  <2>2. Answers' = Answers
    BY <2>1 DEF Answers
  <2> QED
    BY <1>i, <1>g, <2>1, <2>2 DEF Sup!Next, Sup!Trouble
<1>24. CASE Restart
  <2>1. /\ \A q \in Procs : pc'[q] \in {"idle", "push"}
        /\ Main \in Procs /\ pc'[Main] = "push"
        /\ \A k \in Kids : serves'[k] = NULL
        /\ UNCHANGED <<row, records, missed>>
    BY <1>24 DEF Restart, Procs
  <2>2. Drafts' = {} /\ Plans' = {} /\ Answers' = {}
    BY <2>1 DEF Drafts, Plans, Answers, Drafting, Planning, Holding
  <2>3. ~Quiet'
    BY <2>1, Busy
  <2> QED
    BY <2>1, <2>2, <2>3 DEF Sup!Next, Sup!Restart
<1>25. CASE UNCHANGED vars
  BY <1>h, <1>25 DEF vars
<1> QED
  BY <1>1, <1>2, <1>4, <1>5, <1>6, <1>7, <1>8, <1>12, <1>13, <1>14, <1>15, <1>16, <1>17,
     <1>18, <1>21, <1>22, <1>24, <1>25 DEF Next, ApplyStep, WatchStep

-----------------------------------------------------------------------------
(* The theorems. *)

LEMMA Start == Init => IInv
<1> SUFFICES ASSUME Init PROVE IInv
  OBVIOUS
<1> USE DEF Init, Off, NoPlan
<1>1. TypeOK
  BY DEF TypeOK, Row, Plan, PcStates
<1>2. LockInv /\ PlanInv /\ LateInv
  BY ProcessAssumption DEF LockInv, PlanInv, LateInv, Holding
<1>3. ChildInv /\ EndReachesManager
  BY DEF ChildInv, EndReachesManager
<1>4. SyncInv
  BY ProcessAssumption DEF SyncInv, Reader, Matches, HasRead
<1> QED
  BY <1>1, <1>2, <1>3, <1>4 DEF IInv

LEMMA Invariance == Spec => []IInv
<1>1. IInv /\ [Next]_vars => IInv'
  BY TypeStep, LockStep, PlanStep, ChildStep, EndStep, LateStep, SyncStep DEF IInv
<1> QED
  BY Start, <1>1, PTL DEF Spec

\* Types: every value a variable takes is one that the code gives it, and every
\* child is started on an address.
THEOREM TypeCorrect == Spec => []TypeOK
<1>1. IInv => TypeOK
  BY DEF IInv
<1> QED
  BY <1>1, Invariance, PTL

\* There is at most one CoreDNS, and the manager knows it: stopLocked forgets a
\* child only when it has ended, and no watcher of an old child can take a new one
\* from the manager (manager.go:185-223).
THEOREM AtMostOneChild == Spec => []OneChild
<1>1. IInv => OneChild
  BY DEF IInv, ChildInv, OneChild
<1> QED
  BY <1>1, Invariance, PTL

\* Unless one of the known gaps has opened, the child is what the database says
\* whenever every request has ended (apply.go:13-64).
THEOREM ChildFollowsDatabase == Spec => []InSync
<1>1. IInv => InSync
  <2> SUFFICES ASSUME IInv, Quiet, missed = {} PROVE Matches
    BY DEF InSync
  <2>1. \A p \in Procs : ~Pending(p) /\ ~Reader(p) /\ mu # p
    BY DEF Quiet, Pending, Reader, HasRead, Holding, IInv, LockInv
  <2>2. late = {} /\ mu = NULL
    BY <2>1 DEF IInv, TypeOK, LateInv
  <2> QED
    BY <2>1, <2>2 DEF IInv, SyncInv
<1> QED
  BY <1>1, Invariance, PTL

\* The end of a child is never lost: the manager has taken note of it, or the
\* watcher is about to.
THEOREM EndIsNoticed == Spec => []EndReachesManager
<1>1. IInv => EndReachesManager
  BY DEF IInv
<1> QED
  BY <1>1, Invariance, PTL

\* A stop that waits for a report that is gone and the watcher that has it wait
\* for each other; and so they do until the daemon is started again
\* (manager.go:199-204, 213-215).
THEOREM StuckForGood ==
    Spec => /\ [](\A p \in Procs : pc[p] = "recv" /\ ~pipe[cmd] => Embrace(p))
            /\ EmbraceLasts
<1>1. IInv => \A p \in Procs : pc[p] = "recv" /\ ~pipe[cmd] => Embrace(p)
  BY DEF IInv, ChildInv, LockInv, EndReachesManager, Embrace, Holding
<1>2. IInv /\ [Next]_vars => [\A p \in Procs : Embrace(p) /\ ~Restart => Embrace(p)']_vars
  BY EmbraceStep DEF IInv
<1> QED
  BY <1>1, <1>2, Invariance, PTL DEF Spec, EmbraceLasts

\* The manager and its requests implement Supervisor: a living child answers from
\* rows that were read and not yet carried out, has ended before another starts, and
\* is left alone, and right, when nobody is busy (apply.go:13-64, manager.go:83-223).
THEOREM ImplementsSupervisor == Spec => SupervisorSpec
<1>1. Init => Sup!Init
  <2> SUFFICES ASSUME Init PROVE Sup!Init
    OBVIOUS
  <2>1. Drafts = {} /\ Plans = {} /\ Answers = {} /\ Quiet
    BY DEF Init, Drafts, Plans, Answers, Quiet, Drafting, Planning, Holding
  <2> QED
    BY <2>1 DEF Init, Off, Sup!Init
<1> QED
  BY <1>1, SupervisorStep, Invariance, ChildFollowsDatabase, PTL DEF Spec, SupervisorSpec, Sup!Spec
=============================================================================
