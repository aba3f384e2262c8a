--------------------------- MODULE PcqApplyProofs ---------------------------
(***************************************************************************)
(* Proofs about PcqApply: types, the lock, and that the interface follows  *)
(* the presets whenever nothing is known to have been missed.              *)
(***************************************************************************)
EXTENDS PcqApply, WellFoundedInduction, TLAPS

-----------------------------------------------------------------------------
(* The limits that are loaded. *)

LEMMA NatMin ==
    ASSUME NEW S, S \subseteq Nat, S # {}
    PROVE  \E n \in S : \A m \in S : n <= m
<1> DEFINE R == OpToRel(<, Nat)
<1>1. IsWellFoundedOn(R, Nat)
  BY NatLessThanWellFounded
<1>2. \A x, y \in Nat : y < x => <<y, x>> \in R
  BY DEF OpToRel
<1> HIDE DEF R
<1>3. PICK x \in S : \A y \in S : ~(<<y, x>> \in R)
  BY <1>1, WFMin
<1>4. ASSUME NEW y \in S PROVE x <= y
  <2>1. x \in Nat /\ y \in Nat /\ ~(y < x)
    BY <1>2, <1>3
  <2> QED
    BY <2>1
<1> QED
  BY <1>4

LEMMA LeastType ==
    ASSUME NEW S, S \subseteq Rates
    PROVE  Least(S) \in Rates \union {NULL}
<1>1. CASE S = {}
  BY <1>1 DEF Least
<1>2. CASE S # {}
  <2>1. PICK n \in S : \A m \in S : n <= m
    BY <1>2, NatMin, RatesAssumption
  <2>2. Least(S) \in S
    BY <1>2, <2>1 DEF Least
  <2> QED
    BY <2>2
<1> QED
  BY <1>1, <1>2

LEMMA LimitType ==
    ASSUME TypeOK, NEW u \in Users, NEW d \in Dir
    PROVE  Limit(u, d) \in Rates \union {NULL}
<1> DEFINE mine == {g \in Groups : /\ account[u] = "enabled" /\ u \in member[g]
                                   /\ preset[g] # NULL /\ ~preset[g].off}
           S == {preset[g].rate[d] : g \in mine} \ {NULL}
<1>1. \A g \in mine : preset[g] \in Preset
  BY DEF TypeOK
<1>2. S \subseteq Rates
  BY <1>1 DEF Preset
<1>3. Limit(u, d) = Least(S)
  BY DEF Limit
<1> HIDE DEF S
<1> QED
  BY <1>2, <1>3, LeastType

LEMMA WantedType == TypeOK => Wanted \in Shape
<1> SUFFICES ASSUME TypeOK PROVE Wanted \in Shape
  OBVIOUS
<1>1. ASSUME NEW d \in Dir PROVE [u \in Users |-> Limit(u, d)] \in Limits
  BY LimitType DEF Limits
<1> QED
  BY <1>1 DEF Wanted, Shape

\* What is wanted changes only when the database does.
LEMMA WantedStays ==
    ASSUME UNCHANGED <<account, member, preset>>
    PROVE  Wanted' = Wanted
  BY DEF Wanted, Limit

-----------------------------------------------------------------------------
(* What is inductive.                                                        *)

\* A request that builds a qdisc has limits for it.
PlanInv ==
    \A p \in Procs : /\ pc[p] \in {"root", "classes"} => want[p]["down"] # NULL
                     /\ pc[p] \in {"ingress", "police"} => want[p]["up"] # NULL

\* applyMu is held exactly by the request that is in Apply.
LockInv == \A p \in Procs : pc[p] \in Applying <=> applyMu = p

\* p has written the database, or may yet write it, and has not yet loaded the
\* limits.
Before == {"toggle", "bulk", "cut", "push", "save", "wait", "load"}
Pending == \E p \in Procs : pc[p] \in Before

\* What p has added of its limits in direction d.
Added(p, d) == [u \in Users |-> IF u \in left[p] THEN NULL ELSE want[p][d][u]]

\* How much of p's plan stands on the interface.
Built(p) ==
    CASE pc[p] = "delIngress" -> TRUE
      [] pc[p] = "delRoot" -> tc["up"] = NULL
      [] pc[p] = "root" -> tc = NoShape
      [] pc[p] = "classes" -> tc["up"] = NULL /\ tc["down"] = Added(p, "down")
      [] pc[p] = "ingress" -> tc["up"] = NULL /\ tc["down"] = want[p]["down"]
      [] pc[p] = "police" -> tc["up"] = Added(p, "up") /\ tc["down"] = want[p]["down"]
      [] OTHER -> FALSE

\* When nothing was missed and nobody is about to load the limits again, the
\* interface is right, or the one request in Apply is making it right.
SyncInv ==
    missed = {} /\ ~Pending =>
        IF applyMu = NULL THEN tc = Wanted
        ELSE want[applyMu] = Wanted /\ Built(applyMu)

IInv == TypeOK /\ PlanInv /\ LockInv /\ SyncInv

-----------------------------------------------------------------------------
(* Types. *)

LEMMA InitTyped == Init => TypeOK
  BY DEF Init, TypeOK, NoShape, Shape, PcStates

LEMMA GoTyped ==
    ASSUME TypeOK, NEW p \in Procs, NEW next \in PcStates, Go(p, next),
           tc' \in Shape, missed' \subseteq Reasons
    PROVE  TypeOK'
<1>1. NoShape \in Shape
  BY DEF NoShape, Shape
<1>2. want' \in [Procs -> Shape] /\ left' \in [Procs -> SUBSET Users]
  BY <1>1 DEF TypeOK, Go
<1>3. pc' \in [Procs -> PcStates] /\ applyMu' \in Procs \union {NULL}
  BY DEF TypeOK, Go
<1> QED
  BY <1>2, <1>3 DEF TypeOK, Go, db

LEMMA RequestTyped ==
    ASSUME TypeOK, GroupStep \/ UserStep \/ (\E p \in Procs : WireGuardPost(p))
    PROVE  TypeOK'
<1> USE DEF TypeOK, Begin, db, PcStates
<1>1. ASSUME NEW p \in Procs, NEW g \in Groups, PresetSave(p, g) PROVE TypeOK'
  <2>1. PICK r \in [Dir -> Rates \union {NULL}] :
           preset' = [preset EXCEPT ![g] =
                        [rate |-> r, off |-> IF @ = NULL THEN FALSE ELSE @.off]]
    BY <1>1 DEF PresetSave
  <2>2. (IF preset[g] = NULL THEN FALSE ELSE preset[g].off) \in BOOLEAN
    BY DEF Preset
  <2>3. preset' \in [Groups -> Preset \union {NULL}]
    BY <2>1, <2>2 DEF Preset
  <2> QED
    BY <1>1, <2>3 DEF PresetSave
<1>2. ASSUME NEW p \in Procs, NEW g \in Groups, PresetClear(p, g) PROVE TypeOK'
  BY <1>2 DEF PresetClear
<1>3. ASSUME NEW p \in Procs, NEW g \in Groups, ToggleRead(p, g) PROVE TypeOK'
  BY <1>3 DEF ToggleRead, Preset
<1>4. ASSUME NEW p \in Procs, NEW g \in Groups, BulkAdd(p, g) PROVE TypeOK'
  BY <1>4 DEF BulkAdd
<1>5. ASSUME NEW p \in Procs, NEW g \in Groups, NEW u \in Users,
             MemberAdd(p, g, u) \/ MemberRemove(p, g, u)
      PROVE  TypeOK'
  BY <1>5 DEF MemberAdd, MemberRemove
<1>6. ASSUME NEW p \in Procs, NEW u \in Users,
             UserCreate(p, u) \/ UserUpdate(p, u) \/ UserDelete(p, u)
      PROVE  TypeOK'
  BY <1>6 DEF UserCreate, UserUpdate, UserDelete
<1>7. ASSUME NEW p \in Procs, WireGuardPost(p) PROVE TypeOK'
  BY <1>7 DEF WireGuardPost
<1> QED
  BY <1>1, <1>2, <1>3, <1>4, <1>5, <1>6, <1>7 DEF GroupStep, UserStep

LEMMA HandlerTyped ==
    ASSUME TypeOK, NEW p \in Procs,
           \/ HandlerStep(p) \/ PushStep(p) \/ Lock(p)
           \/ \E u \in Users : BulkInsert(p, u)
    PROVE  TypeOK'
<1> USE DEF TypeOK, db, local, PcStates, Reasons
<1>1. ASSUME ToggleWrite(p) PROVE TypeOK'
  <2>1. preset' \in [Groups -> Preset \union {NULL}]
    <3>1. ASSUME NEW r \in Preset PROVE [r EXCEPT !.off = ~seenOff[p]] \in Preset
      BY DEF Preset
    <3> QED
      BY <1>1, <3>1 DEF ToggleWrite
  <2> QED
    BY <1>1, <2>1 DEF ToggleWrite
<1>2. ASSUME BulkDone(p) \/ BulkFails(p) PROVE TypeOK'
  BY <1>2 DEF BulkDone, BulkFails
<1>3. ASSUME NEW u \in Users, BulkInsert(p, u) PROVE TypeOK'
  BY <1>3 DEF BulkInsert
<1>4. ASSUME TakeDown(p) PROVE TypeOK'
  BY <1>4 DEF TakeDown, NoShape, Shape
<1>5. ASSUME Push(p) \/ PushFails(p) PROVE TypeOK'
  BY <1>5 DEF Push, PushFails
<1>6. ASSUME Lock(p) PROVE TypeOK'
  BY <1>6 DEF Lock, Applying
<1> QED
  BY <1>1, <1>2, <1>3, <1>4, <1>5, <1>6 DEF HandlerStep, PushStep

LEMMA ApplyTyped ==
    ASSUME TypeOK, PlanInv, NEW p \in Procs, ApplyStep(p)
    PROVE  TypeOK'
<1>1. ASSUME Load(p) PROVE TypeOK'
  <2>1. want' \in [Procs -> Shape]
    BY <1>1, WantedType DEF Load, TypeOK
  <2> QED
    BY <1>1, <2>1 DEF Load, TypeOK, db, PcStates, Applying, Building
<1>2. ASSUME DelIngress(p) PROVE TypeOK'
  BY <1>2 DEF DelIngress, TypeOK, db, local, PcStates, Applying, Building, Shape
<1>3. ASSUME DelRoot(p) PROVE TypeOK'
  <2>1. tc' \in Shape /\ missed' \subseteq Reasons
    BY <1>3 DEF DelRoot, TypeOK, Shape
  <2>2. AfterDel(want[p]) \in PcStates
    BY DEF AfterDel, AfterPeers, PcStates, Applying, Building
  <2> QED
    BY <1>3, <2>1, <2>2, GoTyped DEF DelRoot
<1>4. ASSUME NEW d \in Dir, AddQdisc(p, d) PROVE TypeOK'
  <2>1. NoLimits \in Limits
    BY DEF NoLimits, Limits
  <2>2. tc' \in Shape
    BY <1>4, <2>1 DEF AddQdisc, TypeOK, Shape
  <2>3. PeersState[d] \in PcStates
    BY DEF PeersState, Dir, PcStates, Applying, Building
  <2> QED
    BY <1>4, <2>2, <2>3 DEF AddQdisc, TypeOK, db
<1>5. ASSUME NEW d \in Dir, NEW u \in Users, AddPeer(p, d, u) PROVE TypeOK'
  <2>1. tc[d] \in Limits
    BY <1>5 DEF AddPeer, TypeOK, Shape
  <2>2. want[p][d][u] \in Rates \union {NULL}
    <3>1. want[p] \in Shape /\ left[p] \subseteq Users
      BY DEF TypeOK
    <3>2. want[p][d] # NULL
      BY <1>5 DEF AddPeer, PlanInv, PeersState, Dir
    <3> QED
      BY <1>5, <3>1, <3>2 DEF AddPeer, Shape, Limits
  <2>3. tc' \in Shape
    BY <1>5, <2>1, <2>2 DEF AddPeer, TypeOK, Shape, Limits
  <2> QED
    BY <1>5, <2>3 DEF AddPeer, TypeOK, db
<1>6. ASSUME NEW d \in Dir, PeersDone(p, d) PROVE TypeOK'
  <2>1. AfterPeers(want[p])[d] \in PcStates
    BY DEF AfterPeers, Dir, PcStates, Applying, Building
  <2>2. tc' \in Shape /\ missed' \subseteq Reasons
    BY <1>6 DEF PeersDone, TypeOK
  <2> QED
    BY <1>6, <2>1, <2>2, GoTyped DEF PeersDone
<1>7. ASSUME ApplyFails(p) PROVE TypeOK'
  <2>1. tc' \in Shape /\ missed' \subseteq Reasons
    BY <1>7 DEF ApplyFails, TypeOK, Reasons
  <2>2. "idle" \in PcStates
    BY DEF PcStates
  <2> QED
    BY <1>7, <2>1, <2>2, GoTyped DEF ApplyFails, GiveUp
<1> QED
  BY <1>1, <1>2, <1>3, <1>4, <1>5, <1>6, <1>7 DEF ApplyStep

-----------------------------------------------------------------------------
(* The plan and the lock. *)

LEMMA RequestBegins ==
    ASSUME GroupStep \/ UserStep \/ (\E p \in Procs : WireGuardPost(p))
    PROVE  \E p \in Procs, next \in Before \ {"load"} : Begin(p, next)
<1> USE DEF Before
<1>1. CASE GroupStep
  BY <1>1 DEF GroupStep, PresetSave, PresetClear, ToggleRead, BulkAdd, MemberAdd, MemberRemove
<1>2. CASE UserStep
  BY <1>2 DEF UserStep, UserCreate, UserUpdate, UserDelete
<1>3. CASE \E p \in Procs : WireGuardPost(p)
  BY <1>3 DEF WireGuardPost
<1> QED
  BY <1>1, <1>2, <1>3

LEMMA BeginInv ==
    ASSUME TypeOK, PlanInv, LockInv,
           NEW p \in Procs, NEW next \in Before \ {"load"}, Begin(p, next)
    PROVE  PlanInv' /\ LockInv' /\ SyncInv'
<1>1. pc' = [pc EXCEPT ![p] = next] /\ pc \in [Procs -> PcStates] /\ pc[p] = "idle"
  BY DEF Begin, TypeOK
<1>2. PlanInv'
  BY <1>1 DEF PlanInv, Begin, Before
<1>3. LockInv'
  BY <1>1 DEF LockInv, Begin, Before, Applying, Building
<1>4. Pending'
  BY <1>1 DEF Pending
<1> QED
  BY <1>2, <1>3, <1>4 DEF SyncInv

LEMMA HandlerInv ==
    ASSUME TypeOK, PlanInv, LockInv, NEW p \in Procs,
           \/ HandlerStep(p) \/ PushStep(p) \/ Lock(p)
           \/ \E u \in Users : BulkInsert(p, u)
    PROVE  PlanInv' /\ LockInv' /\ SyncInv'
<1> USE DEF PlanInv, LockInv, Before, Applying, Building, local
<1>0. pc \in [Procs -> PcStates] /\ NULL \notin Procs
  BY MainAssumption DEF TypeOK
<1>1. CASE ToggleWrite(p)
  BY <1>0, <1>1 DEF ToggleWrite, SyncInv, Pending
<1>2. CASE BulkDone(p)
  BY <1>0, <1>2 DEF BulkDone, SyncInv, Pending
<1>3. CASE BulkFails(p)
  BY <1>0, <1>3 DEF BulkFails, SyncInv
<1>4. CASE \E u \in Users : BulkInsert(p, u)
  BY <1>0, <1>4 DEF BulkInsert, SyncInv, Pending
<1>5. CASE TakeDown(p)
  BY <1>0, <1>5 DEF TakeDown, SyncInv, Pending
<1>6. CASE Push(p)
  BY <1>0, <1>6 DEF Push, SyncInv, Pending
<1>7. CASE PushFails(p)
  <2>1. PlanInv' /\ LockInv'
    BY <1>0, <1>7 DEF PushFails
  <2>2. CASE pc[p] = "save"
    BY <1>0, <1>7, <2>1, <2>2 DEF PushFails, SyncInv, Pending
  <2>3. CASE pc[p] # "save"
    BY <1>0, <1>7, <2>1, <2>3 DEF PushFails, SyncInv
  <2> QED
    BY <2>2, <2>3
<1>8. CASE Lock(p)
  BY <1>0, <1>8 DEF Lock, SyncInv, Pending
<1> QED
  BY <1>1, <1>2, <1>3, <1>4, <1>5, <1>6, <1>7, <1>8 DEF HandlerStep, PushStep

\* A step of Apply leaves Pending as it was for everybody else.
LEMMA StillPending ==
    ASSUME TypeOK, NEW p \in Procs, NEW next \in PcStates \ Before,
           pc' = [pc EXCEPT ![p] = next], pc[p] \notin Before
    PROVE  Pending' = Pending
  BY DEF TypeOK, Pending

LEMMA LoadInv ==
    ASSUME TypeOK, PlanInv, LockInv, NEW p \in Procs, Load(p)
    PROVE  PlanInv' /\ LockInv' /\ SyncInv'
<1>1. /\ pc' = [pc EXCEPT ![p] = "delIngress"] /\ pc \in [Procs -> PcStates]
      /\ want' = [want EXCEPT ![p] = Wanted] /\ want \in [Procs -> Shape]
  BY DEF Load, TypeOK
<1>2. PlanInv'
  BY <1>1 DEF PlanInv
<1>3. LockInv'
  BY <1>1 DEF LockInv, Load, Applying, Building
<1>4. Wanted' = Wanted
  BY WantedStays DEF Load, db
<1>5. applyMu' = p /\ p # NULL
  BY MainAssumption DEF Load, LockInv, Applying
<1>6. want'[p] = Wanted /\ Built(p)'
  BY <1>1 DEF Built
<1> QED
  BY <1>2, <1>3, <1>4, <1>5, <1>6 DEF SyncInv

LEMMA DelIngressInv ==
    ASSUME TypeOK, PlanInv, LockInv, SyncInv, NEW p \in Procs, DelIngress(p)
    PROVE  PlanInv' /\ LockInv' /\ SyncInv'
<1>1. /\ pc' = [pc EXCEPT ![p] = "delRoot"] /\ pc \in [Procs -> PcStates]
      /\ pc[p] = "delIngress"
  BY DEF DelIngress, TypeOK
<1>2. PlanInv'
  BY <1>1 DEF PlanInv, DelIngress, local
<1>3. LockInv'
  BY <1>1 DEF LockInv, DelIngress, Applying, Building
<1>4. Wanted' = Wanted
  BY WantedStays DEF DelIngress, db
<1>5. applyMu = p /\ p # NULL
  BY <1>1, MainAssumption DEF LockInv, Applying, Building
<1>6. Pending' = Pending
  BY <1>1, StillPending DEF Before, PcStates, Applying, Building
<1>7. Built(p)'
  BY <1>1 DEF Built, DelIngress, TypeOK, Shape, Dir
<1> QED
  BY <1>2, <1>3, <1>4, <1>5, <1>6, <1>7 DEF SyncInv, DelIngress, local

LEMMA DelRootInv ==
    ASSUME TypeOK, PlanInv, LockInv, SyncInv, NEW p \in Procs, DelRoot(p)
    PROVE  PlanInv' /\ LockInv' /\ SyncInv'
<1> DEFINE w == want[p]
           next == AfterDel(w)
<1>1. /\ pc' = [pc EXCEPT ![p] = next] /\ pc \in [Procs -> PcStates]
      /\ pc[p] = "delRoot"
  BY DEF DelRoot, Go, TypeOK
<1>2. \/ next = "root" /\ w["down"] # NULL
      \/ next = "ingress" /\ w["down"] = NULL /\ w["up"] # NULL
      \/ next = "idle" /\ w["down"] = NULL /\ w["up"] = NULL
  BY DEF AfterDel, AfterPeers
<1>3. want' = IF next = "idle" THEN [want EXCEPT ![p] = NoShape] ELSE want
  BY DEF DelRoot, Go
<1>4. PlanInv'
  BY <1>1, <1>2, <1>3 DEF PlanInv, TypeOK
<1>5. applyMu = p /\ p # NULL
  BY <1>1, MainAssumption DEF LockInv, Applying, Building
<1>6. applyMu' = IF next = "idle" THEN NULL ELSE p
  BY <1>5 DEF DelRoot, Go
<1>7. LockInv'
  BY <1>1, <1>2, <1>5, <1>6, MainAssumption DEF LockInv, Applying, Building
<1>8. Wanted' = Wanted
  BY WantedStays DEF DelRoot, Go, db
<1>9. Pending' = Pending
  BY <1>1, <1>2, StillPending DEF Before, PcStates, Applying, Building
<1>10. SyncInv'
  <2> SUFFICES ASSUME missed = {}, ~Pending
               PROVE  IF applyMu' = NULL THEN tc' = Wanted
                      ELSE want'[applyMu'] = Wanted /\ Built(p)'
    BY <1>5, <1>6, <1>8, <1>9 DEF SyncInv, DelRoot
  <2>1. w = Wanted /\ tc["up"] = NULL
    BY <1>1, <1>5 DEF SyncInv, Built
  <2>2. tc' = NoShape
    BY <2>1 DEF DelRoot, TypeOK, Shape, NoShape, Dir
  <2>3. CASE next = "idle"
    <3>1. w = NoShape
      BY <1>2, <2>3 DEF TypeOK, Shape, NoShape, Dir
    <3> QED
      BY <1>6, <2>1, <2>2, <2>3, <3>1
  <2>4. CASE next # "idle"
    <3>1. pc'[p] \in {"root", "ingress"} /\ want' = want /\ applyMu' = p
      BY <1>1, <1>2, <1>3, <1>6, <2>4
    <3>2. Built(p)'
      BY <1>1, <1>2, <2>2, <3>1 DEF Built, NoShape, Dir
    <3> QED
      BY <1>5, <2>1, <3>1, <3>2
  <2> QED
    BY <2>3, <2>4
<1> QED
  BY <1>4, <1>7, <1>10

LEMMA AddQdiscInv ==
    ASSUME TypeOK, PlanInv, LockInv, SyncInv,
           NEW p \in Procs, NEW d \in Dir, AddQdisc(p, d)
    PROVE  PlanInv' /\ LockInv' /\ SyncInv'
<1>1. /\ pc' = [pc EXCEPT ![p] = PeersState[d]] /\ pc \in [Procs -> PcStates]
      /\ pc[p] = QdiscState[d] /\ want' = want /\ applyMu' = applyMu
  BY DEF AddQdisc, TypeOK
<1>2. \/ d = "down" /\ pc[p] = "root" /\ pc'[p] = "classes"
      \/ d = "up" /\ pc[p] = "ingress" /\ pc'[p] = "police"
  BY <1>1 DEF QdiscState, PeersState, Dir
<1>3. PlanInv'
  BY <1>1, <1>2 DEF PlanInv
<1>4. LockInv'
  BY <1>1, <1>2 DEF LockInv, Applying, Building
<1>5. applyMu = p /\ p # NULL
  BY <1>2, MainAssumption DEF LockInv, Applying, Building
<1>6. Wanted' = Wanted
  BY WantedStays DEF AddQdisc, db
<1>7. Pending' = Pending
  BY <1>1, <1>2, StillPending DEF Before, PcStates, Applying, Building
<1>8. left'[p] = {u \in Users : want[p][d][u] # NULL}
  BY DEF AddQdisc, TypeOK
<1>9. Added(p, d)' = NoLimits
  BY <1>1, <1>8 DEF Added, NoLimits
<1>10. ASSUME Built(p) PROVE Built(p)'
  BY <1>1, <1>2, <1>9, <1>10 DEF Built, AddQdisc, NoShape, TypeOK, Shape, Dir
<1> QED
  BY <1>1, <1>3, <1>4, <1>5, <1>6, <1>7, <1>10 DEF SyncInv, AddQdisc

LEMMA AddPeerInv ==
    ASSUME TypeOK, PlanInv, LockInv, SyncInv,
           NEW p \in Procs, NEW d \in Dir, NEW u \in Users, AddPeer(p, d, u)
    PROVE  PlanInv' /\ LockInv' /\ SyncInv'
<1>1. /\ pc' = pc /\ want' = want /\ applyMu' = applyMu /\ missed' = missed
      /\ pc[p] = PeersState[d]
  BY DEF AddPeer
<1>2. \/ d = "down" /\ pc[p] = "classes"
      \/ d = "up" /\ pc[p] = "police"
  BY <1>1 DEF PeersState, Dir
<1>3. PlanInv' /\ LockInv' /\ Pending' = Pending
  BY <1>1 DEF PlanInv, LockInv, Pending
<1>4. applyMu = p /\ p # NULL
  BY <1>2, MainAssumption DEF LockInv, Applying, Building
<1>5. Wanted' = Wanted
  BY WantedStays DEF AddPeer, db
<1>6. ASSUME tc[d] = Added(p, d) PROVE tc'[d] = Added(p, d)'
  <2>1. tc'[d] = [Added(p, d) EXCEPT ![u] = want[p][d][u]]
    BY <1>6 DEF AddPeer, TypeOK, Shape
  <2>2. left'[p] = left[p] \ {u}
    BY DEF AddPeer, TypeOK
  <2> QED
    BY <1>1, <2>1, <2>2 DEF Added
<1>7. \A e \in Dir \ {d} : tc'[e] = tc[e]
  BY DEF AddPeer, TypeOK, Shape
<1>8. ASSUME Built(p) PROVE Built(p)'
  BY <1>1, <1>2, <1>6, <1>7, <1>8 DEF Built, Dir
<1> QED
  BY <1>1, <1>3, <1>4, <1>5, <1>8 DEF SyncInv

LEMMA PeersDoneInv ==
    ASSUME TypeOK, PlanInv, LockInv, SyncInv,
           NEW p \in Procs, NEW d \in Dir, PeersDone(p, d)
    PROVE  PlanInv' /\ LockInv' /\ SyncInv'
<1> DEFINE w == want[p]
           next == AfterPeers(w)[d]
<1>1. /\ pc' = [pc EXCEPT ![p] = next] /\ pc \in [Procs -> PcStates]
      /\ pc[p] = PeersState[d] /\ tc' = tc /\ missed' = missed
  BY DEF PeersDone, Go, TypeOK
<1>2. \/ d = "down" /\ pc[p] = "classes" /\ next = "ingress" /\ w["up"] # NULL
      \/ d = "down" /\ pc[p] = "classes" /\ next = "idle" /\ w["up"] = NULL
      \/ d = "up" /\ pc[p] = "police" /\ next = "idle"
  BY <1>1 DEF AfterPeers, PeersState, Dir
<1>3. want' = IF next = "idle" THEN [want EXCEPT ![p] = NoShape] ELSE want
  BY DEF PeersDone, Go
<1>4. PlanInv'
  BY <1>1, <1>2, <1>3 DEF PlanInv, TypeOK
<1>5. applyMu = p /\ p # NULL
  BY <1>2, MainAssumption DEF LockInv, Applying, Building
<1>6. applyMu' = IF next = "idle" THEN NULL ELSE p
  BY <1>5 DEF PeersDone, Go
<1>7. LockInv'
  BY <1>1, <1>2, <1>5, <1>6, MainAssumption DEF LockInv, Applying, Building
<1>8. Wanted' = Wanted
  BY WantedStays DEF PeersDone, Go, db
<1>9. Pending' = Pending
  BY <1>1, <1>2, StillPending DEF Before, PcStates, Applying, Building
<1>10. w[d] # NULL /\ w \in Shape /\ left[p] = {}
  BY <1>2 DEF PlanInv, TypeOK, PeersDone
<1>11. Added(p, d) = w[d]
  BY <1>10 DEF Added, Shape, Limits
<1>12. SyncInv'
  <2> SUFFICES ASSUME missed = {}, ~Pending
               PROVE  IF applyMu' = NULL THEN tc = Wanted
                      ELSE want'[applyMu'] = Wanted /\ Built(p)'
    BY <1>1, <1>5, <1>6, <1>8, <1>9 DEF SyncInv
  <2>1. w = Wanted /\ Built(p)
    BY <1>5 DEF SyncInv
  <2>2. CASE next = "ingress"
    <3>1. pc'[p] = "ingress" /\ want' = want /\ applyMu' = p
      BY <1>1, <1>3, <1>6, <2>2
    <3>2. tc["up"] = NULL /\ tc["down"] = w["down"]
      BY <1>2, <1>11, <2>1, <2>2 DEF Built
    <3>3. Built(p)'
      BY <1>1, <3>1, <3>2 DEF Built
    <3> QED
      BY <1>5, <2>1, <3>1, <3>3
  <2>3. CASE next = "idle"
    <3>1. tc["up"] = w["up"] /\ tc["down"] = w["down"]
      BY <1>2, <1>11, <2>1, <2>3 DEF Built
    <3>2. tc = w
      BY <1>10, <3>1 DEF TypeOK, Shape, Dir
    <3> QED
      BY <1>6, <2>1, <2>3, <3>2
  <2> QED
    BY <1>2, <2>2, <2>3
<1> QED
  BY <1>4, <1>7, <1>12

LEMMA ApplyFailsInv ==
    ASSUME TypeOK, PlanInv, LockInv, NEW p \in Procs, ApplyFails(p)
    PROVE  PlanInv' /\ LockInv' /\ SyncInv'
<1>1. /\ pc' = [pc EXCEPT ![p] = "idle"] /\ pc \in [Procs -> PcStates]
      /\ want' = [want EXCEPT ![p] = NoShape] /\ applyMu' = NULL
  BY DEF ApplyFails, GiveUp, Go, TypeOK
<1>2. PlanInv'
  BY <1>1 DEF PlanInv, TypeOK
<1>3. applyMu = p
  BY DEF LockInv, ApplyFails
<1>4. LockInv'
  BY <1>1, <1>3, MainAssumption DEF LockInv, Applying, Building
<1>5. missed' # {}
  BY DEF ApplyFails
<1> QED
  BY <1>2, <1>4, <1>5 DEF SyncInv

LEMMA ApplyInv ==
    ASSUME TypeOK, PlanInv, LockInv, SyncInv, NEW p \in Procs, ApplyStep(p)
    PROVE  PlanInv' /\ LockInv' /\ SyncInv'
  BY LoadInv, DelIngressInv, DelRootInv, AddQdiscInv, AddPeerInv, PeersDoneInv,
     ApplyFailsInv DEF ApplyStep

\* The steps nobody asked for, and those that no limit depends on.
LEMMA WorldStep ==
    ASSUME TypeOK, PlanInv, LockInv, SyncInv,
           \/ \E g \in Groups : GroupCreate(g) \/ GroupDelete(g)
           \/ \E u \in Users : SyncerFlip(u)
           \/ InterfaceLost \/ Restart \/ UNCHANGED vars
    PROVE  IInv'
<1>1. ASSUME NEW g \in Groups, GroupCreate(g) PROVE IInv'
  <2>1. Wanted' = Wanted
    BY <1>1, WantedStays DEF GroupCreate
  <2>2. Pending' = Pending /\ (applyMu # NULL => Built(applyMu)' = Built(applyMu))
    BY <1>1 DEF GroupCreate, local, Pending, Built, Added
  <2>3. SyncInv'
    BY <1>1, <2>1, <2>2 DEF GroupCreate, local, SyncInv
  <2> QED
    BY <1>1, <2>3 DEF IInv, TypeOK, PlanInv, LockInv, GroupCreate, local
<1>2. ASSUME NEW g \in Groups, GroupDelete(g) PROVE IInv'
  <2>1. TypeOK'
    BY <1>2 DEF GroupDelete, TypeOK, local, Reasons
  <2> QED
    BY <1>2, <2>1 DEF IInv, PlanInv, LockInv, SyncInv, GroupDelete, local
<1>3. ASSUME NEW u \in Users, SyncerFlip(u) PROVE IInv'
  <2>1. TypeOK'
    BY <1>3 DEF SyncerFlip, TypeOK, local, Reasons
  <2> QED
    BY <1>3, <2>1 DEF IInv, PlanInv, LockInv, SyncInv, SyncerFlip, local
<1>4. ASSUME InterfaceLost PROVE IInv'
  <2>1. TypeOK'
    BY <1>4 DEF InterfaceLost, TypeOK, db, local, Reasons, NoShape, Shape
  <2> QED
    BY <1>4, <2>1 DEF IInv, PlanInv, LockInv, SyncInv, InterfaceLost, local
<1>5. ASSUME Restart PROVE IInv'
  <2>1. /\ \A p \in Procs : pc'[p] = IF p = Main THEN "push" ELSE "idle"
        /\ applyMu' = NULL /\ Main \in Procs
    BY <1>5 DEF Restart, Procs
  <2>2. TypeOK'
    BY <1>5 DEF Restart, TypeOK, db, PcStates, NoShape, Shape
  <2>3. PlanInv' /\ LockInv'
    BY <2>1, MainAssumption DEF PlanInv, LockInv, Applying, Building
  <2>4. Pending'
    BY <2>1 DEF Pending, Before
  <2> QED
    BY <2>2, <2>3, <2>4 DEF IInv, SyncInv
<1>6. ASSUME UNCHANGED vars PROVE IInv'
  <2>1. Wanted' = Wanted
    BY <1>6, WantedStays DEF vars
  <2>2. Pending' = Pending /\ (applyMu # NULL => Built(applyMu)' = Built(applyMu))
    BY <1>6 DEF vars, Pending, Built, Added
  <2>3. SyncInv'
    BY <1>6, <2>1, <2>2 DEF vars, SyncInv
  <2> QED
    BY <1>6, <2>3 DEF IInv, TypeOK, PlanInv, LockInv, vars
<1> QED
  BY <1>1, <1>2, <1>3, <1>4, <1>5, <1>6

-----------------------------------------------------------------------------

LEMMA InitInv == Init => IInv
<1> SUFFICES ASSUME Init PROVE IInv
  OBVIOUS
<1>1. TypeOK
  BY InitTyped
<1>2. PlanInv /\ LockInv
  BY MainAssumption DEF Init, PlanInv, LockInv, Applying, Building
<1>3. ASSUME NEW u \in Users, NEW d \in Dir PROVE Limit(u, d) = NULL
  <2>1. {g \in Groups : /\ account[u] = "enabled" /\ u \in member[g]
                        /\ preset[g] # NULL /\ ~preset[g].off} = {}
    BY DEF Init
  <2> QED
    BY <2>1 DEF Limit, Least
<1>4. Wanted = NoShape
  BY <1>3 DEF Wanted, NoLimits, NoShape
<1> QED
  BY <1>1, <1>2, <1>4 DEF IInv, SyncInv, Init

LEMMA StepInv == IInv /\ [Next]_vars => IInv'
<1> SUFFICES ASSUME IInv, [Next]_vars PROVE IInv'
  OBVIOUS
<1> USE DEF IInv
<1>1. CASE GroupStep \/ UserStep \/ (\E p \in Procs : WireGuardPost(p))
  BY <1>1, RequestBegins, RequestTyped, BeginInv
<1>2. CASE \E p \in Procs : \/ HandlerStep(p) \/ PushStep(p) \/ Lock(p)
                           \/ \E u \in Users : BulkInsert(p, u)
  BY <1>2, HandlerTyped, HandlerInv
<1>3. CASE \E p \in Procs : ApplyStep(p)
  BY <1>3, ApplyTyped, ApplyInv
<1>4. CASE \/ \E g \in Groups : GroupCreate(g) \/ GroupDelete(g)
           \/ \E u \in Users : SyncerFlip(u)
           \/ InterfaceLost \/ Restart \/ UNCHANGED vars
  BY <1>4, WorldStep
<1> QED
  BY <1>1, <1>2, <1>3, <1>4 DEF Next

LEMMA IInvHolds == Spec => []IInv
  BY InitInv, StepInv, PTL DEF Spec

LEMMA IInvIsEnough == IInv => InSync
<1> SUFFICES ASSUME IInv, Quiet, missed = {} PROVE tc = Wanted
  BY DEF InSync
<1>1. ~Pending
  BY DEF Pending, Quiet, Before
<1>2. applyMu = NULL
  BY DEF IInv, TypeOK, LockInv, Quiet, Applying, Building
<1> QED
  BY <1>1, <1>2 DEF IInv, SyncInv

\* Every reachable state is well typed; what the plan of Apply is built from is
\* always there (plan.go:44-139).
THEOREM TypeCorrect == Spec => []TypeOK
<1>1. IInv => TypeOK
  BY DEF IInv
<1> QED
  BY <1>1, IInvHolds, PTL

\* At most one request is in Apply, and it holds the lock (apply.go:13-14).
THEOREM OneAtATime == Spec => []LockInv
<1>1. IInv => LockInv
  BY DEF IInv
<1> QED
  BY <1>1, IInvHolds, PTL

\* For any users, groups, limits and number of concurrent requests: the
\* interface follows the presets when nothing was missed (apply.go:13-63).
THEOREM InterfaceFollowsPresets == Spec => []InSync
  BY IInvHolds, IInvIsEnough, PTL
-----------------------------------------------------------------------------
(* What a limit on the interface means.  The rows keep to the foreign keys,  *)
(* so the presets that Limit looks at are exactly those that bind.           *)

\* A group that is gone has neither members nor a preset.
RowsInv == \A g \in Groups : g \notin groups => member[g] = {} /\ preset[g] = NULL

LEMMA RequestRows ==
    ASSUME TypeOK, RowsInv,
           GroupStep \/ UserStep \/ (\E p \in Procs : WireGuardPost(p))
    PROVE  RowsInv'
<1> USE DEF RowsInv
<1>0. member \in [Groups -> SUBSET Users] /\ preset \in [Groups -> Preset \union {NULL}]
  BY DEF TypeOK
<1>1. ASSUME NEW p \in Procs, NEW g \in Groups, PresetSave(p, g) PROVE RowsInv'
  <2>1. groups' = groups /\ member' = member /\ g \in groups
    BY <1>1 DEF PresetSave
  <2>2. \A h \in Groups \ {g} : preset'[h] = preset[h]
    BY <1>0, <1>1 DEF PresetSave
  <2> QED
    BY <2>1, <2>2
<1>2. ASSUME NEW p \in Procs, NEW g \in Groups, PresetClear(p, g) PROVE RowsInv'
  BY <1>0, <1>2 DEF PresetClear
<1>3. ASSUME NEW p \in Procs, NEW g \in Groups, ToggleRead(p, g) \/ BulkAdd(p, g)
      PROVE  RowsInv'
  BY <1>3 DEF ToggleRead, BulkAdd, db
<1>4. ASSUME NEW p \in Procs, NEW g \in Groups, NEW u \in Users,
             MemberAdd(p, g, u) \/ MemberRemove(p, g, u)
      PROVE  RowsInv'
  BY <1>0, <1>4 DEF MemberAdd, MemberRemove
<1>5. ASSUME NEW p \in Procs, NEW u \in Users,
             UserCreate(p, u) \/ UserUpdate(p, u) \/ UserDelete(p, u)
      PROVE  RowsInv'
  BY <1>5 DEF UserCreate, UserUpdate, UserDelete
<1>6. ASSUME NEW p \in Procs, WireGuardPost(p) PROVE RowsInv'
  BY <1>6 DEF WireGuardPost, db
<1> QED
  BY <1>1, <1>2, <1>3, <1>4, <1>5, <1>6 DEF GroupStep, UserStep

LEMMA StepRows == TypeOK /\ RowsInv /\ [Next]_vars => RowsInv'
<1> SUFFICES ASSUME TypeOK, RowsInv, [Next]_vars PROVE RowsInv'
  OBVIOUS
<1>0. member \in [Groups -> SUBSET Users] /\ preset \in [Groups -> Preset \union {NULL}]
  BY DEF TypeOK
<1>1. CASE GroupStep \/ UserStep \/ (\E p \in Procs : WireGuardPost(p))
  BY <1>1, RequestRows
<1>2. ASSUME NEW g \in Groups, GroupCreate(g) \/ GroupDelete(g) PROVE RowsInv'
  BY <1>0, <1>2 DEF GroupCreate, GroupDelete, RowsInv
<1>3. ASSUME NEW p \in Procs, ToggleWrite(p) PROVE RowsInv'
  BY <1>3 DEF ToggleWrite, RowsInv
<1>4. ASSUME NEW p \in Procs, NEW u \in Users, BulkInsert(p, u) PROVE RowsInv'
  BY <1>0, <1>4 DEF BulkInsert, RowsInv
<1>5. ASSUME NEW p \in Procs, BulkDone(p) \/ BulkFails(p) \/ PushStep(p) \/ Lock(p)
      PROVE  RowsInv'
  BY <1>5 DEF BulkDone, BulkFails, PushStep, TakeDown, Push, PushFails, Lock, db, RowsInv
<1>6. ASSUME NEW p \in Procs, ApplyStep(p) PROVE RowsInv'
  BY <1>6 DEF ApplyStep, Load, DelIngress, DelRoot, ApplyFails, GiveUp, AddQdisc, AddPeer,
              PeersDone, Go, db, RowsInv
<1>7. CASE (\E u \in Users : SyncerFlip(u)) \/ InterfaceLost \/ Restart \/ UNCHANGED vars
  BY <1>7 DEF SyncerFlip, InterfaceLost, Restart, vars, db, RowsInv
<1> QED
  BY <1>1, <1>2, <1>3, <1>4, <1>5, <1>6, <1>7 DEF Next, HandlerStep

LEMMA LeastIsLeast ==
    ASSUME NEW S, S \subseteq Rates
    PROVE  /\ Least(S) # NULL <=> S # {}
           /\ S # {} => Least(S) \in S /\ \A m \in S : Least(S) <= m
<1>1. CASE S = {}
  BY <1>1 DEF Least
<1>2. CASE S # {}
  <2>1. PICK n \in S : \A m \in S : n <= m
    BY <1>2, NatMin, RatesAssumption
  <2>2. Least(S) \in S /\ \A m \in S : Least(S) <= m
    BY <1>2, <2>1 DEF Least
  <2> QED
    BY <1>2, <2>2, RatesAssumption
<1> QED
  BY <1>1, <1>2

\* Limit is the least of the limits that bind, and there is one if any binds.
LEMMA LimitBinds ==
    ASSUME TypeOK, RowsInv, NEW u \in Users, NEW d \in Dir
    PROVE  /\ \A g \in Groups :
                 Binds(g, u, d) => Limit(u, d) # NULL /\ Limit(u, d) <= preset[g].rate[d]
           /\ Limit(u, d) # NULL =>
                 \E g \in Groups : Binds(g, u, d) /\ Limit(u, d) = preset[g].rate[d]
<1> DEFINE mine == {g \in Groups : /\ account[u] = "enabled" /\ u \in member[g]
                                   /\ preset[g] # NULL /\ ~preset[g].off}
           S == {preset[g].rate[d] : g \in mine} \ {NULL}
<1>1. S \subseteq Rates
  <2>1. \A g \in mine : preset[g] \in Preset
    BY DEF TypeOK
  <2> QED
    BY <2>1 DEF Preset
<1>2. Limit(u, d) = Least(S)
  BY DEF Limit
<1>3. \A g \in Groups : Binds(g, u, d) => preset[g].rate[d] \in S
  BY DEF Binds
<1>4. \A n \in S : \E g \in Groups : Binds(g, u, d) /\ n = preset[g].rate[d]
  <2>1. \A g \in mine : g \in groups
    BY DEF RowsInv
  <2> QED
    BY <2>1 DEF Binds
<1> HIDE DEF S
<1> QED
  BY <1>1, <1>2, <1>3, <1>4, LeastIsLeast

LEMMA SyncedLimitsBind == TypeOK /\ RowsInv /\ InSync => LimitsBind
<1> SUFFICES ASSUME TypeOK, RowsInv, tc = Wanted, NEW u \in Users, NEW d \in Dir
             PROVE  LET limited == tc[d] # NULL /\ tc[d][u] # NULL
                    IN  /\ \A g \in Groups :
                             Binds(g, u, d) => limited /\ tc[d][u] <= preset[g].rate[d]
                        /\ limited => \E g \in Groups :
                                        Binds(g, u, d) /\ tc[d][u] = preset[g].rate[d]
  BY DEF InSync, LimitsBind
<1> DEFINE l == [v \in Users |-> Limit(v, d)]
<1>1. tc[d] = IF l = NoLimits THEN NULL ELSE l
  BY DEF Wanted
<1>2. l[u] = Limit(u, d)
  OBVIOUS
<1>3. NoLimits[u] = NULL
  BY DEF NoLimits
<1>4. l \in Limits
  BY LimitType DEF Limits
<1>5. l # NULL
  BY <1>4, NoRowAssumption
<1> HIDE DEF l
<1>6. (tc[d] # NULL /\ tc[d][u] # NULL) <=> Limit(u, d) # NULL
  BY <1>1, <1>2, <1>3, <1>5
<1>7. Limit(u, d) # NULL => tc[d][u] = Limit(u, d)
  BY <1>1, <1>2, <1>3, <1>5
<1> QED
  BY <1>6, <1>7, LimitBinds

\* For any users, groups, rates and requests: when the interface follows the
\* presets, every preset that is on binds the enabled members of its group, the
\* lowest one wins, and nothing else is limited (load.go:35-94).
THEOREM MinimumBinds == Spec => []LimitsBind
<1>1. Init => RowsInv
  BY DEF Init, RowsInv
<1>2. IInv => TypeOK
  BY DEF IInv
<1>3. IInv /\ RowsInv /\ [Next]_vars => RowsInv'
  BY <1>2, StepRows
<1>4. IInv /\ RowsInv => LimitsBind
  BY <1>2, IInvIsEnough, SyncedLimitsBind
<1> QED
  BY <1>1, <1>3, <1>4, IInvHolds, PTL DEF Spec

-----------------------------------------------------------------------------
(* Limits of two loads.  Each qdisc that the one who builds may see is his   *)
(* own: the old ones are deleted first, and only he adds any.                *)

Mine(p, d) == tc[d] # NULL => /\ want[p][d] # NULL
                              /\ \A u \in Users : tc[d][u] \in {NULL, want[p][d][u]}

MixInv ==
    \A p \in Procs : /\ pc[p] = "delRoot" => tc["up"] = NULL
                     /\ pc[p] \in Cleared => \A d \in Dir : Mine(p, d)

\* Who does not build cannot disturb those who do but by removing the qdiscs.
LEMMA MixKept ==
    ASSUME MixInv, tc' \in {tc, NoShape},
           \A p \in Procs : pc'[p] \in Cleared \union {"delRoot"} =>
                               pc'[p] = pc[p] /\ want'[p] = want[p]
    PROVE  MixInv'
<1>1. CASE tc' = tc
  BY <1>1 DEF MixInv, Mine, Cleared
<1>2. CASE tc' = NoShape
  BY <1>2 DEF MixInv, Mine, NoShape, Dir
<1> QED
  BY <1>1, <1>2

\* Only the holder of the lock is at those steps.
LEMMA OneBuilder ==
    ASSUME LockInv, NEW p \in Procs, pc[p] \in Applying,
           NEW q \in Procs \ {p}, pc[q] \in Cleared \union {"delRoot"}
    PROVE  FALSE
  BY DEF LockInv, Applying, Building, Cleared

LEMMA ApplyMix ==
    ASSUME TypeOK, PlanInv, LockInv, MixInv, NEW p \in Procs, ApplyStep(p)
    PROVE  MixInv'
<1> USE DEF Applying, Building, Cleared
<1>0. pc \in [Procs -> PcStates] /\ want \in [Procs -> Shape] /\ tc \in Shape
  BY DEF TypeOK
<1>1. CASE Load(p)
  BY <1>0, <1>1, MixKept DEF Load
<1>2. CASE ApplyFails(p)
  BY <1>0, <1>2, MixKept DEF ApplyFails, GiveUp, Go
<1>3. CASE DelIngress(p)
  <2>1. tc'["up"] = NULL /\ pc' = [pc EXCEPT ![p] = "delRoot"] /\ pc[p] = "delIngress"
    BY <1>0, <1>3 DEF DelIngress, Shape, Dir
  <2>2. \A q \in Procs : pc'[q] \notin Cleared
    BY <1>0, <2>1, OneBuilder
  <2> QED
    BY <2>1, <2>2 DEF MixInv
<1>4. CASE DelRoot(p)
  <2>1. tc' = NoShape
    BY <1>0, <1>4 DEF DelRoot, MixInv, NoShape, Shape, Dir
  <2>2. /\ pc[p] = "delRoot" /\ pc' = [pc EXCEPT ![p] = AfterDel(want[p])]
        /\ AfterDel(want[p]) # "delRoot"
    BY <1>4 DEF DelRoot, Go, AfterDel, AfterPeers
  <2>3. \A q \in Procs : pc'[q] # "delRoot"
    BY <1>0, <2>2, OneBuilder
  <2> QED
    BY <2>1, <2>3 DEF MixInv, Mine, NoShape, Dir
<1>5. ASSUME NEW d \in Dir, AddQdisc(p, d) PROVE MixInv'
  <2>1. /\ pc[p] = QdiscState[d] /\ pc' = [pc EXCEPT ![p] = PeersState[d]] /\ want' = want
        /\ tc' = [tc EXCEPT ![d] = NoLimits]
    BY <1>5 DEF AddQdisc
  <2>2. pc[p] \in Cleared /\ pc'[p] \in Cleared /\ want[p][d] # NULL
    BY <1>0, <2>1 DEF QdiscState, PeersState, Dir, PlanInv
  <2>3. \A q \in Procs \ {p} : pc'[q] \notin Cleared \union {"delRoot"}
    BY <1>0, <2>1, <2>2, OneBuilder
  <2>4. \A e \in Dir : Mine(p, e)'
    BY <1>0, <2>1, <2>2 DEF MixInv, Mine, Shape, NoLimits
  <2> QED
    BY <2>2, <2>3, <2>4 DEF MixInv
<1>6. ASSUME NEW d \in Dir, NEW u \in Users, AddPeer(p, d, u) PROVE MixInv'
  <2>1. /\ pc[p] = PeersState[d] /\ pc' = pc /\ want' = want
        /\ tc' = [tc EXCEPT ![d][u] = want[p][d][u]]
    BY <1>6 DEF AddPeer
  <2>2. pc[p] \in Cleared
    BY <2>1 DEF PeersState, Dir
  <2>3. \A q \in Procs \ {p} : pc'[q] \notin Cleared \union {"delRoot"}
    BY <2>1, <2>2, OneBuilder
  <2>4. Mine(p, d)'
    <3>1. tc[d] \in Limits /\ tc'[d] = [tc[d] EXCEPT ![u] = want[p][d][u]]
      BY <1>0, <1>6, <2>1 DEF AddPeer, Shape
    <3>2. Mine(p, d)
      BY <2>2 DEF MixInv
    <3> QED
      BY <1>6, <2>1, <3>1, <3>2 DEF AddPeer, Mine, Limits
  <2>5. \A e \in Dir \ {d} : Mine(p, e)'
    BY <1>0, <2>1, <2>2 DEF MixInv, Mine, Shape
  <2> QED
    BY <2>1, <2>2, <2>3, <2>4, <2>5 DEF MixInv
<1>7. ASSUME NEW d \in Dir, PeersDone(p, d) PROVE MixInv'
  <2> DEFINE next == AfterPeers(want[p])[d]
  <2>1. /\ pc[p] = PeersState[d] /\ pc' = [pc EXCEPT ![p] = next] /\ tc' = tc
        /\ next \in {"idle", "ingress"}
        /\ next = "ingress" => want' = want
    BY <1>7 DEF PeersDone, Go, AfterPeers, Dir
  <2>2. pc[p] \in Cleared
    BY <2>1 DEF PeersState, Dir
  <2>3. \A q \in Procs \ {p} : pc'[q] \notin Cleared \union {"delRoot"}
    BY <1>0, <2>1, <2>2, OneBuilder
  <2>4. pc'[p] \in Cleared => \A e \in Dir : Mine(p, e)'
    BY <1>0, <2>1, <2>2 DEF MixInv, Mine
  <2> QED
    BY <1>0, <2>1, <2>3, <2>4 DEF MixInv
<1> QED
  BY <1>1, <1>2, <1>3, <1>4, <1>5, <1>6, <1>7 DEF ApplyStep

LEMMA StepMix == IInv /\ MixInv /\ [Next]_vars => MixInv'
<1> SUFFICES ASSUME IInv, MixInv, [Next]_vars PROVE MixInv'
  OBVIOUS
<1> USE DEF Cleared
<1>0. TypeOK /\ PlanInv /\ LockInv /\ pc \in [Procs -> PcStates]
  BY DEF IInv, TypeOK
<1>1. CASE GroupStep \/ UserStep \/ (\E p \in Procs : WireGuardPost(p))
  <2>1. PICK p \in Procs, next \in Before \ {"load"} : Begin(p, next)
    BY <1>1, RequestBegins
  <2> QED
    BY <1>0, <2>1, MixKept DEF Begin, Before
<1>2. ASSUME NEW p \in Procs,
             HandlerStep(p) \/ PushStep(p) \/ Lock(p) \/ \E u \in Users : BulkInsert(p, u)
      PROVE  MixInv'
  BY <1>0, <1>2, MixKept
     DEF HandlerStep, ToggleWrite, BulkDone, BulkFails, PushStep, TakeDown, Push, PushFails,
         Lock, BulkInsert, local
<1>3. CASE \E p \in Procs : ApplyStep(p)
  BY <1>0, <1>3, ApplyMix
<1>4. CASE \/ \E g \in Groups : GroupCreate(g) \/ GroupDelete(g)
           \/ \E u \in Users : SyncerFlip(u)
           \/ InterfaceLost \/ Restart \/ UNCHANGED vars
  BY <1>4, MixKept
     DEF GroupCreate, GroupDelete, SyncerFlip, InterfaceLost, Restart, vars, local
<1> QED
  BY <1>1, <1>2, <1>3, <1>4 DEF Next

\* Whatever fails, dies or is written meanwhile, and however many requests apply:
\* what stands on the interface while it is built comes from one load of the
\* limits (apply.go:13-14, plan.go:148-149).
THEOREM LimitsAreOfOneLoad == Spec => []Unmixed
<1>1. Init => MixInv
  BY DEF Init, MixInv, Cleared
<1>2. MixInv => Unmixed
  BY DEF MixInv, Mine, Unmixed
<1> QED
  BY <1>1, <1>2, StepMix, IInvHolds, PTL DEF Spec
=============================================================================
