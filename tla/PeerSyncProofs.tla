--------------------------- MODULE PeerSyncProofs ---------------------------
(***************************************************************************)
(* Proofs about PeerSync, and about renewals in PeerSyncRenewal.           *)
(***************************************************************************)
EXTENDS PeerSyncRenewal, TLAPS

LEMMA SyncedRowType ==
    ASSUME NEW r \in Row, NEW p \in Peer, now \in Nat
    PROVE  SyncedRow(r, p) \in Row
<1>1. NewTotal(r, p) \in Counters
  BY DEF NewTotal, Row, Counters, Dir
<1>2. UsageInc(r, p) \in Int
  BY <1>1 DEF UsageInc, Usage, Row, Peer, Counters, Dir
<1>3. NewQuota(r, p) \in Nat \union {NULL}
  BY <1>2 DEF NewQuota, AtLeast0, Row
<1>4. NewDays(r) \in Nat \union {NULL}
  BY DEF NewDays, DaysRunning, DaysSince, AtLeast0, Row
<1>5. NewLastCheck(r) \in Nat \union {NULL}
  BY DEF NewLastCheck, Row
<1>6. NewEnabled(r, p) \in BOOLEAN
  BY DEF NewEnabled
<1> QED
  BY <1>1, <1>3, <1>4, <1>5, <1>6 DEF SyncedRow, Row, Peer

LEMMA SyncedRowFields ==
    ASSUME NEW r \in Row, NEW p \in Peer
    PROVE  /\ SyncedRow(r, p).stored = p.ctr
           /\ SyncedRow(r, p).total = NewTotal(r, p)
           /\ SyncedRow(r, p).quota = NewQuota(r, p)
           /\ SyncedRow(r, p).days = NewDays(r)
           /\ SyncedRow(r, p).lastCheck = NewLastCheck(r)
  BY DEF SyncedRow, Row

LEMMA DaysChargedFit ==
    ASSUME NEW r \in Row, now \in Nat, DaysRunning(r),
           r.lastCheck # NULL => r.lastCheck <= now
    PROVE  /\ r.days - NewDays(r) \in Nat
           /\ r.lastCheck = NULL => r.days - NewDays(r) = 0
           /\ r.lastCheck # NULL => r.lastCheck + 24 * (r.days - NewDays(r)) <= NewLastCheck(r)
           /\ NewLastCheck(r) <= now
<1>1. CASE r.lastCheck = NULL
  BY <1>1, ConstantsAssumption DEF NewDays, NewLastCheck, DaysRunning, Row
<1>2. CASE r.lastCheck # NULL
  BY <1>2, ConstantsAssumption DEF NewDays, NewLastCheck, DaysRunning, DaysSince, AtLeast0, Row
<1> QED
  BY <1>1, <1>2

-----------------------------------------------------------------------------
(* Types and days. *)

LEMMA InitTyped == Init => TypeOK /\ DaysInv
<1> SUFFICES ASSUME Init PROVE TypeOK /\ DaysInv
  OBVIOUS
<1>1. Zero \in Counters
  BY DEF Zero, Counters
<1>2. TypeOK
  BY <1>1 DEF Init, TypeOK, Peers, NoPeers, AdminStates
<1>3. \A u \in Users : user[u] = NULL
  BY DEF Init
<1>4. ASSUME NEW u \in Users PROVE charged[u] <= now
  <2>1. charged[u] = 0 /\ now = 0
    BY DEF Init
  <2> QED
    BY <2>1
<1>5. DaysInv
  BY <1>3, <1>4 DEF DaysInv
<1> QED
  BY <1>2, <1>5

\* What the transaction does to one row and to the history of its days.
LEMMA CommitDays ==
    ASSUME TypeOK, DaysInv, SyncCommit, NEW u \in Users
    PROVE  /\ user'[u] \in Row \union {NULL}
           /\ charged'[u] \in Nat
           /\ charged'[u] <= now'
           /\ user'[u] # NULL /\ user'[u].lastCheck # NULL =>
                charged'[u] <= user'[u].lastCheck /\ user'[u].lastCheck <= now'
<1> DEFINE r == user[u]
           p == dump.peers[u]
<1>1. /\ user'[u] = IF InDump(u) THEN SyncedRow(r, p) ELSE r
      /\ charged'[u] = charged[u] + 24 * DaysCharged(u)
      /\ now' = now /\ now \in Nat /\ charged[u] \in Nat /\ charged[u] <= now
      /\ r \in Row \union {NULL}
  BY DEF SyncCommit, TypeOK, DaysInv
<1>2. CASE ~InDump(u)
  BY <1>1, <1>2 DEF DaysCharged, DaysInv
<1>3. CASE InDump(u)
  <2>1. r \in Row /\ p \in Peer
    BY <1>1, <1>3 DEF InDump, SyncCommit, TypeOK, Dump, Peers
  <2>2. r.lastCheck # NULL => charged[u] <= r.lastCheck /\ r.lastCheck <= now
    BY <1>3 DEF DaysInv, InDump
  <2>3. SyncedRow(r, p) \in Row /\ SyncedRow(r, p).lastCheck = NewLastCheck(r)
    BY <1>1, <2>1, SyncedRowType, SyncedRowFields
  <2>4. CASE DaysRunning(r)
    <3>1. DaysCharged(u) = r.days - NewDays(r)
      BY <1>3, <2>4 DEF DaysCharged
    <3>2. /\ DaysCharged(u) \in Nat
          /\ r.lastCheck = NULL => DaysCharged(u) = 0
          /\ r.lastCheck # NULL => r.lastCheck + 24 * DaysCharged(u) <= NewLastCheck(r)
          /\ NewLastCheck(r) <= now
      BY <1>1, <2>1, <2>2, <2>4, <3>1, DaysChargedFit
    <3>3. NewLastCheck(r) \in Nat
      BY <1>1, <2>1, <2>4 DEF NewLastCheck, Row
    <3>4. r.lastCheck = NULL => NewLastCheck(r) = now
      BY <2>4 DEF NewLastCheck
    <3>5. r.lastCheck # NULL => r.lastCheck \in Nat
      BY <2>1 DEF Row
    <3> HIDE DEF r, p
    <3> QED
      BY <1>1, <1>3, <2>2, <2>3, <3>2, <3>3, <3>4, <3>5
  <2>5. CASE ~DaysRunning(r)
    BY <1>1, <1>3, <2>2, <2>3, <2>5 DEF DaysCharged, NewLastCheck
  <2> QED
    BY <2>4, <2>5
<1> QED
  BY <1>2, <1>3

\* An edit or a toggle keeps the accounting columns of its row.
LEMMA EditedRow ==
    ASSUME TypeOK, NEW u \in Users, UserUpdate(u) \/ UserToggle(u)
    PROVE  /\ user[u] # NULL
           /\ user'[u] \in Row
           /\ user'[u].total = user[u].total /\ user'[u].stored = user[u].stored
           /\ user'[u].lastCheck = user[u].lastCheck
           /\ \A v \in Users \ {u} : user'[v] = user[v]
<1>1. user[u] # NULL /\ user[u] \in Row
  BY DEF UserUpdate, UserToggle, TypeOK
<1>2. CASE UserUpdate(u)
  <2>1. PICK k \in KeyPairs, e \in BOOLEAN, n \in Days \union {NULL}, q \in Quotas \union {NULL} :
          user' = [user EXCEPT ![u].key = k, ![u].enabled = e, ![u].days = n, ![u].quota = q]
    BY <1>2 DEF UserUpdate
  <2>2. user'[u] \in Row
    BY <1>1, <2>1, ConstantsAssumption DEF TypeOK, Row
  <2>3. /\ user'[u].total = user[u].total /\ user'[u].stored = user[u].stored
        /\ user'[u].lastCheck = user[u].lastCheck
    BY <1>1, <2>1 DEF TypeOK, Row
  <2>4. \A v \in Users \ {u} : user'[v] = user[v]
    BY <2>1 DEF TypeOK
  <2> QED
    BY <1>1, <2>2, <2>3, <2>4
<1>3. CASE UserToggle(u)
  <2>1. user'[u] \in Row
    BY <1>1, <1>3 DEF UserToggle, TypeOK, Row
  <2>2. /\ user'[u].total = user[u].total /\ user'[u].stored = user[u].stored
        /\ user'[u].lastCheck = user[u].lastCheck
    BY <1>1, <1>3 DEF UserToggle, TypeOK, Row
  <2> QED
    BY <1>1, <1>3, <2>1, <2>2 DEF UserToggle, TypeOK
<1> QED
  BY <1>2, <1>3

LEMMA NextTyped == TypeOK /\ DaysInv /\ [Next]_vars => TypeOK' /\ DaysInv'
<1> SUFFICES ASSUME TypeOK, DaysInv, [Next]_vars
             PROVE  TypeOK' /\ DaysInv'
  OBVIOUS
<1> USE DEF TypeOK, DaysInv, AdminStates
<1>1. CASE SyncDump
  BY <1>1 DEF SyncDump, Dump
<1>2. CASE SyncCommit
  <2>1. \A u \in Users : user'[u] \in Row \union {NULL} /\ charged'[u] \in Nat
    BY <1>2, CommitDays
  <2>2. DaysInv'
    BY <1>2, CommitDays
  <2>3. TypeOK'
    BY <1>2, <2>1 DEF SyncCommit
  <2> QED
    BY <2>2, <2>3
<1>3. CASE SyncAbort
  BY <1>3 DEF SyncAbort
<1>4. ASSUME NEW u \in Users, UserCreate(u)
      PROVE  TypeOK' /\ DaysInv'
  <2>1. PICK k \in KeyPairs, e \in BOOLEAN, n \in Days \union {NULL}, q \in Quotas \union {NULL} :
          user' = [user EXCEPT ![u] =
                      [key |-> k, enabled |-> e, stored |-> Zero, total |-> Zero,
                       days |-> n, quota |-> q, lastCheck |-> NULL]]
    BY <1>4 DEF UserCreate
  <2>2. user'[u] \in Row /\ user'[u].lastCheck = NULL
    BY <2>1, ConstantsAssumption DEF Row, Zero, Counters
  <2> QED
    BY <1>4, <2>1, <2>2 DEF UserCreate, Request
<1>5. ASSUME NEW u \in Users, UserUpdate(u) \/ UserToggle(u)
      PROVE  TypeOK' /\ DaysInv'
  <2>1. user' \in [Users -> Row \union {NULL}]
    <3>1. user' = [user EXCEPT ![u] = user'[u]]
      BY <1>5 DEF UserUpdate, UserToggle
    <3> QED
      BY <1>5, <3>1, EditedRow
  <2>2. UNCHANGED <<conf, up, wg, dump, now, carried, charged>> /\ admin' = "write"
    BY <1>5 DEF UserUpdate, UserToggle, Request
  <2>3. TypeOK'
    BY <2>1, <2>2
  <2>4. DaysInv'
    <3> SUFFICES ASSUME NEW v \in Users
                 PROVE  /\ charged[v] <= now
                        /\ user'[v] # NULL /\ user'[v].lastCheck # NULL =>
                             charged[v] <= user'[v].lastCheck /\ user'[v].lastCheck <= now
      BY <2>2
    <3>1. CASE v = u
      BY <1>5, <3>1, EditedRow
    <3>2. CASE v # u
      BY <1>5, <3>2, EditedRow
    <3> QED
      BY <3>1, <3>2
  <2> QED
    BY <2>3, <2>4
<1>6. ASSUME NEW u \in Users, UserDelete(u)
      PROVE  TypeOK' /\ DaysInv'
  BY <1>6 DEF UserDelete, Request
<1>7. CASE WireGuardPost
  BY <1>7 DEF WireGuardPost, Request
<1>8. CASE WriteConfig
  <2>1. \A u \in Users : Listed(u) \in KeyPairs \union {NULL}
    BY DEF Listed, Row
  <2> QED
    BY <1>8, <2>1 DEF WriteConfig, AfterWrite
<1>9. CASE WriteConfigFails
  BY <1>9 DEF WriteConfigFails
<1>10. CASE LoadConfig
  <2>1. \A u \in Users : Loaded(u) \in Peer \union {NULL}
    BY DEF Loaded, Peers, Peer, Counters, Zero
  <2> QED
    BY <1>10, <2>1 DEF LoadConfig, Peers
<1>11. CASE TakeDown
  BY <1>11 DEF TakeDown, Peers, NoPeers
<1>12. CASE ApplyFails
  BY <1>12 DEF ApplyFails
<1>13. ASSUME NEW u \in Users, NEW d \in Dir, Transfer(u, d)
       PROVE  TypeOK' /\ DaysInv'
  <2>1. wg[u] \in Peer
    BY <1>13 DEF Transfer, Peers
  <2>2. wg[u].ctr \in Counters /\ wg[u].ctr[d] + 1 \in Nat
    BY <2>1 DEF Peer, Counters
  <2>3. [wg[u].ctr EXCEPT ![d] = wg[u].ctr[d] + 1] \in Counters
    BY <2>2 DEF Counters
  <2>4. [wg[u] EXCEPT !.ctr = [wg[u].ctr EXCEPT ![d] = wg[u].ctr[d] + 1]] \in Peer
    BY <2>1, <2>3 DEF Peer
  <2>5. wg' = [wg EXCEPT ![u] = [wg[u] EXCEPT !.ctr = [wg[u].ctr EXCEPT ![d] = wg[u].ctr[d] + 1]]]
    BY <1>13 DEF Transfer
  <2>6. wg' \in Peers
    BY <2>4, <2>5 DEF Peers
  <2>7. carried' \in [Users -> Counters]
    BY <1>13 DEF Transfer, Counters
  <2> QED
    BY <1>13, <2>6, <2>7 DEF Transfer
<1>14. CASE InterfaceLost
  BY <1>14 DEF InterfaceLost, Peers, NoPeers
<1>15. CASE Restart
  BY <1>15 DEF Restart
<1>16. CASE Tick
  <2>1. now' \in Nat /\ now <= now'
    BY <1>16, ConstantsAssumption DEF Tick
  <2>2. \A u \in Users : user[u] # NULL /\ user[u].lastCheck # NULL => user[u].lastCheck \in Nat
    BY DEF Row
  <2> QED
    BY <1>16, <2>1, <2>2 DEF Tick
<1>17. CASE UNCHANGED vars
  BY <1>17 DEF vars
<1> QED
  BY <1>1, <1>2, <1>3, <1>4, <1>5, <1>6, <1>7, <1>8, <1>9, <1>10, <1>11,
     <1>12, <1>13, <1>14, <1>15, <1>16, <1>17 DEF Next, AdminStep, PushStep

-----------------------------------------------------------------------------
(* The counters. *)

LEMMA CtrType ==
    ASSUME NEW p \in Peer \union {NULL}
    PROVE  Ctr(p) \in Counters
<1>1. CASE p = NULL
  BY <1>1 DEF Ctr, Zero, Counters
<1>2. CASE p # NULL
  BY <1>2 DEF Ctr, Peer
<1> QED
  BY <1>1, <1>2

LEMMA BaseValue ==
    ASSUME NEW c \in Counters, NEW p \in Peer \union {NULL}, NEW d \in Dir
    PROVE  /\ Base(c, p)[d] = c[d] - Ctr(p)[d]
           /\ c[d] \in Nat /\ Ctr(p)[d] \in Nat
  BY CtrType DEF Base, Counters

\* A row that fits keeps to what was carried.
LEMMA FittingIsCarried ==
    ASSUME NEW r \in Row, NEW c \in Counters, NEW p \in Peer \union {NULL}, NEW d \in Dir,
           CountersFit(c, p), FitsIn(r, Base(c, p), Ctr(p))
    PROVE  r.total[d] + r.stored[d] <= c[d]
<1>1. r.total[d] \in Nat /\ r.stored[d] \in Nat
  BY DEF Row, Counters
<1> QED
  BY <1>1, BaseValue DEF CountersFit, FitsIn

\* The life that p shows goes on: nothing that was past becomes present.
LEMMA LifeGoesOn ==
    ASSUME NEW r \in Row, NEW c \in Counters, NEW p \in Peer \union {NULL},
           NEW c2 \in Counters, NEW p2 \in Peer \union {NULL},
           CountersFit(c, p), FitsIn(r, Base(c, p), Ctr(p)),
           \A d \in Dir : Base(c2, p2)[d] = Base(c, p)[d] /\ Ctr(p)[d] <= Ctr(p2)[d]
    PROVE  FitsIn(r, Base(c2, p2), Ctr(p2))
<1>1. \A d \in Dir : r.total[d] \in Nat /\ r.stored[d] \in Nat
  BY DEF Row, Counters
<1>2. \A d \in Dir : Ctr(p)[d] \in Nat /\ Ctr(p2)[d] \in Nat
  BY BaseValue
<1> QED
  BY <1>1, <1>2 DEF FitsIn

\* A new life begins with all that was carried behind it.
LEMMA NewLife ==
    ASSUME NEW r \in Row, NEW c \in Counters, NEW p \in Peer \union {NULL},
           NEW p2 \in Peer \union {NULL},
           CountersFit(c, p), FitsIn(r, Base(c, p), Ctr(p)), Ctr(p2) = Zero
    PROVE  FitsIn(r, Base(c, p2), Ctr(p2))
<1>1. ASSUME NEW d \in Dir PROVE r.total[d] + r.stored[d] <= Base(c, p2)[d]
  <2>1. Base(c, p2)[d] = c[d]
    BY BaseValue DEF Zero
  <2> QED
    BY <2>1, FittingIsCarried
<1> QED
  BY <1>1 DEF FitsIn

\* A sync replaces a row that fits the dump by one whose total lies in earlier
\* lives and whose stored counters are those of the dump.
LEMMA SyncedRowFits ==
    ASSUME NEW r \in Row, NEW c \in Counters, NEW p \in Peer,
           FitsIn(r, Base(c, p), p.ctr)
    PROVE  \A d \in Dir : SyncedRow(r, p).total[d] <= Base(c, p)[d]
<1>1. \A d \in Dir : r.total[d] \in Nat /\ r.stored[d] \in Nat /\ p.ctr[d] \in Nat
  BY DEF Row, Peer, Counters
<1>2. \A d \in Dir : Base(c, p)[d] \in Int
  BY BaseValue
<1>3. \A d \in Dir : NewTotal(r, p)[d] =
        IF CounterReset(r, p) THEN r.total[d] + r.stored[d] ELSE r.total[d]
  BY DEF NewTotal
<1>4. CASE \A d \in Dir : r.total[d] + r.stored[d] <= Base(c, p)[d]
  BY <1>1, <1>2, <1>3, <1>4, SyncedRowFields
<1>5. CASE \A d \in Dir : r.total[d] <= Base(c, p)[d] /\ r.stored[d] <= p.ctr[d]
  <2>1. ~CounterReset(r, p)
    BY <1>1, <1>5 DEF CounterReset
  <2> QED
    BY <1>3, <1>5, <2>1, SyncedRowFields
<1> QED
  BY <1>4, <1>5 DEF FitsIn

LEMMA InitAccounted == Init => AccountInv
<1> SUFFICES ASSUME Init, NEW u \in Users PROVE Accounted(u)
  BY DEF AccountInv
<1>1. user[u] = NULL /\ wg[u] = NULL /\ dump = NULL /\ carried[u] = Zero
  BY DEF Init, NoPeers
<1>2. CountersFit(Zero, NULL)
  BY DEF CountersFit, Ctr, Zero
<1> QED
  BY <1>1, <1>2 DEF Accounted

\* The types of what AccountInv relates for one account.
LEMMA AccountTypes ==
    ASSUME TypeOK, NEW u \in Users
    PROVE  /\ carried[u] \in Counters
           /\ wg[u] \in Peer \union {NULL}
           /\ user[u] \in Row \union {NULL}
           /\ dump # NULL => /\ dump.carried[u] \in Counters
                             /\ dump.peers[u] \in Peer \union {NULL}
  BY DEF TypeOK, Peers, Dump

\* Steps that keep the row, the peer and the dump of u.
LEMMA RowPeerDumpKept ==
    ASSUME NEW u \in Users, Accounted(u),
           user'[u] = user[u], wg'[u] = wg[u], carried'[u] = carried[u],
           dump' = dump \/ dump' = NULL
    PROVE  Accounted(u)'
  BY DEF Accounted

\* Steps on the interface: the peer of u goes on counting, or starts again.
LEMMA PeerSteps ==
    ASSUME TypeOK, TypeOK', NEW u \in Users, Accounted(u),
           user'[u] = user[u], dump' = dump,
           \/ \A d \in Dir : /\ Base(carried'[u], wg'[u])[d] = Base(carried[u], wg[u])[d]
                             /\ Ctr(wg[u])[d] <= Ctr(wg'[u])[d]
           \/ carried'[u] = carried[u] /\ Ctr(wg'[u]) = Zero
    PROVE  Accounted(u)'
<1> DEFINE c == carried[u]
           p == wg[u]
           c2 == carried'[u]
           p2 == wg'[u]
           oldc == dump.carried[u]
           old == dump.peers[u]
<1>1. /\ c \in Counters /\ p \in Peer \union {NULL}
      /\ c2 \in Counters /\ p2 \in Peer \union {NULL}
      /\ user[u] \in Row \union {NULL}
      /\ dump # NULL => oldc \in Counters /\ old \in Peer \union {NULL}
  BY AccountTypes DEF TypeOK, Peers
<1>2. \A d \in Dir : /\ Base(c, p)[d] = c[d] - Ctr(p)[d]
                     /\ Base(c2, p2)[d] = c2[d] - Ctr(p2)[d]
                     /\ c[d] \in Nat /\ Ctr(p)[d] \in Nat
                     /\ c2[d] \in Nat /\ Ctr(p2)[d] \in Nat
  BY <1>1, BaseValue
<1>3. dump # NULL => \A d \in Dir : /\ Base(oldc, old)[d] = oldc[d] - Ctr(old)[d]
                                    /\ oldc[d] \in Nat /\ Ctr(old)[d] \in Nat
  BY <1>1, BaseValue
<1>4. /\ CountersFit(c, p)
      /\ user[u] # NULL => FitsIn(user[u], Base(c, p), Ctr(p))
      /\ dump # NULL => /\ CountersFit(oldc, old) /\ IsPast(oldc, old, c, p)
                        /\ user[u] # NULL => FitsIn(user[u], Base(oldc, old), Ctr(old))
  BY DEF Accounted
<1> HIDE DEF c, p, c2, p2, oldc, old
<1>5. CASE \A d \in Dir : Base(c2, p2)[d] = Base(c, p)[d] /\ Ctr(p)[d] <= Ctr(p2)[d]
  <2>1. CountersFit(c2, p2)
    BY <1>2, <1>4, <1>5 DEF CountersFit
  <2>2. user[u] # NULL => FitsIn(user[u], Base(c2, p2), Ctr(p2))
    BY <1>1, <1>4, <1>5, LifeGoesOn
  <2>3. dump # NULL => IsPast(oldc, old, c2, p2)
    BY <1>2, <1>3, <1>4, <1>5 DEF IsPast
  <2> QED
    BY <1>4, <2>1, <2>2, <2>3 DEF Accounted, c2, p2, oldc, old
<1>6. CASE c2 = c /\ Ctr(p2) = Zero
  <2>1. \A d \in Dir : Ctr(p2)[d] = 0
    BY <1>6 DEF Zero
  <2>2. CountersFit(c2, p2)
    BY <1>2, <2>1 DEF CountersFit
  <2>3. user[u] # NULL => FitsIn(user[u], Base(c2, p2), Ctr(p2))
    BY <1>1, <1>4, <1>6, NewLife
  <2>4. dump # NULL => \A d \in Dir : oldc[d] <= Base(c2, p2)[d]
    BY <1>2, <1>3, <1>4, <1>6, <2>1 DEF IsPast, CountersFit
  <2>5. dump # NULL => IsPast(oldc, old, c2, p2)
    BY <2>4 DEF IsPast
  <2> QED
    BY <1>4, <2>2, <2>3, <2>5 DEF Accounted, c2, p2, oldc, old
<1> QED
  BY <1>5, <1>6 DEF c, p, c2, p2

\* Steps on the row that leave its counters alone, or open it with none.
LEMMA RowSteps ==
    ASSUME TypeOK, NEW u \in Users, Accounted(u),
           UNCHANGED <<wg, carried, dump>>,
           \/ user'[u] = NULL
           \/ /\ user[u] # NULL
              /\ user'[u].total = user[u].total /\ user'[u].stored = user[u].stored
           \/ user'[u].total = Zero /\ user'[u].stored = Zero
    PROVE  Accounted(u)'
<1>1. CASE user'[u] = NULL
  BY <1>1 DEF Accounted
<1>2. CASE user[u] # NULL /\ user'[u].total = user[u].total /\ user'[u].stored = user[u].stored
  BY <1>2 DEF Accounted, FitsIn
<1>3. CASE user'[u].total = Zero /\ user'[u].stored = Zero
  <2>1. ASSUME NEW c \in Counters, NEW p \in Peer \union {NULL}, CountersFit(c, p)
        PROVE  FitsIn(user'[u], Base(c, p), Ctr(p))
    <3>1. \A d \in Dir : user'[u].total[d] = 0 /\ user'[u].stored[d] = 0
      BY <1>3 DEF Zero
    <3>2. \A d \in Dir : 0 <= Base(c, p)[d]
      BY <2>1, BaseValue DEF CountersFit
    <3> QED
      BY <3>1, <3>2 DEF FitsIn
  <2> QED
    BY <2>1, AccountTypes DEF Accounted
<1> QED
  BY <1>1, <1>2, <1>3

LEMMA CommitAccounted ==
    ASSUME TypeOK, SyncCommit, NEW u \in Users, Accounted(u)
    PROVE  Accounted(u)'
<1> DEFINE r == user[u]
           p == dump.peers[u]
           oldc == dump.carried[u]
<1>1. /\ user'[u] = IF InDump(u) THEN SyncedRow(r, p) ELSE r
      /\ wg' = wg /\ carried' = carried /\ dump' = NULL /\ dump # NULL
  BY DEF SyncCommit, TypeOK
<1>2. CASE ~InDump(u)
  BY <1>1, <1>2, RowPeerDumpKept
<1>3. CASE InDump(u)
  <2>1. r \in Row /\ p \in Peer /\ oldc \in Counters /\ Ctr(p) = p.ctr
    BY <1>1, <1>3, AccountTypes DEF InDump, Ctr
  <2>2. carried[u] \in Counters /\ wg[u] \in Peer \union {NULL}
    BY AccountTypes
  <2>3. /\ FitsIn(r, Base(oldc, p), p.ctr)
        /\ CountersFit(oldc, p)
        /\ IsPast(oldc, p, carried[u], wg[u])
    BY <1>1, <1>3, <2>1 DEF Accounted, InDump
  <2> DEFINE s == SyncedRow(r, p)
  <2>4. \A d \in Dir : /\ s.total[d] <= Base(oldc, p)[d]
                       /\ s.stored[d] = Ctr(p)[d]
    BY <2>1, <2>3, SyncedRowFits, SyncedRowFields
  <2>5. s \in Row
    BY <2>1, SyncedRowType DEF TypeOK
  <2>6. \A d \in Dir : /\ s.total[d] \in Nat /\ s.stored[d] \in Nat
                       /\ Base(oldc, p)[d] = oldc[d] - Ctr(p)[d]
                       /\ oldc[d] \in Nat /\ Ctr(p)[d] \in Nat
                       /\ Base(carried[u], wg[u])[d] \in Int
                       /\ Ctr(wg[u])[d] \in Nat
    <3>1. \A d \in Dir : s.total[d] \in Nat /\ s.stored[d] \in Nat
      BY <2>5 DEF Row, Counters
    <3> HIDE DEF s, p, oldc
    <3> QED
      BY <2>1, <2>2, <3>1, BaseValue
  <2> HIDE DEF s, p, oldc
  <2>7. FitsIn(s, Base(carried[u], wg[u]), Ctr(wg[u]))
    <3>1. CASE \A d \in Dir : /\ Base(oldc, p)[d] = Base(carried[u], wg[u])[d]
                              /\ Ctr(p)[d] <= Ctr(wg[u])[d]
      BY <2>4, <2>6, <3>1 DEF FitsIn
    <3>2. CASE \A d \in Dir : oldc[d] <= Base(carried[u], wg[u])[d]
      BY <2>4, <2>6, <3>2 DEF FitsIn
    <3> QED
      BY <2>3, <3>1, <3>2 DEF IsPast
  <2> QED
    BY <1>1, <1>3, <2>7 DEF Accounted, s, p
<1> QED
  BY <1>2, <1>3

LEMMA NextAccounted ==
    TypeOK /\ TypeOK' /\ AccountInv /\ [Next]_vars => AccountInv'
<1> SUFFICES ASSUME TypeOK, TypeOK', AccountInv, [Next]_vars, NEW u \in Users
             PROVE  Accounted(u)'
  BY DEF AccountInv
<1>0. Accounted(u)
  BY DEF AccountInv
<1>1. CASE SyncDump
  <2>1. /\ user' = user /\ wg' = wg /\ carried' = carried
        /\ dump' = [peers |-> wg, carried |-> carried]
    BY <1>1 DEF SyncDump
  <2>2. dump'.peers[u] = wg[u] /\ dump'.carried[u] = carried[u]
    BY <2>1
  <2>3. \A d \in Dir : Ctr(wg[u])[d] \in Nat
    BY AccountTypes, BaseValue
  <2>4. IsPast(carried[u], wg[u], carried[u], wg[u])
    BY <2>3 DEF IsPast
  <2> QED
    BY <1>0, <2>1, <2>2, <2>4 DEF Accounted
<1>2. CASE SyncCommit
  BY <1>0, <1>2, CommitAccounted
<1>3. ASSUME SyncAbort \/ WireGuardPost \/ WriteConfig \/ WriteConfigFails
               \/ ApplyFails \/ Restart \/ Tick \/ UNCHANGED vars
      PROVE  Accounted(u)'
  <2>1. UNCHANGED <<user, wg, carried>> /\ (dump' = dump \/ dump' = NULL)
    BY <1>3 DEF SyncAbort, WireGuardPost, Request, WriteConfig, WriteConfigFails,
       ApplyFails, Restart, Tick, vars
  <2> QED
    BY <1>0, <2>1, RowPeerDumpKept
<1>4. ASSUME NEW v \in Users,
             UserCreate(v) \/ UserUpdate(v) \/ UserToggle(v) \/ UserDelete(v)
      PROVE  Accounted(u)'
  <2>1. UNCHANGED <<wg, carried, dump>>
    BY <1>4 DEF UserCreate, UserUpdate, UserToggle, UserDelete, Request
  <2>2. CASE u # v
    <3>1. user'[u] = user[u]
      BY <1>4, <2>2 DEF UserCreate, UserUpdate, UserToggle, UserDelete, TypeOK
    <3> QED
      BY <1>0, <2>1, <3>1, RowPeerDumpKept
  <2>3. CASE u = v
    <3>1. CASE UserCreate(u)
      <4>1. user'[u].total = Zero /\ user'[u].stored = Zero
        BY <3>1 DEF UserCreate, TypeOK
      <4> QED
        BY <1>0, <2>1, <4>1, RowSteps
    <3>2. CASE UserUpdate(u) \/ UserToggle(u)
      BY <1>0, <2>1, <3>2, EditedRow, RowSteps
    <3>3. CASE UserDelete(u)
      <4>1. user'[u] = NULL
        BY <3>3 DEF UserDelete, TypeOK
      <4> QED
        BY <1>0, <2>1, <4>1, RowSteps
    <3> QED
      BY <1>4, <2>3, <3>1, <3>2, <3>3
  <2> QED
    BY <2>2, <2>3
<1>5. CASE LoadConfig
  <2>1. user' = user /\ dump' = dump /\ carried' = carried /\ wg'[u] = Loaded(u)
    BY <1>5 DEF LoadConfig
  <2>2. CASE wg'[u] = wg[u]
    BY <1>0, <2>1, <2>2, RowPeerDumpKept
  <2>3. CASE Ctr(wg'[u]) = Zero
    BY <1>0, <2>1, <2>3, PeerSteps
  <2>4. wg'[u] = wg[u] \/ wg'[u] = NULL \/ wg'[u] = [key |-> conf[u], ctr |-> Zero]
    BY <2>1 DEF Loaded
  <2>5. wg'[u] = wg[u] \/ Ctr(wg'[u]) = Zero
    BY <2>4 DEF Ctr
  <2> QED
    BY <2>2, <2>3, <2>5
<1>6. ASSUME TakeDown \/ InterfaceLost
      PROVE  Accounted(u)'
  <2>1. user' = user /\ dump' = dump /\ carried' = carried /\ wg'[u] = NULL
    BY <1>6 DEF TakeDown, InterfaceLost, NoPeers
  <2> QED
    BY <1>0, <2>1, PeerSteps DEF Ctr
<1>7. ASSUME NEW v \in Users, NEW d \in Dir, Transfer(v, d)
      PROVE  Accounted(u)'
  <2>1. user' = user /\ dump' = dump
    BY <1>7 DEF Transfer
  <2>2. CASE u # v
    <3>1. wg'[u] = wg[u] /\ carried'[u] = carried[u]
      BY <1>7, <2>2 DEF Transfer, TypeOK, Peers
    <3> QED
      BY <1>0, <2>1, <3>1, RowPeerDumpKept
  <2>3. CASE u = v
    <3>1. wg[u] \in Peer /\ wg[u] # NULL /\ carried[u] \in Counters
      BY <1>7, <2>3, AccountTypes DEF Transfer
    <3>2. /\ wg'[u] = [wg[u] EXCEPT !.ctr[d] = @ + 1]
          /\ carried'[u] = [carried[u] EXCEPT ![d] = @ + 1]
      BY <1>7, <2>3 DEF Transfer, TypeOK, Peers
    <3>3. /\ Ctr(wg[u]) = wg[u].ctr
          /\ wg'[u] \in Peer
          /\ wg'[u].ctr = [wg[u].ctr EXCEPT ![d] = @ + 1]
      BY <3>1, <3>2 DEF Ctr, Peer, Counters
    <3>4. Ctr(wg'[u]) = wg'[u].ctr
      BY <3>3, NoPeerAssumption DEF Ctr
    <3>5. \A e \in Dir : /\ wg'[u].ctr[e] = wg[u].ctr[e] + (IF e = d THEN 1 ELSE 0)
                         /\ carried'[u][e] = carried[u][e] + (IF e = d THEN 1 ELSE 0)
                         /\ wg[u].ctr[e] \in Nat /\ carried[u][e] \in Nat
      BY <3>1, <3>2, <3>3 DEF Peer, Counters
    <3>6. \A e \in Dir : /\ Base(carried'[u], wg'[u])[e] = Base(carried[u], wg[u])[e]
                         /\ Ctr(wg[u])[e] <= Ctr(wg'[u])[e]
      BY <3>3, <3>4, <3>5 DEF Base
    <3> QED
      BY <1>0, <2>1, <3>6, PeerSteps
  <2> QED
    BY <2>2, <2>3
<1> QED
  BY <1>1, <1>2, <1>3, <1>4, <1>5, <1>6, <1>7 DEF Next, AdminStep, PushStep

-----------------------------------------------------------------------------
(* The invariants. *)

Inv == TypeOK /\ DaysInv /\ AccountInv

LEMMA Invariant == Spec => []Inv
<1>1. Init => Inv
  BY InitTyped, InitAccounted DEF Inv
<1>2. Inv /\ [Next]_vars => Inv'
  BY NextTyped, NextAccounted DEF Inv
<1> QED
  BY <1>1, <1>2, PTL DEF Spec

\* Every reachable state of PeerSync is well typed.
THEOREM TypeCorrect == Spec => []TypeOK
<1>1. Inv => TypeOK
  BY DEF Inv
<1> QED
  BY <1>1, Invariant, PTL

LEMMA AccountedIsCarried == Inv => NoOvercount
<1> SUFFICES ASSUME Inv, NEW u \in Users, NEW d \in Dir
             PROVE  Recorded(u, d) <= carried[u][d]
  BY DEF NoOvercount
<1>1. /\ carried[u] \in Counters /\ wg[u] \in Peer \union {NULL}
      /\ user[u] \in Row \union {NULL}
  BY AccountTypes DEF Inv
<1>2. CASE user[u] = NULL
  BY <1>1, <1>2 DEF Recorded, Counters
<1>3. CASE user[u] # NULL
  <2>1. Accounted(u) /\ user[u] \in Row
    BY <1>1, <1>3 DEF Inv, AccountInv
  <2> QED
    BY <1>1, <1>3, <2>1, FittingIsCarried DEF Recorded, Accounted
<1> QED
  BY <1>2, <1>3

\* The syncer never books a byte that was not carried, however counters
\* restart and however stale the dump is: NoOvercount for every set of users.
THEOREM NeverOvercounts == Spec => []NoOvercount
  BY AccountedIsCarried, Invariant, PTL

\* No hour is charged to remaining_days twice: NoDayChargedTwice.
THEOREM DaysAreChargedOnce == Spec => []NoDayChargedTwice
<1>1. Inv => NoDayChargedTwice
  BY DEF Inv, DaysInv, NoDayChargedTwice
<1> QED
  BY <1>1, Invariant, PTL

\* The last check of an account is no earlier than the last hour charged: DaysInv,
\* without which the next check could charge that hour again.
THEOREM ChecksFollowCharges == Spec => []DaysInv
<1>1. Inv => DaysInv
  BY DEF Inv
<1> QED
  BY <1>1, Invariant, PTL

\* The strengthening that makes the accounting inductive: AccountInv.
THEOREM AccountingIsSound == Spec => []AccountInv
<1>1. Inv => AccountInv
  BY DEF Inv
<1> QED
  BY <1>1, Invariant, PTL

-----------------------------------------------------------------------------
(* Settled accounts. *)

\* Only a request of the administrator for a settled account, never the syncer,
\* a push or a restart, brings it back: SettledHolds.  Restores are not in PeerSync.
THEOREM SettledAccountsStay == Spec => SettledHolds
<1> DEFINE Stays == \A u \in Users : Settled(u) /\ ~Settled(u)' =>
                        UserUpdate(u) \/ UserToggle(u) \/ UserDelete(u)
<1>1. TypeOK /\ [Next]_vars => [Stays]_vars
  <2> SUFFICES ASSUME TypeOK, Next, NEW u \in Users, Settled(u),
                      ~(UserUpdate(u) \/ UserToggle(u) \/ UserDelete(u))
               PROVE  Settled(u)'
    BY DEF Stays
  <2>0. /\ user[u] # NULL /\ ~user[u].enabled /\ conf[u] = NULL /\ wg[u] = NULL
        /\ dump # NULL => dump.peers[u] = NULL
    BY DEF Settled
  <2>1. CASE SyncDump
    BY <2>0, <2>1 DEF SyncDump, Settled
  <2>2. CASE SyncCommit
    <3>1. user'[u] = user[u]
      BY <2>0, <2>2 DEF SyncCommit, InDump
    <3> QED
      BY <2>0, <2>2, <3>1 DEF SyncCommit, Settled
  <2>3. CASE SyncAbort \/ WireGuardPost \/ WriteConfigFails \/ ApplyFails \/ Restart \/ Tick
    <3>1. UNCHANGED <<user, conf, wg>> /\ (dump' = dump \/ dump' = NULL)
      BY <2>3 DEF SyncAbort, WireGuardPost, Request, WriteConfigFails, ApplyFails, Restart, Tick
    <3> QED
      BY <2>0, <3>1 DEF Settled
  <2>4. ASSUME NEW v \in Users,
               UserCreate(v) \/ UserUpdate(v) \/ UserToggle(v) \/ UserDelete(v)
        PROVE  Settled(u)'
    <3>1. UNCHANGED <<conf, wg, dump>>
      BY <2>4 DEF UserCreate, UserUpdate, UserToggle, UserDelete, Request
    <3>2. u # v
      BY <2>0, <2>4 DEF UserCreate
    <3>3. user'[u] = user[u]
      BY <2>4, <3>2 DEF UserCreate, UserUpdate, UserToggle, UserDelete, TypeOK
    <3> QED
      BY <2>0, <3>1, <3>3 DEF Settled
  <2>5. CASE WriteConfig
    <3>1. conf'[u] = NULL
      BY <2>0, <2>5 DEF WriteConfig, Listed
    <3> QED
      BY <2>0, <2>5, <3>1 DEF WriteConfig, Settled
  <2>6. CASE LoadConfig
    <3>1. wg'[u] = NULL
      BY <2>0, <2>6 DEF LoadConfig, Loaded
    <3> QED
      BY <2>0, <2>6, <3>1 DEF LoadConfig, Settled
  <2>7. CASE TakeDown \/ InterfaceLost
    BY <2>0, <2>7 DEF TakeDown, InterfaceLost, NoPeers, Settled
  <2>8. ASSUME NEW v \in Users, NEW d \in Dir, Transfer(v, d)
        PROVE  Settled(u)'
    <3>1. v # u
      BY <2>0, <2>8 DEF Transfer
    <3>2. wg'[u] = wg[u]
      BY <2>8, <3>1 DEF Transfer, TypeOK, Peers
    <3> QED
      BY <2>0, <2>8, <3>2 DEF Transfer, Settled
  <2> QED
    BY <2>1, <2>2, <2>3, <2>4, <2>5, <2>6, <2>7, <2>8 DEF Next, AdminStep, PushStep
<1> QED
  BY <1>1, TypeCorrect, PTL DEF Spec, SettledHolds

-----------------------------------------------------------------------------
(* PeerSync implements Meter. *)

Flowed == [u \in Users |-> carried[u]["rx"] + carried[u]["tx"]]
Metered == [u \in Users |-> Recorded(u, "rx") + Recorded(u, "tx")]
Quota == [u \in Users |-> IF user[u] = NULL THEN NULL ELSE user[u].quota]

MetersTypeOK ==
    /\ Flowed \in [Users -> Nat]
    /\ Metered \in [Users -> Nat]
    /\ Quota \in [Users -> Nat \union {NULL}]

LEMMA MetersTyped == TypeOK => MetersTypeOK
<1> SUFFICES ASSUME TypeOK PROVE MetersTypeOK
  OBVIOUS
<1>1. Flowed \in [Users -> Nat]
  BY DEF Flowed, TypeOK, Counters, Dir
<1>2. \A u \in Users, d \in Dir : Recorded(u, d) \in Nat
  BY AccountTypes DEF Recorded, Row, Counters
<1>3. Metered \in [Users -> Nat]
  BY <1>2 DEF Metered, Dir
<1>4. \A u \in Users : user[u] # NULL => user[u].quota \in Nat \union {NULL}
  BY AccountTypes DEF Row
<1>5. Quota \in [Users -> Nat \union {NULL}]
  BY <1>4 DEF Quota
<1> QED
  BY <1>1, <1>3, <1>5 DEF MetersTypeOK

LEMMA MetersTypedNext == TypeOK' => MetersTypeOK'
  BY MetersTyped, PTL

LEMMA MetersInit == Init => Meters!Init
<1> SUFFICES ASSUME Init PROVE Meters!Init
  OBVIOUS
<1>1. \A u \in Users : user[u] = NULL /\ carried[u] = Zero
  BY DEF Init
<1>2. Flowed = [u \in Users |-> 0]
  BY <1>1 DEF Flowed, Zero, Dir
<1>3. Metered = [u \in Users |-> 0]
  BY <1>1 DEF Metered, Recorded
<1>4. Quota = [u \in Users |-> NULL]
  BY <1>1 DEF Quota
<1> QED
  BY <1>2, <1>3, <1>4 DEF Meters!Init, Flowed, Metered, Quota

\* What a sync adds to the meter of a row it takes from the quota.
LEMMA SyncedRowMeters ==
    ASSUME NEW r \in Row, NEW p \in Peer, now \in Nat
    PROVE  LET s == SyncedRow(r, p)
               before == r.total["rx"] + r.stored["rx"] + r.total["tx"] + r.stored["tx"]
               after == s.total["rx"] + s.stored["rx"] + s.total["tx"] + s.stored["tx"]
           IN  /\ before <= after
               /\ s.quota = Meters!Charge(r.quota, after - before)
<1> DEFINE s == SyncedRow(r, p)
           before == r.total["rx"] + r.stored["rx"] + r.total["tx"] + r.stored["tx"]
           after == s.total["rx"] + s.stored["rx"] + s.total["tx"] + s.stored["tx"]
<1>1. \A d \in Dir : /\ r.total[d] \in Nat /\ r.stored[d] \in Nat /\ p.ctr[d] \in Nat
                     /\ s.stored[d] = p.ctr[d]
                     /\ s.total[d] = NewTotal(r, p)[d]
  BY SyncedRowFields DEF Row, Peer, Counters
<1>2. \A d \in Dir : /\ r.total[d] + r.stored[d] <= s.total[d] + s.stored[d]
                     /\ s.total[d] \in Nat
  <2>1. CASE CounterReset(r, p)
    BY <1>1, <2>1 DEF NewTotal
  <2>2. CASE ~CounterReset(r, p)
    BY <1>1, <2>2 DEF NewTotal, CounterReset
  <2> QED
    BY <2>1, <2>2
<1>3. "rx" \in Dir /\ "tx" \in Dir
  BY DEF Dir
<1>4. UsageInc(r, p) = after - before /\ after - before \in Nat
  <2>1. UsageInc(r, p) = (s.total["rx"] + s.total["tx"] + s.stored["rx"] + s.stored["tx"])
                          - (r.total["rx"] + r.total["tx"] + r.stored["rx"] + r.stored["tx"])
    BY <1>1, <1>3 DEF UsageInc, Usage
  <2> HIDE DEF s
  <2> QED
    BY <1>1, <1>2, <1>3, <2>1
<1>5. s.quota = NewQuota(r, p)
  BY SyncedRowFields
<1>6. r.quota = NULL \/ r.quota \in Nat
  BY DEF Row
<1> HIDE DEF s, before, after
<1>7. s.quota = Meters!Charge(r.quota, after - before)
  BY <1>4, <1>5, <1>6 DEF NewQuota, AtLeast0, Meters!Charge
<1>8. before <= after
  BY <1>1, <1>2, <1>3 DEF before, after
<1> QED
  BY <1>7, <1>8 DEF s, before, after

LEMMA CommitReads ==
    ASSUME TypeOK, TypeOK', NoOvercount', SyncCommit
    PROVE  Meters!Read
<1>1. /\ Flowed \in [Users -> Nat] /\ Flowed' = Flowed
      /\ Metered \in [Users -> Nat] /\ Metered' \in [Users -> Nat]
      /\ Quota \in [Users -> Nat \union {NULL}]
  <2>1. Flowed' = Flowed
    BY DEF SyncCommit, Flowed
  <2> QED
    BY <2>1, MetersTyped, MetersTypedNext DEF MetersTypeOK
<1>2. ASSUME NEW u \in Users
      PROVE  /\ Metered[u] <= Metered'[u]
             /\ Quota'[u] = Meters!Charge(Quota[u], Metered'[u] - Metered[u])
  <2>1. CASE InDump(u)
    <3> DEFINE r == user[u]
               p == dump.peers[u]
               s == SyncedRow(r, p)
    <3>1. r # NULL /\ r \in Row /\ p \in Peer
      BY <2>1, AccountTypes DEF InDump, SyncCommit
    <3>2. user'[u] = s /\ s \in Row
      BY <2>1, <3>1, SyncedRowType DEF SyncCommit, TypeOK
    <3>3. s # NULL
      BY <3>2, NoRowAssumption
    <3>4. /\ s.total["rx"] + s.stored["rx"] + s.total["tx"] + s.stored["tx"] = Metered'[u]
          /\ r.total["rx"] + r.stored["rx"] + r.total["tx"] + r.stored["tx"] = Metered[u]
      <4>1. \A d \in Dir : /\ r.total[d] \in Nat /\ r.stored[d] \in Nat
                           /\ s.total[d] \in Nat /\ s.stored[d] \in Nat
        BY <3>1, <3>2 DEF Row, Counters
      <4>2. "rx" \in Dir /\ "tx" \in Dir
        BY DEF Dir
      <4>3. /\ Metered'[u] = (s.total["rx"] + s.stored["rx"]) + (s.total["tx"] + s.stored["tx"])
            /\ Metered[u] = (r.total["rx"] + r.stored["rx"]) + (r.total["tx"] + r.stored["tx"])
        BY <3>1, <3>2, <3>3 DEF Metered, Recorded
      <4> HIDE DEF s, r
      <4> QED
        BY <4>1, <4>2, <4>3
    <3>5. Quota'[u] = s.quota /\ Quota[u] = r.quota
      BY <3>1, <3>2, <3>3 DEF Quota
    <3> QED
      BY <3>1, <3>4, <3>5, SyncedRowMeters DEF TypeOK
  <2>2. CASE ~InDump(u)
    <3>1. user'[u] = user[u]
      BY <2>2 DEF SyncCommit
    <3>2. Metered'[u] = Metered[u] /\ Quota'[u] = Quota[u]
      BY <3>1 DEF Metered, Recorded, Quota
    <3>3. Metered[u] \in Nat /\ (Quota[u] = NULL \/ Quota[u] \in Nat)
      BY <1>1
    <3> HIDE DEF Metered, Quota
    <3> QED
      BY <3>2, <3>3 DEF Meters!Charge
  <2> QED
    BY <2>1, <2>2
<1>3. \A u \in Users : Metered'[u] <= Flowed[u]
  <2> SUFFICES ASSUME NEW u \in Users PROVE Metered'[u] <= Flowed[u]
    OBVIOUS
  <2>1. Recorded(u, "rx")' <= carried[u]["rx"] /\ Recorded(u, "tx")' <= carried[u]["tx"]
    BY DEF NoOvercount, Dir, SyncCommit
  <2>2. /\ Recorded(u, "rx")' \in Nat /\ Recorded(u, "tx")' \in Nat
        /\ carried[u]["rx"] \in Nat /\ carried[u]["tx"] \in Nat
    BY DEF TypeOK, Recorded, Row, Counters, Dir
  <2> QED
    BY <2>1, <2>2 DEF Metered, Flowed
<1>4. Quota' = [u \in Users |-> Meters!Charge(Quota[u], Metered'[u] - Metered[u])]
  BY <1>2 DEF Quota
<1> QED
  BY <1>1, <1>2, <1>3, <1>4 DEF Meters!Read, Flowed, Metered, Quota

LEMMA NextMeters ==
    TypeOK /\ TypeOK' /\ NoOvercount' /\ [Next]_vars => [Meters!Next]_(Meters!vars)
<1> SUFFICES ASSUME TypeOK, TypeOK', NoOvercount', Next
             PROVE  Meters!Next \/ UNCHANGED <<Flowed, Metered, Quota>>
  BY DEF vars, Meters!vars, Flowed, Metered, Quota, Recorded
<1>1. /\ Flowed \in [Users -> Nat] /\ Flowed' \in [Users -> Nat]
      /\ Quota \in [Users -> Nat \union {NULL}]
      /\ Quota' \in [Users -> Nat \union {NULL}]
  BY MetersTyped, MetersTypedNext DEF MetersTypeOK
<1>2. CASE SyncCommit
  BY <1>2, CommitReads DEF Meters!Next
<1>3. ASSUME UNCHANGED <<user, carried>>
      PROVE  UNCHANGED <<Flowed, Metered, Quota>>
  BY <1>3 DEF Flowed, Metered, Quota, Recorded
<1>4. CASE SyncDump \/ SyncAbort \/ WireGuardPost \/ PushStep \/ InterfaceLost \/ Restart \/ Tick
  <2>1. UNCHANGED <<user, carried>>
    BY <1>4 DEF SyncDump, SyncAbort, WireGuardPost, Request, PushStep, WriteConfig,
       WriteConfigFails, LoadConfig, TakeDown, ApplyFails, InterfaceLost, Restart, Tick
  <2> QED
    BY <1>3, <2>1
<1>5. ASSUME NEW u \in Users,
             UserCreate(u) \/ UserUpdate(u) \/ UserToggle(u) \/ UserDelete(u)
      PROVE  Meters!Next
  <2>1. Flowed' = Flowed
    BY <1>5 DEF UserCreate, UserUpdate, UserToggle, UserDelete, Request, Flowed
  <2>2. \A v \in Users \ {u} : user'[v] = user[v]
    BY <1>5 DEF UserCreate, UserUpdate, UserToggle, UserDelete, TypeOK
  <2>3. \A v \in Users \ {u} : Metered'[v] = Metered[v] /\ Quota'[v] = Quota[v]
    BY <2>2 DEF Metered, Recorded, Quota
  <2>4. CASE UserDelete(u)
    <3>1. user'[u] = NULL
      BY <2>4 DEF UserDelete, TypeOK
    <3>2. Metered'[u] = 0 /\ Quota'[u] = NULL
      BY <3>1 DEF Metered, Recorded, Quota
    <3>3. Metered' = [Metered EXCEPT ![u] = 0] /\ Quota' = [Quota EXCEPT ![u] = NULL]
      BY <2>3, <3>2 DEF Metered, Quota
    <3> QED
      BY <2>1, <3>3 DEF Meters!Next, Meters!Close, Flowed, Metered, Quota
  <2>5. CASE UserCreate(u) \/ UserUpdate(u) \/ UserToggle(u)
    <3>1. \A d \in Dir : Recorded(u, d)' = Recorded(u, d)
      <4>1. CASE UserCreate(u)
        <5>1. user[u] = NULL /\ user'[u].total = Zero /\ user'[u].stored = Zero
          BY <4>1 DEF UserCreate, TypeOK
        <5> QED
          BY <5>1 DEF Recorded, Zero
      <4>2. CASE UserUpdate(u) \/ UserToggle(u)
        <5>1. user'[u] # NULL
          BY <4>2, EditedRow, NoRowAssumption
        <5> QED
          BY <4>2, <5>1, EditedRow DEF Recorded
      <4> QED
        BY <2>5, <4>1, <4>2
    <3>2. Metered'[u] = Metered[u]
      BY <3>1 DEF Metered, Dir
    <3>3. Metered' = Metered
      BY <2>3, <3>2 DEF Metered
    <3> QED
      BY <1>1, <2>1, <2>3, <3>3 DEF Meters!Next, Meters!Grant, Meters!OnlyAt, Flowed, Metered, Quota
  <2> QED
    BY <1>5, <2>4, <2>5
<1>6. ASSUME NEW u \in Users, NEW d \in Dir, Transfer(u, d)
      PROVE  Meters!Next
  <2>1. Metered' = Metered /\ Quota' = Quota
    BY <1>6 DEF Transfer, Metered, Quota, Recorded
  <2>2. \A v \in Users \ {u} : Flowed'[v] = Flowed[v]
    BY <1>6 DEF Transfer, Flowed, TypeOK
  <2>3. \A e \in Dir : carried[u][e] \in Nat /\ carried[u][e] <= carried'[u][e] /\ carried'[u][e] \in Nat
    BY <1>6, AccountTypes DEF Transfer, TypeOK, Counters
  <2>4. Flowed[u] <= Flowed'[u]
    BY <2>3 DEF Flowed, Dir
  <2> QED
    BY <1>1, <2>1, <2>2, <2>4 DEF Meters!Next, Meters!Flow, Meters!OnlyAt, Flowed, Metered, Quota
<1> QED
  BY <1>2, <1>4, <1>5, <1>6 DEF Next, AdminStep

\* The syncer implements the metering promised by Meter: MeterSpec.
THEOREM ImplementsMeter == Spec => MeterSpec
<1>1. Inv' => NoOvercount'
  BY AccountedIsCarried, PTL
<1>2. Inv /\ Inv' /\ [Next]_vars => [Meters!Next]_(Meters!vars)
  BY <1>1, NextMeters DEF Inv
<1> QED
  BY <1>2, MetersInit, Invariant, PTL DEF Spec, MeterSpec, Meters!Spec

-----------------------------------------------------------------------------
(* Renewals. *)

\* Whoever watches the renewals watches PeerSync.
LEMMA RenewalIsPeerSync == RenewalSpec => Spec
<1>1. RenewalInit => Init
  BY DEF RenewalInit
<1>2. [RenewalNext]_renewalVars => [Next]_vars
  BY DEF RenewalNext, Renew, renewalVars, vars, Next, AdminStep
<1> QED
  BY <1>1, <1>2, PTL DEF RenewalSpec, Spec

\* What RenewalInv says of one account.
Renewed(row, paid, away, hour) ==
    row # NULL /\ row.days # NULL =>
        /\ paid # NULL
        /\ paid <= away + 24 * row.days + (IF row.lastCheck = NULL THEN hour ELSE row.lastCheck)

\* A check takes no more days than have passed since the last one.
LEMMA SyncKeepsRenewed ==
    ASSUME NEW r \in Row, NEW p \in Peer, now \in Nat, NEW paid \in Nat \union {NULL},
           NEW away \in Nat, Renewed(r, paid, away, now),
           r.lastCheck # NULL => r.lastCheck <= now
    PROVE  Renewed(SyncedRow(r, p), paid, away, now)
<1>1. SyncedRow(r, p).days = NewDays(r) /\ SyncedRow(r, p).lastCheck = NewLastCheck(r)
  BY SyncedRowFields
<1>2. SyncedRow(r, p) # NULL /\ r # NULL
  BY SyncedRowType, NoRowAssumption
<1>3. CASE ~DaysRunning(r)
  BY <1>1, <1>2, <1>3 DEF NewDays, NewLastCheck, Renewed
<1>4. CASE DaysRunning(r) /\ r.lastCheck = NULL
  <2>1. NewDays(r) = r.days /\ NewLastCheck(r) = now /\ now # NULL
    BY <1>4, ConstantsAssumption DEF NewDays, NewLastCheck
  <2> QED
    BY <1>1, <1>2, <1>4, <2>1 DEF Renewed
<1>5. CASE DaysRunning(r) /\ r.lastCheck # NULL
  <2>1. /\ r.days \in Nat /\ r.days # 0 /\ r.days # NULL
        /\ r.lastCheck \in Nat /\ r.lastCheck <= now
    BY <1>5 DEF DaysRunning, Row
  <2>2. paid # NULL /\ paid \in Nat /\ paid <= away + 24 * r.days + r.lastCheck
    BY <1>2, <1>5, <2>1 DEF Renewed
  <2> DEFINE n == DaysSince(r.lastCheck)
  <2>3. n \in Nat /\ 24 * n <= now - r.lastCheck
    BY <2>1 DEF DaysSince
  <2>4. NewDays(r) = AtLeast0(r.days - n)
    BY <1>5 DEF NewDays
  <2>5. NewDays(r) \in Nat /\ NewDays(r) >= r.days - n
    BY <2>1, <2>3, <2>4 DEF AtLeast0
  <2>6. /\ NewLastCheck(r) \in Nat
        /\ n >= 1 => NewLastCheck(r) = now
        /\ n = 0 => NewLastCheck(r) = r.lastCheck
    BY <1>5, <2>1, <2>3 DEF NewLastCheck
  <2>7. NewLastCheck(r) >= r.lastCheck + 24 * n
    <3> HIDE DEF n
    <3> QED
      BY <2>1, <2>3, <2>6
  <2> HIDE DEF n
  <2>8. paid <= away + 24 * NewDays(r) + NewLastCheck(r)
    BY <2>1, <2>2, <2>3, <2>5, <2>6, <2>7
  <2>9. NewLastCheck(r) # NULL /\ NewDays(r) # NULL
    BY <2>5, <2>6, ConstantsAssumption
  <2> QED
    BY <1>1, <1>2, <2>2, <2>8, <2>9 DEF Renewed
<1> QED
  BY <1>3, <1>4, <1>5

\* A row that has just been entered has a pair of dates to count from.
LEMMA RenewedAnew ==
    ASSUME NEW r \in Row, now \in Nat, r.lastCheck # NULL => r.lastCheck <= now
    PROVE  /\ PaidUntil(r.days) \in Nat \union {NULL} /\ SinceCheck(r.lastCheck) \in Nat
           /\ Renewed(r, PaidUntil(r.days), SinceCheck(r.lastCheck), now)
<1>1. r.days \in Nat \union {NULL} /\ r.lastCheck \in Nat \union {NULL}
  BY DEF Row
<1>2. PaidUntil(r.days) \in Nat \union {NULL} /\ SinceCheck(r.lastCheck) \in Nat
  BY <1>1 DEF PaidUntil, SinceCheck
<1>3. ASSUME r.days # NULL
      PROVE  /\ PaidUntil(r.days) \in Nat
             /\ PaidUntil(r.days) <= SinceCheck(r.lastCheck) + 24 * r.days
                                       + (IF r.lastCheck = NULL THEN now ELSE r.lastCheck)
  BY <1>1, <1>3 DEF PaidUntil, SinceCheck
<1> QED
  BY <1>2, <1>3, ConstantsAssumption DEF Renewed

LEMMA RenewalStep ==
    Inv /\ RenewalInv /\ [RenewalNext]_renewalVars => RenewalInv'
<1> SUFFICES ASSUME Inv, RenewalInv, [RenewalNext]_renewalVars
             PROVE  /\ paidUntil' \in [Users -> Nat \union {NULL}]
                    /\ unseen' \in [Users -> Nat]
                    /\ \A u \in Users : Renewed(user'[u], paidUntil'[u], unseen'[u], now')
  BY DEF RenewalInv, Renewed
<1>0. /\ user \in [Users -> Row \union {NULL}] /\ now \in Nat
      /\ paidUntil \in [Users -> Nat \union {NULL}] /\ unseen \in [Users -> Nat]
      /\ \A u \in Users :
            /\ Renewed(user[u], paidUntil[u], unseen[u], now)
            /\ user[u] # NULL /\ user[u].lastCheck # NULL => user[u].lastCheck <= now
  BY DEF Inv, TypeOK, DaysInv, RenewalInv, Renewed
<1> DEFINE Goal == /\ paidUntil' \in [Users -> Nat \union {NULL}]
                   /\ unseen' \in [Users -> Nat]
                   /\ \A u \in Users : Renewed(user'[u], paidUntil'[u], unseen'[u], now')
<1>1. ASSUME NEW u \in Users, Renew(u) PROVE Goal
  <2>1. /\ paidUntil' = [paidUntil EXCEPT ![u] = PaidUntil(user'[u].days)]
        /\ unseen' = [unseen EXCEPT ![u] = SinceCheck(user'[u].lastCheck)]
        /\ UserCreate(u) \/ UserUpdate(u)
    BY <1>1 DEF Renew
  <2>2. /\ user'[u] \in Row /\ \A v \in Users \ {u} : user'[v] = user[v]
        /\ user'[u].lastCheck # NULL => user'[u].lastCheck <= now
        /\ now' = now
    <3>1. CASE UserUpdate(u)
      BY <1>0, <3>1, EditedRow DEF Inv, UserUpdate, Request
    <3>2. CASE UserCreate(u)
      <4>1. PICK k \in KeyPairs, e \in BOOLEAN, n \in Days \union {NULL}, q \in Quotas \union {NULL} :
              user' = [user EXCEPT ![u] =
                          [key |-> k, enabled |-> e, stored |-> Zero, total |-> Zero,
                           days |-> n, quota |-> q, lastCheck |-> NULL]]
        BY <3>2 DEF UserCreate
      <4>2. Zero \in Counters
        BY DEF Zero, Counters
      <4> QED
        BY <1>0, <3>2, <4>1, <4>2, ConstantsAssumption DEF Row, UserCreate, Request
    <3> QED
      BY <2>1, <3>1, <3>2
  <2>3. /\ PaidUntil(user'[u].days) \in Nat \union {NULL} /\ SinceCheck(user'[u].lastCheck) \in Nat
        /\ Renewed(user'[u], PaidUntil(user'[u].days), SinceCheck(user'[u].lastCheck), now)
    BY <1>0, <2>2, RenewedAnew
  <2> QED
    BY <1>0, <2>1, <2>2, <2>3
<1>2. ASSUME NEW u \in Users, UserToggle(u) \/ UserDelete(u), UNCHANGED <<paidUntil, unseen>>
      PROVE  Goal
  <2>1. /\ \A v \in Users \ {u} : user'[v] = user[v]
        /\ now' = now
    BY <1>0, <1>2 DEF UserToggle, UserDelete, Request
  <2>2. Renewed(user'[u], paidUntil[u], unseen[u], now)
    <3>1. CASE UserToggle(u)
      <4>1. user'[u].days = user[u].days /\ user'[u].lastCheck = user[u].lastCheck /\ user[u] # NULL
        BY <1>0, <3>1 DEF UserToggle, Row
      <4> QED
        BY <1>0, <4>1 DEF Renewed
    <3>2. CASE UserDelete(u)
      BY <1>0, <3>2 DEF UserDelete, Renewed
    <3> QED
      BY <1>2, <3>1, <3>2
  <2> QED
    BY <1>0, <1>2, <2>1, <2>2
<1>3. CASE SyncCommit /\ UNCHANGED <<paidUntil, unseen>>
  <2>1. now' = now
    BY <1>3 DEF SyncCommit
  <2>2. ASSUME NEW u \in Users PROVE Renewed(user'[u], paidUntil[u], unseen[u], now)
    <3>1. CASE ~InDump(u)
      BY <1>0, <1>3, <3>1 DEF SyncCommit
    <3>2. CASE InDump(u)
      <4>1. user[u] \in Row /\ dump.peers[u] \in Peer
        BY <1>0, <1>3, <3>2 DEF InDump, SyncCommit, Inv, TypeOK, Dump, Peers
      <4>2. user'[u] = SyncedRow(user[u], dump.peers[u])
        BY <1>3, <3>2 DEF SyncCommit
      <4>3. /\ paidUntil[u] \in Nat \union {NULL} /\ unseen[u] \in Nat
            /\ Renewed(user[u], paidUntil[u], unseen[u], now)
            /\ user[u].lastCheck # NULL => user[u].lastCheck <= now
        BY <1>0, <3>2 DEF InDump
      <4> QED
        BY <1>0, <4>1, <4>2, <4>3, SyncKeepsRenewed
    <3> QED
      BY <3>1, <3>2
  <2> QED
    BY <1>0, <1>3, <2>1, <2>2
<1>4. CASE Tick /\ UNCHANGED <<paidUntil, unseen>>
  <2>1. user' = user /\ now' \in Nat /\ now <= now'
    BY <1>0, <1>4, ConstantsAssumption DEF Tick
  <2>2. ASSUME NEW u \in Users PROVE Renewed(user[u], paidUntil[u], unseen[u], now')
    <3> SUFFICES ASSUME user[u] # NULL, user[u].days # NULL
                 PROVE  /\ paidUntil[u] # NULL
                        /\ paidUntil[u] <= unseen[u] + 24 * user[u].days
                              + (IF user[u].lastCheck = NULL THEN now' ELSE user[u].lastCheck)
      BY DEF Renewed
    <3>1. /\ user[u].days \in Nat /\ user[u].lastCheck \in Nat \union {NULL}
          /\ paidUntil[u] \in Nat \union {NULL} /\ unseen[u] \in Nat
      BY <1>0 DEF Row
    <3>2. /\ paidUntil[u] # NULL
          /\ paidUntil[u] <= unseen[u] + 24 * user[u].days
                + (IF user[u].lastCheck = NULL THEN now ELSE user[u].lastCheck)
      BY <1>0 DEF Renewed
    <3> QED
      BY <1>0, <2>1, <3>1, <3>2
  <2> QED
    BY <1>0, <1>4, <2>1, <2>2
<1>5. CASE UNCHANGED <<user, now, paidUntil, unseen>>
  BY <1>0, <1>5
<1>6. CASE /\ \/ SyncDump \/ SyncAbort \/ WireGuardPost \/ PushStep
              \/ \E u \in Users, d \in Dir : Transfer(u, d)
              \/ InterfaceLost \/ Restart
           /\ UNCHANGED <<paidUntil, unseen>>
  <2>1. UNCHANGED <<user, now>>
    BY <1>6 DEF SyncDump, SyncAbort, WireGuardPost, Request, PushStep, WriteConfig,
       WriteConfigFails, LoadConfig, TakeDown, ApplyFails, Transfer, InterfaceLost, Restart
  <2> QED
    BY <1>0, <2>1, <1>5, <1>6
<1> QED
  BY <1>1, <1>2, <1>3, <1>4, <1>5, <1>6 DEF RenewalNext, renewalVars, vars

\* A renewal loses no more hours than had passed since the last check.
THEOREM RenewalsLoseNoMore == RenewalSpec => []RenewalLosesUnseen
<1>1. RenewalInit => RenewalInv
  BY DEF RenewalInit, RenewalInv, Init
<1>2. Inv /\ RenewalInv => RenewalLosesUnseen
  <2> SUFFICES ASSUME Inv, RenewalInv, NEW u \in Users,
                      user[u] # NULL, paidUntil[u] # NULL, user[u].days = 0
               PROVE  now + unseen[u] >= paidUntil[u]
    BY DEF RenewalLosesUnseen
  <2>1. /\ now \in Nat /\ unseen[u] \in Nat /\ paidUntil[u] \in Nat
        /\ user[u].lastCheck \in Nat \union {NULL}
        /\ user[u].lastCheck # NULL => user[u].lastCheck <= now
    BY DEF Inv, TypeOK, Row, DaysInv, RenewalInv
  <2>2. user[u].days # NULL
    BY ConstantsAssumption
  <2>3. paidUntil[u] <= unseen[u] + 24 * user[u].days
                         + (IF user[u].lastCheck = NULL THEN now ELSE user[u].lastCheck)
    BY <2>2 DEF RenewalInv
  <2> QED
    BY <2>1, <2>3
<1> QED
  BY <1>1, <1>2, RenewalIsPeerSync, Invariant, RenewalStep, PTL DEF RenewalSpec
=============================================================================
