-------------------------- MODULE PcqLimitsProofs ---------------------------
(***************************************************************************)
(* The merge of the limits is right for every set of rows in every order.  *)
(***************************************************************************)
EXTENDS PcqLimits, TLAPS

LEMMA ClassifyType ==
    ASSUME NEW r \in Row
    PROVE  Classify(r) \in PeerLimit
<1>1. ASSUME NEW f \in Fields PROVE NzLimit(r.cap[f]) \in Nat
  <2>1. r.cap[f] \in Int \union {NULL}
    BY ColumnsAssumption DEF Row
  <2> QED
    BY <2>1 DEF NzLimit
<1> QED
  BY <1>1 DEF Classify, PeerLimit

LEMMA MergeMinType ==
    ASSUME NEW cur \in Nat, NEW add \in Nat
    PROVE  MergeMin(cur, add) \in Nat
  BY DEF MergeMin

\* n is what a field holds when S is the set of the limits set so far.
Holds(n, S) == IF S = {} THEN n = 0 ELSE IsLeast(n, S)

LEMMA MergeMinHolds ==
    ASSUME NEW S, S \subseteq Nat \ {0}, NEW cur \in Nat, Holds(cur, S), NEW add \in Nat
    PROVE  Holds(MergeMin(cur, add), (S \union {add}) \ {0})
<1>1. CASE add = 0
  <2>1. (S \union {add}) \ {0} = S
    BY <1>1
  <2> QED
    BY <1>1, <2>1 DEF MergeMin
<1>2. CASE add # 0
  <2>1. (S \union {add}) \ {0} = S \union {add}
    BY <1>2
  <2>2. CASE S = {}
    BY <1>2, <2>1, <2>2 DEF Holds, IsLeast, MergeMin
  <2>3. CASE S # {}
    <3>1. cur \in S /\ cur > 0 /\ \A m \in S : cur <= m
      <4>1. IsLeast(cur, S)
        BY <2>3 DEF Holds
      <4>2. cur \in S
        BY <4>1 DEF IsLeast
      <4> QED
        BY <4>1, <4>2 DEF IsLeast
    <3>2. MergeMin(cur, add) = IF add < cur THEN add ELSE cur
      BY <1>2, <3>1 DEF MergeMin
    <3>3. IsLeast(MergeMin(cur, add), S \union {add})
      <4>1. \A m \in S : m \in Nat /\ cur <= m
        BY <3>1
      <4> QED
        BY <3>1, <3>2, <4>1 DEF IsLeast
    <3> QED
      BY <2>1, <3>3 DEF Holds
  <2> QED
    BY <2>2, <2>3
<1> QED
  BY <1>1, <1>2

LEMMA InitInv == Init => TypeOK /\ MinimumWins
<1> SUFFICES ASSUME Init PROVE TypeOK /\ MinimumWins
  OBVIOUS
<1>1. \A ip \in Ips : Of(ip) = {} /\ out[ip] = NULL
  BY DEF Init, Of
<1> QED
  BY <1>1 DEF Init, TypeOK, MinimumWins

LEMMA MergeType == ASSUME TypeOK, NEW r \in Row, ~Skipped(r) PROVE Merge(r) \in PeerLimit
<1>1. r.ip \in Ips
  BY DEF Skipped, Row
<1>2. Entry(r.ip) \in PeerLimit
  BY <1>1 DEF Entry, TypeOK, PeerLimit
<1> QED
  BY <1>2, ClassifyType, MergeMinType DEF Merge, PeerLimit

LEMMA ScanType == ASSUME TypeOK, NEW r \in Row, Scan(r) PROVE TypeOK'
<1>1. CASE Skipped(r)
  BY <1>1 DEF Scan, TypeOK
<1>2. CASE ~Skipped(r)
  <2>1. r.ip \in Ips
    BY <1>2 DEF Skipped, Row
  <2> QED
    BY <1>2, <2>1, MergeType DEF Scan, TypeOK
<1> QED
  BY <1>1, <1>2

LEMMA ScanMinimum ==
    ASSUME TypeOK, MinimumWins, NEW r \in Row, Scan(r), NEW ip \in Ips
    PROVE  IF Of(ip)' = {} THEN out'[ip] = NULL
           ELSE /\ out'[ip] # NULL
                /\ \A f \in Fields : Holds(out'[ip][f], Caps(ip, f)')
<1>1. CASE Skipped(r) \/ r.ip # ip
  <2>1. Of(ip)' = Of(ip)
    BY <1>1 DEF Of, Scan
  <2>2. out'[ip] = out[ip]
    BY <1>1 DEF Scan, TypeOK
  <2>3. \A f \in Fields : Caps(ip, f)' = Caps(ip, f)
    BY <2>1 DEF Caps
  <2> QED
    BY <2>1, <2>2, <2>3 DEF MinimumWins, Holds
<1>2. CASE ~Skipped(r) /\ r.ip = ip
  <2>1. Of(ip)' = Of(ip) \union {r}
    BY <1>2 DEF Of, Scan
  <2>2. out'[ip] = Merge(r)
    BY <1>2 DEF Scan, TypeOK
  <2>3. Merge(r) \in PeerLimit
    BY <1>2, MergeType
  <2>4. ASSUME NEW f \in Fields PROVE Holds(Merge(r)[f], Caps(ip, f)')
    <3>1. Caps(ip, f) \subseteq Nat \ {0}
      BY ClassifyType DEF Caps, Of, TypeOK, PeerLimit
    <3>2. Caps(ip, f)' = (Caps(ip, f) \union {Classify(r)[f]}) \ {0}
      BY <2>1 DEF Caps
    <3>3. Entry(ip)[f] \in Nat /\ Holds(Entry(ip)[f], Caps(ip, f))
      <4>1. CASE out[ip] = NULL
        <5>1. Of(ip) = {}
          BY <4>1 DEF MinimumWins
        <5> QED
          BY <4>1, <5>1 DEF Entry, Holds, Caps
      <4>2. CASE out[ip] # NULL
        BY <4>2 DEF Entry, Holds, MinimumWins, TypeOK, PeerLimit
      <4> QED
        BY <4>1, <4>2
    <3>4. Classify(r)[f] \in Nat
      BY ClassifyType DEF PeerLimit
    <3>5. Merge(r)[f] = MergeMin(Entry(ip)[f], Classify(r)[f])
      BY <1>2 DEF Merge
    <3> QED
      BY <3>1, <3>2, <3>3, <3>4, <3>5, MergeMinHolds
  <2> QED
    BY <2>1, <2>2, <2>3, <2>4, NoLimitAssumption
<1> QED
  BY <1>1, <1>2

\* For any addresses, columns and number of rows, in every order of the scan,
\* the minimum wins (load.go:35-94).
THEOREM MinimumAlwaysWins == Spec => []MinimumWins
<1>1. TypeOK /\ MinimumWins /\ [Next]_vars => (TypeOK /\ MinimumWins)'
  <2> SUFFICES ASSUME TypeOK, MinimumWins, [Next]_vars
               PROVE  (TypeOK /\ MinimumWins)'
    OBVIOUS
  <2>1. CASE Next
    <3>1. PICK r \in Row : Scan(r)
      BY <2>1 DEF Next
    <3>2. MinimumWins'
      BY <3>1, ScanMinimum DEF MinimumWins, Holds
    <3> QED
      BY <3>1, <3>2, ScanType
  <2>2. CASE UNCHANGED vars
    BY <2>2 DEF vars, TypeOK, MinimumWins, Of, Caps
  <2> QED
    BY <2>1, <2>2
<1> QED
  BY <1>1, InitInv, PTL DEF Spec
=============================================================================
