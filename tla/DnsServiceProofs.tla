-------------------------- MODULE DnsServiceProofs ---------------------------
(***************************************************************************)
(* Proofs about DnsService: the files that are made of any rows give the   *)
(* answers the rows want wherever no zone is in the way, and the manager   *)
(* runs CoreDNS on the files of the rows that are there.                   *)
(***************************************************************************)
EXTENDS DnsService, DnsManagerProofs

\* A name lies in itself, in its parent, and in all that its parent lies in.
LEMMA AboveParent ==
    ASSUME NEW n \in Names
    PROVE  /\ n \in Above[n] /\ Parent[n] \in Above[n]
           /\ \A m \in Above[n] : m = n \/ m \in Above[Parent[n]]
<1> USE TreeAssumption
<1>1. Parent[n] \in Names
  OBVIOUS
<1>2. n \in Above[n] /\ Parent[n] \in Above[n]
  BY <1>1 DEF Above
<1>3. ASSUME NEW m \in Above[n], m # n PROVE m \in Above[Parent[n]]
  <2> SUFFICES ASSUME NEW S \in SUBSET Names, Parent[n] \in S,
                      \A x \in S : Parent[x] \in S
               PROVE  m \in S
    BY <1>1, <1>3 DEF Above
  <2>1. n \in S \union {n} /\ \A x \in S \union {n} : Parent[x] \in S \union {n}
    OBVIOUS
  <2>2. S \union {n} \in SUBSET Names /\ \A T \in SUBSET Names :
            n \in T /\ (\A x \in T : Parent[x] \in T) => m \in T
    BY <1>3 DEF Above
  <2>3. m \in S \union {n}
    BY <2>1, <2>2
  <2> QED
    BY <1>3, <2>3
<1> QED
  BY <1>2, <1>3

\* CollectBlockedDomains blocks what the lists and rules forbid.
LEMMA BlockedIsForbidden ==
    ASSUME NEW rows \in SUBSET Content, NEW n \in Names
    PROVE  n \in Blocked(rows) <=> Forbidden(rows, n)
BY DEF Blocked, Forbidden, Ruled, Enabled

\* Every enabled rewrite is in exactly one of the files.
LEMMA OneFile ==
    ASSUME NEW rows \in SUBSET Content, NEW n \in Names
    PROVE  /\ \A r \in Overrides(rows, n) :
                r \in HostLines(rows) <=> r \notin ZoneRecords(rows)
           /\ \A r \in HostLines(rows) \union ZoneRecords(rows) :
                r.name = n => r \in Overrides(rows, n)
BY DEF Overrides, HostLines, ZoneRecords, Enabled

\* The files answer what the rows want, where no zone is in the way.
THEOREM AnswersAsWanted ==
    ASSUME NEW rows \in SUBSET Content, NEW q \in Query, InReach(rows, q)
    PROVE  Answer(rows, q) = Wanted(rows, q)
<1> DEFINE n == q.name
<1>1. n \in Names /\ q.type \in Types
  BY DEF Query
<1>2. n \in Blocked(rows) <=> Forbidden(rows, n)
  BY <1>1, BlockedIsForbidden
<1>3. CASE Zones(rows) \intersect Above[n] = {}
  <2>1. Block(rows, n) = {}
    BY <1>3 DEF Block
  <2>2. \A r \in ZoneRecords(rows) : r.name # n
    BY <1>1, <1>3, AboveParent DEF Zones
  <2>3. Overrides(rows, n) = {r \in HostLines(rows) : r.name = n}
    <3>1. \A r \in Overrides(rows, n) : r \in HostLines(rows) /\ r.name = n
      <4>1. \A r \in Overrides(rows, n) : r.name = n
        BY DEF Overrides
      <4> QED
        BY <1>1, <2>2, <4>1, OneFile
    <3>2. \A r \in HostLines(rows) : r.name = n => r \in Overrides(rows, n)
      BY <1>1, OneFile
    <3> QED
      BY <3>1, <3>2
  <2>4. Valued(HostLines(rows), q) = {r.value : r \in {s \in Overrides(rows, n) : s.type = q.type}}
    BY <2>3 DEF Valued
  <2>5. Named(HostLines(rows), n) <=> Overrides(rows, n) # {}
    BY <2>3 DEF Named
  <2> QED
    BY <1>2, <2>1, <2>4, <2>5 DEF Answer, RootAnswer, Wanted
<1>4. CASE /\ q.type = "other" /\ ~Forbidden(rows, n)
           /\ \E r \in Overrides(rows, n) : r.type = "other"
           /\ n \in Zones(rows) => n = Parent[n]
  <2> DEFINE z == Parent[n]
  <2>1. PICK o \in Overrides(rows, n) : o.type = "other"
    BY <1>4
  <2>2. o \in ZoneRecords(rows) /\ o.name = n
    BY <2>1 DEF Overrides, ZoneRecords, HostLines, Enabled, AddressTypes
  <2>3. z \in Zones(rows) \intersect Above[n]
    BY <1>1, <2>2, AboveParent DEF Zones
  <2>4. \A y \in Zones(rows) \intersect Above[n] : y \in Above[z]
    BY <1>1, <1>4, AboveParent
  <2>5. \A y \in Block(rows, n) : y = z
    <3> SUFFICES ASSUME NEW y \in Block(rows, n) PROVE y = z
      OBVIOUS
    <3>1. z \in Above[y] /\ y \in Above[z]
      BY <2>3, <2>4 DEF Block
    <3>2. y \in Names /\ z \in Names
      BY <1>1, TreeAssumption DEF Block, Above
    <3> QED
      BY <3>1, <3>2, TreeAssumption
  <2>6. Block(rows, n) = {z}
    BY <2>3, <2>4, <2>5 DEF Block
  <2>7. Answer(rows, q) = ZoneAnswer(rows, z, q)
    BY <2>6 DEF Answer
  <2>8. \A r \in rows :
          r \in ZoneRecords(rows) /\ r.name = n /\ r.type = q.type
            <=> r \in Overrides(rows, n) /\ r.type = q.type
    BY <1>4 DEF Overrides, ZoneRecords, HostLines, Enabled, AddressTypes
  <2>9. ZoneAnswer(rows, z, q) = {r.value : r \in {s \in Overrides(rows, n) : s.type = q.type}}
    <3>1. {s \in {r \in ZoneRecords(rows) : Parent[r.name] = z} : s.name = n /\ s.type = q.type}
            = {s \in Overrides(rows, n) : s.type = q.type}
      BY <2>8 DEF Overrides, ZoneRecords, Enabled
    <3> QED
      BY <3>1 DEF ZoneAnswer, Valued
  <2> QED
    BY <1>4, <2>1, <2>7, <2>9 DEF Wanted
<1> QED
  BY <1>3, <1>4 DEF InReach

\* Clients are answered what the rows of the database say, for any tree of domains,
\* any rows and any number of requests.
THEOREM ClientsAreAnswered == Spec => []AnswersFollowRows
<1>1. TypeOK /\ InSync => AnswersFollowRows
  <2> SUFFICES ASSUME TypeOK, InSync, Quiet, missed = {}, row.on
               PROVE  <<serves[cmd].recs, records>> \in Faithful
    BY DEF AnswersFollowRows
  <2>1. serves[cmd].recs = records
    BY DEF InSync, Matches
  <2>2. records \in SUBSET Records
    BY DEF TypeOK
  <2>3. ASSUME NEW text \in [Records -> Content], NEW q \in Query,
               InReach(Rows(text, records), q)
        PROVE  Answer(Rows(text, records), q) = Wanted(Rows(text, records), q)
    <3>1. Rows(text, records) \in SUBSET Content
      BY <2>2 DEF Rows
    <3> QED
      BY <2>3, <3>1, AnswersAsWanted
  <2> QED
    BY <2>1, <2>2, <2>3 DEF Faithful
<1> QED
  BY <1>1, TypeCorrect, ChildFollowsDatabase, PTL
=============================================================================
