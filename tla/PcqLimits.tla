----------------------------- MODULE PcqLimits ------------------------------
(***************************************************************************)
(* How LoadPeerLimits merges the presets of all groups into one limit per  *)
(* tunnel address: it scans the joined rows in whatever order SQLite gives *)
(* them and keeps, field by field, the least positive value so far.  Zero  *)
(* stands for "no limit" in the code, so the merge has to tell it from a   *)
(* low one.                                                                *)
(***************************************************************************)
EXTENDS Integers, FiniteSets

CONSTANTS
    Ips,        \* tunnel IPv4 addresses of the peers
    Columns,    \* numbers a limit column may hold; a restore may store any
    MaxRows,    \* bound: different rows of one result
    NULL        \* SQL NULL; no tunnel address; no entry

ASSUME ColumnsAssumption == Columns \subseteq Int /\ NULL \notin Int /\ NULL \notin Ips

Fields == {"download", "upload", "burstDownload", "burstUpload"}
Classifiers == {"dst-download", "src-upload", "dual"}

\* A row of the join; ip is what TunnelIPv4 makes of allowed_ips.
Row == [ip : Ips \union {NULL}, cap : [Fields -> Columns \union {NULL}], clf : Classifiers]

PeerLimit == [Fields -> Nat]

ASSUME NoLimitAssumption == NULL \notin PeerLimit

VARIABLES
    seen,   \* history: the rows scanned so far
    out     \* the map that is built: out[ip] is a limit, or NULL

vars == <<seen, out>>

TypeOK == seen \subseteq Row /\ out \in [Ips -> PeerLimit \union {NULL}]

-----------------------------------------------------------------------------

NzLimit(v) == IF v = NULL THEN 0 ELSE IF v <= 0 THEN 0 ELSE v

\* The columns a classifier lets through; any other text counts as dual.
Counts(clf) == CASE clf = "dst-download" -> {"download", "burstDownload"}
                 [] clf = "src-upload" -> {"upload", "burstUpload"}
                 [] OTHER -> Fields

Classify(r) == [f \in Fields |-> IF f \in Counts(r.clf) THEN NzLimit(r.cap[f]) ELSE 0]

MutantZeroWins(cur, add) == IF cur <= 0 \/ add < cur THEN add ELSE cur

MergeMin(cur, add) ==
    CASE add <= 0 -> cur
      [] add > 0 /\ (cur <= 0 \/ add < cur) -> add
      [] OTHER -> cur

\* A row without an address or without a rate is skipped, its bursts with it.
Skipped(r) == r.ip = NULL \/ (Classify(r)["download"] = 0 /\ Classify(r)["upload"] = 0)

Entry(ip) == IF out[ip] = NULL THEN [f \in Fields |-> 0] ELSE out[ip]

Merge(r) == [f \in Fields |-> MergeMin(Entry(r.ip)[f], Classify(r)[f])]

Scan(r) ==
    /\ Cardinality(seen \union {r}) <= MaxRows
    /\ seen' = seen \union {r}
    /\ out' = IF Skipped(r) THEN out ELSE [out EXCEPT ![r.ip] = Merge(r)]

Init == seen = {} /\ out = [ip \in Ips |-> NULL]

Next == \E r \in Row : Scan(r)

Spec == Init /\ [][Next]_vars

-----------------------------------------------------------------------------

\* The rows that speak about ip, and the limits they set in f.
Of(ip) == {r \in seen : ~Skipped(r) /\ r.ip = ip}
Caps(ip, f) == {Classify(r)[f] : r \in Of(ip)} \ {0}

IsLeast(n, S) == n \in S /\ \A m \in S : n <= m

\* "minimum wins per tunnel peer" (group_pcq.tmpl:74): whatever the order of the
\* rows, an address has in each field the least limit any of its rows sets, and
\* none where none sets one; it has an entry when some row speaks about it
\* (load.go:46-94).
MinimumWins ==
    \A ip \in Ips :
        IF Of(ip) = {} THEN out[ip] = NULL
        ELSE /\ out[ip] # NULL
             /\ \A f \in Fields : IF Caps(ip, f) = {} THEN out[ip][f] = 0
                                  ELSE IsLeast(out[ip][f], Caps(ip, f))
=============================================================================
