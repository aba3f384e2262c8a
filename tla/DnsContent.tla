----------------------------- MODULE DnsContent -----------------------------
(***************************************************************************)
(* What a CoreDNS child answers from (dns/rewrites.go, hostsfile.go,       *)
(* zonefile.go, blocklist.go, manager.go).  Address rewrites become lines  *)
(* of a hosts file, all others records of a zone file for the domain above *)
(* the name, and each zone gets a server block of its own, which forwards  *)
(* nothing.  A name is a node of the tree of domains, an answer a set of   *)
(* values; CoreDNS itself is external.                                     *)
(***************************************************************************)
CONSTANTS
    Names,         \* domain names
    Parent,        \* Parent[n]: n without its first label; itself, when it has one
    Values,        \* what rewrites answer
    Listed,        \* names on the block lists in use; none when ads are let through
    BlockAddress,  \* what a blocked name resolves to
    Upstream       \* the answer of the resolvers that the rest is forwarded to

\* Above[n] is n and the domains it lies in.
Above == [n \in Names |->
    {m \in Names : \A S \in SUBSET Names : n \in S /\ (\A x \in S : Parent[x] \in S) => m \in S}]

ASSUME TreeAssumption ==
    /\ Parent \in [Names -> Names] /\ Listed \subseteq Names
    /\ \A m, n \in Names : m \in Above[n] /\ n \in Above[m] => m = n

AddressTypes == {"A", "AAAA"}
Types == AddressTypes \union {"other"}

\* Rows of dns_records and of dns_domain_rules.  The handlers store no row that is
\* off, and no name of one label; the files are made with both in mind.
Rewrite == [table : {"records"}, name : Names, type : Types, value : Values, on : BOOLEAN]
Rule == [table : {"rules"}, name : Names, rule : {"allow", "block"}, on : BOOLEAN]
Content == Rewrite \union Rule

Query == [name : Names, type : Types]

-----------------------------------------------------------------------------
(* The files.  A definition named Mutant... is a plausible mistake in the one *)
(* that follows it.                                                           *)

Enabled(rows, table) == {r \in rows : r.table = table /\ r.on}
Ruled(rows, rule) == {r.name : r \in {s \in Enabled(rows, "rules") : s.rule = rule}}

MutantBlocked(rows) == Ruled(rows, "block") \union (Listed \ Ruled(rows, "allow"))

\* CollectBlockedDomains: lists and rules, and what is allowed taken from both.
Blocked(rows) == (Ruled(rows, "block") \union Listed) \ Ruled(rows, "allow")

\* WriteHostsFile.
HostLines(rows) == {r \in Enabled(rows, "records") : r.type \in AddressTypes}

\* prepareRewriteZones: SplitRewriteDomain takes the first label for the owner.
ZoneRecords(rows) == Enabled(rows, "records") \ HostLines(rows)
Zones(rows) == {Parent[r.name] : r \in ZoneRecords(rows)}

-----------------------------------------------------------------------------
(* The answers. *)

Valued(lines, q) == {r.value : r \in {s \in lines : s.name = q.name /\ s.type = q.type}}
Named(lines, n) == \E r \in lines : r.name = n

\* The block of the root zone: the hosts files, each answering for all the names
\* it has, and then the resolvers.
RootAnswer(rows, q) ==
    CASE q.name \in Blocked(rows) -> IF q.type = "A" THEN {BlockAddress} ELSE {}
      [] q.name \notin Blocked(rows) /\ Named(HostLines(rows), q.name)
             -> Valued(HostLines(rows), q)
      [] OTHER -> {Upstream}

\* The block of a zone has its file and no more: it denies what is not there.
ZoneAnswer(rows, z, q) == Valued({r \in ZoneRecords(rows) : Parent[r.name] = z}, q)

\* The innermost zone that q lies in: CoreDNS takes the longest match.
Block(rows, n) ==
    {z \in Zones(rows) \intersect Above[n] :
        \A y \in Zones(rows) \intersect Above[n] : y \in Above[z]}

Answer(rows, q) ==
    IF Block(rows, q.name) = {} THEN RootAnswer(rows, q)
    ELSE UNION {ZoneAnswer(rows, z, q) : z \in Block(rows, q.name)}

-----------------------------------------------------------------------------
(* What the DNS page says of the rows. *)

Forbidden(rows, n) ==
    /\ n \in Listed \/ \E r \in rows : r.table = "rules" /\ r.on /\ r.name = n /\ r.rule = "block"
    /\ ~\E r \in rows : r.table = "rules" /\ r.on /\ r.name = n /\ r.rule = "allow"

Overrides(rows, n) == {r \in rows : r.table = "records" /\ r.on /\ r.name = n}

Wanted(rows, q) ==
    IF Forbidden(rows, q.name) THEN IF q.type = "A" THEN {BlockAddress} ELSE {}
    ELSE IF Overrides(rows, q.name) = {} THEN {Upstream}
    ELSE {r.value : r \in {s \in Overrides(rows, q.name) : s.type = q.type}}

\* A zone answers for all of its domain.  The rows have their way only where no zone
\* is in it, and for the records that have made the zone, when none lies further in.
InReach(rows, q) ==
    \/ Zones(rows) \intersect Above[q.name] = {}
    \/ /\ q.type = "other" /\ ~Forbidden(rows, q.name)
       /\ \E r \in Overrides(rows, q.name) : r.type = "other"
       /\ q.name \in Zones(rows) => q.name = Parent[q.name]
=============================================================================
