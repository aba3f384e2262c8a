----------------------------- MODULE Supervisor -----------------------------
(***************************************************************************)
(* What the DNS manager promises, without processes, watchers and lock:    *)
(* there is one server or none, it answers from rows that somebody has     *)
(* read, it has ended before another is started, and it is touched only    *)
(* while somebody is busy.  When the last one is done and all has gone     *)
(* well, it answers as the rows say.                                       *)
(*                                                                         *)
(* DnsManager implements it.                                               *)
(***************************************************************************)

CONSTANTS Hosts, Records, NULL

VARIABLES
    row, records,   \* the tables
    drafts,         \* settings that were read and call for a server
    plans,          \* what is to be answered from, or NULL for no server
    answers,        \* what is answered from: of one server, or of none
    busy,           \* somebody has something left to do
    calm            \* nothing has gone wrong since the settings were last read

vars == <<row, records, drafts, plans, answers, busy, calm>>

Row == [on : BOOLEAN, host : Hosts \union {NULL}]

Aim(r, recs) == [host |-> r.host, recs |-> recs]

Right == answers = IF row.on THEN {Aim(row, records)} ELSE {}

Init ==
    /\ row = [on |-> FALSE, host |-> NULL] /\ records = {}
    /\ drafts = {} /\ plans = {} /\ answers = {}
    /\ busy = FALSE /\ calm = TRUE

\* Whoever writes has something to do: to apply what was written.
Write ==
    /\ row' \in Row /\ records' \subseteq Records
    /\ busy' = TRUE
    /\ UNCHANGED <<drafts, plans, answers, calm>>

Read ==
    /\ busy /\ calm' = TRUE
    /\ IF row.on THEN drafts' = drafts \union {row} /\ UNCHANGED plans
                 ELSE plans' = plans \union {NULL} /\ UNCHANGED drafts
    /\ UNCHANGED <<row, records, answers, busy>>

\* Settings are stored with an address of the system's own choice; those that were
\* stored in the meantime are lost.
Resolve(d) ==
    /\ d \in drafts
    /\ row' \in {[d EXCEPT !.host = h] : h \in Hosts}
    /\ drafts' \in {drafts \union {row'}, (drafts \ {d}) \union {row'}}
    /\ calm' = (calm /\ row = d)
    /\ UNCHANGED <<records, plans, answers, busy>>

ReadRecords(d) ==
    /\ d \in drafts
    /\ drafts' \in {drafts, drafts \ {d}}
    /\ plans' = plans \union {Aim(d, records)}
    /\ UNCHANGED <<row, records, answers, busy, calm>>

Stop ==
    /\ plans # {}
    /\ answers' = {}
    /\ UNCHANGED <<row, records, drafts, plans, busy, calm>>

\* Whoever has a draft or a plan has something left to do.
Leave == busy' \in BOOLEAN /\ (~busy' => drafts' = {} /\ plans' = {})

\* A plan has been carried out.  Was it the last, the server is the right one.
Done(s) ==
    /\ plans' \in {plans, plans \ {s}}
    /\ Leave
    /\ calm /\ ~busy' => Right'
    /\ UNCHANGED <<row, records, drafts, calm>>

Start(s) ==
    /\ s \in plans \ {NULL} /\ answers = {}
    /\ answers' = {s}
    /\ Done(s)

StayOff ==
    /\ NULL \in plans /\ answers = {}
    /\ UNCHANGED answers
    /\ Done(NULL)

\* Something fails, the server ends by itself, or its interface is lost.
Trouble ==
    /\ calm' = FALSE
    /\ answers' \in {answers, {}}
    /\ drafts' \subseteq drafts /\ plans' \subseteq plans
    /\ busy' \in {busy, FALSE} /\ Leave
    /\ UNCHANGED <<row, records>>

\* The daemon is started again, and begins with what the tables say.
Restart ==
    /\ drafts' = {} /\ plans' = {} /\ answers' = {}
    /\ busy' = TRUE
    /\ UNCHANGED <<row, records, calm>>

Next ==
    \/ Write \/ Read
    \/ \E d \in drafts : Resolve(d) \/ ReadRecords(d)
    \/ Stop \/ StayOff \/ \E s \in plans : Start(s)
    \/ Trouble \/ Restart

Spec == Init /\ [][Next]_vars
=============================================================================
