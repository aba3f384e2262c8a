----------------------------- MODULE DnsService -----------------------------
(***************************************************************************)
(* DnsManager and DnsContent together: what the clients are answered.  The *)
(* manager tells rows apart by their ids; here each has a content.         *)
(***************************************************************************)
EXTENDS DnsManager, DnsContent

Rows(text, S) == {text[r] : r \in S}

\* Pairs of ids: clients who are answered from the first are answered as the second
\* want, whatever the rows hold.
Faithful ==
    {pair \in (SUBSET Records) \X (SUBSET Records) :
        \A text \in [Records -> Content], q \in Query :
            InReach(Rows(text, pair[2]), q) =>
                Answer(Rows(text, pair[1]), q) = Wanted(Rows(text, pair[2]), q)}

\* When every request has ended and nothing was missed, clients are answered what
\* the rows of the database say: blocked names the block address, rewritten ones
\* their values, all others what the upstream says, outside the domains that a zone
\* file has taken over (manager.go:91-163, rewrites.go:27-105).
AnswersFollowRows ==
    Quiet /\ missed = {} /\ row.on => <<serves[cmd].recs, records>> \in Faithful
=============================================================================
