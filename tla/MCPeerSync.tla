----------------------------- MODULE MCPeerSync -----------------------------
(***************************************************************************)
(* Instances of PeerSync for TLC.                                          *)
(***************************************************************************)
EXTENDS PeerSync

\* Bytes and hours apart: a commit charges a row's quota and its days alike, and
\* only the switch reads both.
Bytes(n) ==
    /\ now = 0 /\ \A u \in Users : carried[u]["rx"] + carried[u]["tx"] <= n
    /\ \A u \in Users : user[u] # NULL => user[u].days = NULL /\ user[u].lastCheck = NULL

Hours ==
    /\ \A u \in Users : carried[u] = Zero
    /\ \A u \in Users : user[u] # NULL => user[u].quota = NULL

KeyOf(r) == IF r = NULL THEN NULL ELSE r.key

\* The key pairs of rows, file, interface and dump.
KeysAround ==
    LET Seen == {wg} \union (IF dump = NULL THEN {} ELSE {dump.peers})
    IN  (UNION {{KeyOf(user[u]), conf[u]} \union {KeyOf(s[u]) : s \in Seen} : u \in Users})
            \ {NULL}

\* Two bytes when the key changes; a third, or hours, when it does not.
OneLimit ==
    \/ Bytes(2)
    \/ KeysAround \subseteq {CHOOSE k \in KeyPairs : TRUE} /\ (Bytes(3) \/ Hours)
=============================================================================
