-------------------------------- MODULE Push --------------------------------
(***************************************************************************)
(* What a push of WireGuard promises, without temporary files or copies.   *)
(* The rows move on; from time to time wg0.conf is replaced by rows that   *)
(* somebody has read, and the interface takes the file that is there.      *)
(* While pushes overlap, and after one has failed, nothing is promised     *)
(* until one begins alone: then the system is calm again.                  *)
(*                                                                         *)
(* The file is not safe from a stop of the host: it may lose its text, or  *)
(* say again what it said before.  What is promised is that this never     *)
(* comes to the interface: it takes the rows that were written last.       *)
(*                                                                         *)
(* PeerSync assumes such pushes; ConfigApply implements them.              *)
(***************************************************************************)
EXTENDS Naturals

CONSTANTS
    Version,    \* versions of rows: numbers
    Lost,       \* what a file may say whose text a stop of the host has taken
    NULL        \* no file; no interface

VARIABLES
    rows,    \* the version of the settings and that of the peers
    conf,    \* wg0.conf
    last,    \* what was written last, which conf says unless the host has stopped
    wg,      \* the interface: the settings it was made from, the peers it has
    calm     \* no push overlaps another, or has failed, since one began alone

vars == <<rows, conf, last, wg, calm>>

Rows == [set : Version, peers : Version]

Newer(t, u) == t.set >= u.set /\ t.peers >= u.peers

Init ==
    /\ rows = [set |-> 0, peers |-> 0]
    /\ conf = NULL /\ last = NULL
    /\ wg = NULL
    /\ calm = FALSE

Change ==
    /\ rows' \in Rows /\ Newer(rows', rows)
    /\ UNCHANGED <<conf, last, wg, calm>>

\* The file gets rows that were there, and none older than it ever had.
Write ==
    /\ conf' \in Rows /\ last' = conf'
    /\ Newer(rows, conf')
    /\ last \in Rows => Newer(conf', last)
    /\ UNCHANGED <<rows, wg, calm>>

\* An interface that is there is given the peers of the file; its settings stay.
Load ==
    /\ wg # NULL /\ conf \in Rows /\ conf = last
    /\ wg' = [wg EXCEPT !.peers = conf.peers]
    /\ UNCHANGED <<rows, conf, last, calm>>

Up ==
    /\ wg = NULL /\ conf \in Rows /\ conf = last
    /\ wg' = conf
    /\ UNCHANGED <<rows, conf, last, calm>>

Down ==
    /\ wg' = NULL
    /\ UNCHANGED <<rows, conf, last, calm>>

\* The host stops: the file is as it was, has lost its text, says again some rows
\* that were there, or is not there as it once was not.
Crash ==
    /\ wg' = NULL
    /\ conf' \in Rows \union Lost \union {NULL}
    /\ conf' \in Rows => Newer(rows, conf')
    /\ UNCHANGED <<rows, last, calm>>

\* Pushes overlap, one fails, or the interface is lost.
Trouble ==
    /\ calm' = FALSE
    /\ wg' \in {wg, NULL}
    /\ UNCHANGED <<rows, conf, last>>

\* Whatever becomes of file and interface, rows that were written stay.
Troubled ==
    /\ ~calm /\ calm' = FALSE
    /\ rows' \in Rows /\ Newer(rows', rows)

\* A push begins alone.
Settle ==
    /\ calm' = TRUE
    /\ UNCHANGED <<rows, conf, last, wg>>

Next ==
    \/ calm /\ (Change \/ Write \/ Load \/ Up \/ Down \/ Crash \/ Trouble)
    \/ Troubled
    \/ Settle

Spec == Init /\ [][Next]_vars
=============================================================================
