----------------------------- MODULE MCOrphans -----------------------------
(* Opencode in a session, a node process that may be its child or be in its *)
(* group, and a node process of another user.                               *)
EXTENDS Orphans

CONSTANTS host, worker, stranger

(* kill with --force and guard without take all the paths of a candidate. *)
ReportAndEnd ==
    {[mode |-> "list", force |-> FALSE], [mode |-> "kill", force |-> TRUE],
     [mode |-> "guard", force |-> FALSE]}

Watch == {[mode |-> "watch", force |-> FALSE]}

HostNamesSession == [i \in Instances |-> IF i = host THEN {"ses"} ELSE {}]
=============================================================================
