--------------------------- MODULE MCRemediation ---------------------------
(* Four processes: two accepted ones of the session, one of the session     *)
(* that is rejected, and one of another user that has nothing to do with it.*)
EXTENDS Remediation, FiniteSets

CONSTANTS target, another, rejected, stranger

(* The command of one process has the session id twice. *)
MentionedTwice == [i \in Matching |-> IF i = target THEN 2 ELSE 1]

(* Bound: any three of the four are born, two being as many as have room    *)
(* in an inventory with two pids.                                           *)
MaxBorn == 3

Bounded == Cardinality({i \in Instances : life[i] # "unborn"}) <= MaxBorn

BoundedSpec == Init /\ [][Next /\ Bounded']_vars /\ WF_vars(DaemonStep)
=============================================================================
