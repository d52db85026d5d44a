------------------------------ MODULE Remediator ------------------------------
(***************************************************************************)
(* What remediation.rs promises to those who have processes ended, without *)
(* pids, signals and waits: out of an inventory they ask for one process   *)
(* or group after the other, and get an answer when none of those asked    *)
(* for runs, or an error.  The cleanup of a session (module Remediation)   *)
(* and the command orphans (module Orphans) implement it.                  *)
(***************************************************************************)
CONSTANT Processes

VARIABLES
    running,     \* processes that run
    known,       \* those of the caller's inventory
    target,      \* of them, whom the request in hand is for, if there is one
    signalled,   \* of them, who has got a signal
    terminated,  \* of them, who is reported as terminated
    failed       \* has there been an error?

caller == <<known, target, signalled, terminated, failed>>
rvars == <<running, caller>>

Init ==
    /\ running = {}
    /\ known = {}
    /\ target = {}
    /\ signalled = {}
    /\ terminated = {}
    /\ failed = FALSE

(* Processes start and exit; those of the inventory do not start again. *)
Outside ==
    /\ running' \subseteq Processes
    /\ running' \cap known \subseteq running
    /\ UNCHANGED caller

Learn ==
    /\ known = {} /\ target = {}
    /\ running \subseteq known' /\ known' \subseteq Processes
    /\ UNCHANGED <<running, target, signalled, terminated, failed>>

Forget ==
    /\ target = {}
    /\ known' = {} /\ signalled' = {} /\ terminated' = {}
    /\ UNCHANGED <<running, target, failed>>

Ask ==
    /\ target = {}
    /\ target' # {} /\ target' \subseteq known
    /\ UNCHANGED <<running, known, signalled, terminated, failed>>

(* Of the inventory, a signal reaches and ends only whom it is meant for.   *)
Signals ==
    /\ target # {} /\ ~ failed
    /\ signalled \subseteq signalled'
    /\ signalled' \subseteq signalled \cup target
    /\ running' \subseteq running
    /\ (running \ running') \cap known \subseteq target \cap signalled'

Signal == Signals /\ UNCHANGED <<known, target, terminated, failed>>

(* An answer, maybe with a last signal: who was signalled is reported.      *)
Answer ==
    /\ Signals
    /\ target \cap running' = {}
    /\ target' = {}
    /\ terminated' \in {terminated, terminated \cup target}
    /\ signalled' \subseteq terminated'
    /\ UNCHANGED <<known, failed>>

GiveUp ==
    /\ target # {} /\ ~ failed
    /\ target \cap running = {}
    /\ failed' = TRUE
    /\ UNCHANGED <<running, known, target, signalled, terminated>>

Next == Outside \/ Learn \/ Forget \/ Ask \/ Signal \/ Answer \/ GiveUp

Spec == Init /\ [][Next]_rvars

(* remediation.rs, as its callers rely on it: what they report as           *)
(* terminated runs no more, between requests they have reported everyone    *)
(* who got a signal, and an error only concerns what has exited.            *)
Promise ==
    /\ terminated \cap running = {}
    /\ target = {} => signalled \subseteq terminated
    /\ failed => target \cap running = {}

(* Why: all of it is about processes of the inventory, and an error is the  *)
(* last that is heard.                                                      *)
Agreed ==
    /\ target \cup signalled \cup terminated \subseteq known
    /\ failed => target # {}
    /\ Promise
=============================================================================
