---------------------------- MODULE Remediation ----------------------------
(***************************************************************************)
(* How AutoCleanupEngine::remediate_processes (autocleanup.rs) ends the    *)
(* processes of a session with remediate_process and                       *)
(* remediate_process_group (remediation.rs, Unix).  It knows processes by  *)
(* the pids and process groups of an inventory; by the time a signal is    *)
(* sent, the process may have exited, been reaped, and its pid given to    *)
(* another one.  A process is listed, and remediated, as often as its      *)
(* command mentions the session.                                           *)
(***************************************************************************)
EXTENDS ProcessTable, Sequences

CONSTANTS
    Matching,   \* processes that resolve to the session
    Accepted,   \* processes that validate_process_identity allows
    Mentions    \* how often the command of each matching one has its id

(* session_ids_in_text yields an id once for each time it stands there. *)
ASSUME MentionsAssumption == Mentions \in [Matching -> Nat \ {0}]

(* safety.same_uid_only *)
ASSUME OwnershipAssumption ==
    /\ Matching \cup Accepted \subseteq Instances
    /\ Accepted \cap Foreign = {}

VARIABLES
    \* the daemon
    stage,     \* "idle", "next", "probe", "term", "wait", "kill", "done", "failed"
    todo,      \* processes of the inventory with entries to be remediated
    pgids,     \* seen_pgids: groups to be remediated after them
    current,   \* what the request in hand is for
    outcomes,  \* of each process, of its entries so far
    ended_groups, \* groups whose remediation has terminated somebody
    \* history
    elders,    \* the processes of the inventory
    signalled  \* processes that ever got a signal

daemon == <<stage, todo, pgids, current, outcomes, ended_groups>>
progress == <<todo, pgids, current, outcomes, ended_groups>>
vars   == <<system, daemon, elders, signalled>>

Request == [kind : {"process"}, for : Instances]
             \cup [kind : {"group"}, for : Pids]

NoRequest == [kind |-> "none"]

Init ==
    /\ Empty
    /\ stage = "idle"
    /\ todo = {}
    /\ pgids = {}
    /\ current = NoRequest
    /\ outcomes = [i \in Instances |-> <<>>]
    /\ ended_groups = {}
    /\ elders = {}
    /\ signalled = {}

-----------------------------------------------------------------------------
(* SessionProcessIndex: of each of these, one entry for each mention.       *)
from_inventory == Present \cap Matching

(* collect_live *)
TakeInventory ==
    /\ stage = "idle"
    /\ stage' = "next"
    /\ elders' = Present
    /\ todo' = from_inventory
    /\ UNCHANGED <<system, pgids, current, outcomes, ended_groups, signalled>>

(* Faulty: the leader stands for its group. *)
AddressedLeader ==
    IF current.kind = "process"
    THEN {i \in Present : pid[i] = pid[current.for]}
    ELSE {i \in Present : pid[i] = current.for}

(* The processes that kill or killpg means by the number of the request. *)
Addressed ==
    IF current.kind = "process"
    THEN {i \in Present : pid[i] = pid[current.for]}
    ELSE {i \in Present : group[i] = current.for}

(* is_alive_unix, is_process_group_alive: EPERM is an answer of the living. *)
IsAlive == Addressed # {}

(* A signal reaches those it may, and is an error if there are none. *)
Reachable == Addressed \ Foreign

(* The entries of a process stand side by side. *)
InTurn(i) == i \in todo /\ \A j \in todo \ {i} : outcomes[j] = <<>>

(* process_outcomes.push: a further entry of i is done, maybe its last.     *)
Handled(i, result) ==
    /\ outcomes' = [outcomes EXCEPT ![i] = Append(@, result)]
    /\ todo' = IF Len(outcomes[i]) + 1 < Mentions[i] THEN todo ELSE todo \ {i}

(* Faulty: the group of a rejected process is collected as well. *)
RejectWithGroup(i) ==
    /\ stage = "next"
    /\ InTurn(i)
    /\ i \notin Accepted
    /\ Handled(i, "rejected")
    /\ pgids' = pgids \cup {group[i]}
    /\ UNCHANGED <<system, stage, current, ended_groups, elders, signalled>>

(* remediate_process, validation *)
Reject(i) ==
    /\ stage = "next"
    /\ InTurn(i)
    /\ i \notin Accepted
    /\ Handled(i, "rejected")
    /\ UNCHANGED <<system, stage, pgids, current, ended_groups, elders,
                   signalled>>

BeginProcess(i) ==
    /\ stage = "next"
    /\ InTurn(i)
    /\ i \in Accepted
    /\ stage' = "probe"
    /\ current' = [kind |-> "process", for |-> i]
    /\ UNCHANGED <<system, todo, pgids, outcomes, ended_groups, elders, signalled>>

BeginGroup(g) ==
    /\ stage = "next"
    /\ todo = {}
    /\ g \in pgids
    /\ stage' = "probe"
    /\ current' = [kind |-> "group", for |-> g]
    /\ UNCHANGED <<system, todo, pgids, outcomes, ended_groups, elders, signalled>>

AllDone ==
    /\ stage = "next"
    /\ todo = {}
    /\ pgids = {}
    /\ stage' = "done"
    /\ UNCHANGED <<system, todo, pgids, current, outcomes, ended_groups, elders,
                   signalled>>

(* Faulty: the group of a process that has exited is forgotten. *)
AnswerIfSignalled(result) ==
    /\ stage' = "next"
    /\ current' = NoRequest
    /\ IF current.kind = "process"
       THEN /\ Handled(current.for, result)
            /\ pgids' = IF result = "already_exited" THEN pgids
                        ELSE pgids \cup {group[current.for]}
            /\ UNCHANGED ended_groups
       ELSE /\ pgids' = pgids \ {current.for}
            /\ ended_groups' = IF result = "already_exited" THEN ended_groups
                               ELSE ended_groups \cup {current.for}
            /\ UNCHANGED <<todo, outcomes>>

(* The request is answered.  The group of a process is noted for later. *)
Answer(result) ==
    /\ stage' = "next"
    /\ current' = NoRequest
    /\ IF current.kind = "process"
       THEN /\ Handled(current.for, result)
            /\ pgids' = pgids \cup {group[current.for]}
            /\ UNCHANGED ended_groups
       ELSE /\ pgids' = pgids \ {current.for}
            /\ ended_groups' = IF result = "already_exited" THEN ended_groups
                               ELSE ended_groups \cup {current.for}
            /\ UNCHANGED <<todo, outcomes>>

(* A signal that cannot be sent ends the cleanup, and the daemon with it. *)
Fail ==
    /\ stage' = "failed"
    /\ UNCHANGED progress

Probe ==
    /\ stage = "probe"
    /\ IF IsAlive
       THEN stage' = "term" /\ UNCHANGED progress
       ELSE Answer("already_exited")
    /\ UNCHANGED <<system, elders, signalled>>

SendTerm ==
    /\ stage = "term"
    /\ IF Reachable = {} THEN Fail
       ELSE stage' = "wait" /\ UNCHANGED progress
    /\ signalled' = signalled \cup Reachable
    /\ UNCHANGED <<system, elders>>

(* wait_for_exit, wait_for_group_exit *)
WaitSeesExit ==
    /\ stage = "wait"
    /\ ~ IsAlive
    /\ Answer("terminated_gracefully")
    /\ UNCHANGED <<system, elders, signalled>>

(* Faulty: the last wait is not followed by a signal. *)
WaitTimesOutForGood ==
    /\ stage = "wait"
    /\ Answer("terminated_forced")
    /\ UNCHANGED <<system, elders, signalled>>

(* Faulty: the wait goes on until the process is gone. *)
WaitForEver ==
    /\ stage = "wait"
    /\ ~ IsAlive
    /\ stage' = "kill"
    /\ UNCHANGED <<system, todo, pgids, current, outcomes, ended_groups, elders,
                   signalled>>

WaitTimesOut ==
    /\ stage = "wait"
    /\ stage' = "kill"
    /\ UNCHANGED <<system, todo, pgids, current, outcomes, ended_groups, elders,
                   signalled>>

SendKill ==
    /\ stage = "kill"
    /\ IF Reachable = {} THEN Fail ELSE Answer("terminated_forced")
    /\ signalled' = signalled \cup Reachable
    /\ Killed(Reachable)
    /\ UNCHANGED <<pid, group, elders>>

(* was_terminated *)
Terminated == {"terminated_gracefully", "terminated_forced"}

ProcessRemediationOutcome == {"rejected", "already_exited"} \cup Terminated

(* Faulty: processes are always left to the notice of their group. *)
NoticesOfGroups == [kind : {"group"}, for : ended_groups]

(* What became of the entries of a process. *)
Results(i) == {outcomes[i][n] : n \in DOMAIN outcomes[i]}

(* At the end, notices are sent of the groups that were ended, and of each  *)
(* entry of those processes that are in none of them.                       *)
notify_completion_cleanup_results ==
    [kind : {"group"}, for : ended_groups]
    \cup UNION {{[kind |-> "process", for |-> i, entry |-> n] :
                     n \in {m \in DOMAIN outcomes[i] :
                               outcomes[i][m] \in Terminated}} :
                 i \in {j \in Instances : group[j] \notin ended_groups}}

-----------------------------------------------------------------------------
DaemonStep ==
    \/ TakeInventory
    \/ \E i \in Instances : Reject(i) \/ BeginProcess(i)
    \/ \E g \in Pids : BeginGroup(g)
    \/ AllDone
    \/ Probe
    \/ SendTerm
    \/ WaitSeesExit
    \/ WaitTimesOut
    \/ SendKill

SystemStep ==
    /\ \/ \E i \in Instances, p \in Pids : Spawn(i, p)
       \/ \E i \in Instances : ExitOf(i) \/ Reap(i)
    /\ UNCHANGED <<daemon, elders, signalled>>

Next == DaemonStep \/ SystemStep

Spec == Init /\ [][Next]_vars

(* The daemon is never blocked: every wait has a timeout.  Processes owe    *)
(* nothing, not even to exit when asked to.                                 *)
FairSpec == Spec /\ WF_vars(DaemonStep)

-----------------------------------------------------------------------------
(* The types of the processes and of the daemon's progress. *)
TypeOK ==
    /\ life \in [Instances -> {"unborn", "running", "zombie", "gone"}]
    /\ pid \in [Instances -> Pids \cup {NoPid}]
    /\ group \in [Instances -> Pids \cup {NoPid}]
    /\ stage \in {"idle", "next", "probe", "term", "wait", "kill", "done",
                  "failed"}
    /\ todo \subseteq Matching
    /\ pgids \subseteq Pids
    /\ current \in Request \cup {NoRequest}
    /\ outcomes \in [Instances -> Seq(ProcessRemediationOutcome)]
    /\ ended_groups \subseteq Pids
    /\ elders \subseteq Instances
    /\ signalled \subseteq Instances

Targets == elders \cap Matching \cap Accepted

TargetGroups == {group[i] : i \in Targets}

(* remediation.rs, autocleanup.rs: of the processes that ran when the       *)
(* inventory was taken, a signal reaches only the accepted ones of the      *)
(* session and those in their groups.  A pid that has a new owner can only  *)
(* mislead a signal to a process that is younger than the inventory.        *)
EldersSpared ==
    signalled \cap elders \subseteq {i \in elders : group[i] \in TargetGroups}

(* remediation.rs: what an outcome calls exited or terminated runs no more, *)
(* also when the pid was reused before the last probe or the last signal.   *)
OutcomesTrue ==
    \A i \in Instances :
        Results(i) \cap ({"already_exited"} \cup Terminated) # {} =>
            life[i] \in {"zombie", "gone"}

(* The processes that the request in hand is meant for. *)
Meant ==
    IF current.kind = "process" THEN {current.for}
    ELSE {i \in elders \ Foreign : group[i] = current.for}

(* remediation.rs, the errors of kill and killpg: a remediation that fails  *)
(* and ends the daemon has nothing left to do, for what it was meant for    *)
(* has exited between two of its system calls.                              *)
FailuresAreRaces ==
    stage = "failed" => \A i \in Meant : life[i] # "running"

(* remediate_processes as a whole: at its end no process that may be        *)
(* signalled is left of the groups of the session's processes, except       *)
(* those started meanwhile.                                                 *)
GroupsEnded ==
    stage = "done" =>
        \A i \in elders \ Foreign :
            group[i] \in TargetGroups => life[i] # "running"

(* Whom a notice tells of. *)
ToldOf(notice) ==
    IF notice.kind = "process" THEN {notice.for}
    ELSE {i \in Instances : group[i] = notice.for}

(* A process younger than the inventory has got the pid of i. *)
Reused(i) ==
    \E j \in Instances \ elders : life[j] # "unborn" /\ pid[j] = pid[i]

(* notify_completion_cleanup_results (autocleanup.rs): of the processes of  *)
(* the inventory, each one that got a signal, on its own or with its group, *)
(* is covered by a notice.  By more than one only if its command mentions   *)
(* the session repeatedly, its group had gone when its turn came, and it    *)
(* was killed but not yet reaped, or its pid reused, between two entries.   *)
Announced ==
    LET notices == notify_completion_cleanup_results IN
    stage = "done" =>
        \A i \in signalled \cap elders :
            /\ \E n \in notices : i \in ToldOf(n)
            /\ \A m, n \in notices :
                  i \in ToldOf(m) \cap ToldOf(n) /\ m # n =>
                      /\ Mentions[i] > 1
                      /\ m.kind = "process" /\ n.kind = "process"
                      /\ \/ m.entry > n.entry
                         \/ outcomes[i][m.entry] = "terminated_forced"
                         \/ Reused(i)

(* Who is reported: those of the inventory with an outcome of their own or  *)
(* of their group.                                                          *)
Reported ==
    {i \in elders \ Foreign : \/ Results(i) \cap Terminated # {}
                             \/ group[i] \in ended_groups}

SignalledElders == signalled \cap elders

Asked == IF current = NoRequest THEN {} ELSE Meant

Promised == INSTANCE Remediator WITH
    Processes  <- Instances,
    running    <- Running,
    known      <- elders,
    target     <- Asked,
    signalled  <- SignalledElders,
    terminated <- Reported,
    failed     <- stage = "failed"

(* remediate_process and remediate_process_group, with their probes,        *)
(* signals and waits, and however pids are reused meanwhile, are to the     *)
(* cleanup what module Remediator promises.                                 *)
ImplementsRemediator == Promised!Spec

(* wait_for_exit, wait_for_group_exit: processes that ignore SIGTERM, and   *)
(* pids that are taken again at once, do not keep the daemon for ever.      *)
Ends == (stage = "next") ~> (stage \in {"done", "failed"})

-----------------------------------------------------------------------------
(* Why: what the daemon remembers of the inventory stays true. *)

Remembered ==
    /\ \A i, j \in Present : i # j => pid[i] # pid[j]
    /\ \A i \in Instances : life[i] # "unborn" => group[i] \in Pids
    /\ \A i, j \in elders : i # j => pid[i] # pid[j]
    /\ \A i \in elders : life[i] # "unborn"
    /\ todo \subseteq elders \cap Matching
    /\ pgids \subseteq TargetGroups
    /\ stage = "idle" => elders = {} /\ signalled = {}
    /\ stage \in {"idle", "next", "done"} <=> current = NoRequest
    /\ current.kind = "process" => current.for \in Targets \cap todo
    /\ current.kind = "group" => current.for \in pgids /\ todo = {}

(* No group is struck off before its last process is. *)
GroupsAccounted ==
    stage # "idle" =>
        \A i \in elders \ Foreign :
            life[i] = "running" /\ group[i] \in TargetGroups =>
                group[i] \in pgids \cup {group[t] : t \in todo \cap Accepted}

(* What is yet to be told: who got a signal from the request in hand.       *)
InHand(i) ==
    /\ stage \in {"wait", "kill"}
    /\ IF current.kind = "process" THEN i = current.for
       ELSE group[i] = current.for

SignalsAccounted ==
    /\ stage = "idle" => \A i \in Instances : outcomes[i] = <<>>
    /\ stage # "failed" =>
          \A i \in signalled \cap elders :
              \/ Results(i) \cap Terminated # {}
              \/ group[i] \in ended_groups
              \/ InHand(i)

(* Entries are done one by one, and who has exited gracefully can only seem *)
(* to live again by the pid of another.                                     *)
EntriesAccounted ==
    /\ \A i \in todo : Len(outcomes[i]) < Mentions[i]
    /\ \A i \in Matching : Len(outcomes[i]) <= Mentions[i]
    /\ \A i \in Instances : Results(i) # {} => i \in elders \cap Matching
    /\ \A i \in Instances :
          "terminated_gracefully" \in Results(i) =>
              /\ life[i] = "gone"
              /\ stage \in {"term", "wait", "kill"} /\ current.kind = "process"
                   /\ current.for = i => Reused(i)
    /\ \A i \in Instances : \A m, n \in DOMAIN outcomes[i] :
          /\ m < n
          /\ outcomes[i][m] = "terminated_gracefully"
          /\ outcomes[i][n] \in Terminated
          => Reused(i)

(* The inductive invariant of a cleanup. *)
RemediationInv ==
    /\ Remembered
    /\ EldersSpared
    /\ OutcomesTrue
    /\ FailuresAreRaces
    /\ GroupsAccounted
    /\ GroupsEnded

(* The inductive invariant, with the types it needs.                        *)
RemediationIInv ==
    TypeOK /\ RemediationInv /\ SignalsAccounted /\ EntriesAccounted

(* README.md: cleanup stays scoped to Opencode workloads through command    *)
(* markers and same-UID checks.  Of the processes of the inventory, which   *)
(* were there to be checked, none gets a signal that did not pass.          *)
OnlyAcceptedSignalled == signalled \cap elders \subseteq Accepted
=============================================================================
