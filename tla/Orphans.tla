------------------------------ MODULE Orphans ------------------------------
(***************************************************************************)
(* cancerbroker orphans (orphans.rs): an inventory of the processes is     *)
(* taken, ps is asked for their terminals, and those that have none and    *)
(* belong to Opencode are listed (list, watch) or ended one by one (kill,  *)
(* guard).  watch and guard begin again after each cycle, for ever.        *)
(***************************************************************************)
EXTENDS ProcessTable

CONSTANTS
    Calls,       \* how the command is called: OrphanMode, with --force or not
    Marked,      \* processes whose command has a required marker
    Node,        \* node processes
    Heavy,       \* bound: processes that may get over guard's threshold
    Hosts,       \* processes whose executable is named like a marker
    Sessions,    \* session ids
    SessionsOf,  \* those that the command of a process names
    NoOne        \* no process of Instances: init, as the parent of a process

ASSUME OrphansAssumption ==
    /\ Calls \subseteq [mode : {"list", "kill", "watch", "guard"}, force : BOOLEAN]
    /\ Marked \cup Node \cup Hosts \cup Heavy \subseteq Instances
    /\ SessionsOf \in [Instances -> SUBSET Sessions]
    /\ NoOne \notin Instances

VARIABLES
    \* more of the operating system
    parent,     \* of each process; init if it has exited
    detached,   \* those that have no terminal: "?" or "??"
    large,      \* processes with more memory than --threshold-mb
    \* the command
    mode,       \* OrphanMode
    force,      \* --force
    stage,      \* "idle", "ps", "next", "probe", "term", "wait", "kill",
                \* "print", "done" or "failed"
    rightful,   \* of the inventory, what may be ended if it has no terminal
    todo,       \* OrphanScan::candidates that are left
    current,    \* the candidate in hand
    ended,      \* those counted in terminated_count
    unprinted,  \* is there an output that was not printed?
    \* history
    elders,     \* the processes of the inventory
    signalled   \* those that got a signal since

outside == <<parent, detached, large>>
command == <<mode, force, stage, rightful, todo, current, ended, unprinted>>
history == <<elders, signalled>>
vars == <<system, outside, command, history>>

Init ==
    /\ Empty
    /\ parent = [i \in Instances |-> NoOne]
    /\ detached = {}
    /\ large = {}
    /\ \E c \in Calls : mode = c.mode /\ force = c.force
    /\ stage = "idle"
    /\ rightful = {}
    /\ todo = {}
    /\ current = NoOne
    /\ ended = {}
    /\ unprinted = FALSE
    /\ elders = {}
    /\ signalled = {}

-----------------------------------------------------------------------------
(* The processes of the machine. *)

(* What is not started by init is in the group of its parent, or its own.   *)
Born(i, p) ==
    /\ Spawn(i, p)
    /\ \E j \in Running \cup {NoOne} :
          /\ parent' = [parent EXCEPT ![i] = j]
          /\ group'[i] \in {p} \cup {group[k] : k \in Running \cap {j}}
    /\ detached' \in {detached, detached \cup {i}}
    /\ large' = large

(* Memory is given back, and children become those of init. *)
Left(S) ==
    /\ large' = large \ S
    /\ parent' = [j \in Instances |-> IF parent[j] \in S THEN NoOne ELSE parent[j]]

Exits(i) == ExitOf(i) /\ Left({i}) /\ UNCHANGED detached

Reaped(i) == Reap(i) /\ UNCHANGED outside

(* Its terminal is closed. *)
Detach(i) ==
    /\ i \in Running \ detached
    /\ detached' = detached \cup {i}
    /\ UNCHANGED <<system, parent, large>>

(* Only guard looks at the memory. *)
Grow(i) ==
    /\ mode = "guard"
    /\ i \in (Running \cap Heavy) \ large
    /\ large' = large \cup {i}
    /\ UNCHANGED <<system, parent, detached>>

Shrink(i) ==
    /\ i \in Running \cap large
    /\ large' = large \ {i}
    /\ UNCHANGED <<system, parent, detached>>

-----------------------------------------------------------------------------
(* The sessions that the commands of processes name. *)
Named(S) == UNION {SessionsOf[i] : i \in S}

(* associate_process_sample_with_session: by its own command, or else its   *)
(* parent's, or else those of its group, if they name only one.             *)
Associated(i) ==
    LET above  == Named({parent[i]} \cap Present)
        beside == Named({j \in Present \ {i} : group[j] = group[i]})
        ids == IF SessionsOf[i] # {} THEN SessionsOf[i]
               ELSE IF above # {} THEN above ELSE beside
    IN \E s \in Sessions : ids = {s}

(* Faulty: the user is only compared when the command has a marker. *)
AcceptedAnyUser(i) ==
    \/ i \in Marked \ Foreign
    \/ i \in Node /\ (parent[i] \in Hosts \ Foreign \/ Associated(i))

(* validate_process_identity_or_opencode_parent_node.  What it allows is    *)
(* allowed again by remediate_process, for allow_inherited_command_match.   *)
Accepted(i) ==
    /\ i \notin Foreign
    /\ \/ i \in Marked
       \/ i \in Node /\ (parent[i] \in Hosts \ Foreign \/ Associated(i))

(* ProcessInventory::collect_live, and what is decided by its data alone *)
CollectLive ==
    /\ stage = "idle"
    /\ stage' = "ps"
    /\ elders' = Present
    /\ rightful' = {i \in Present : Accepted(i) /\ (mode = "guard" => i \in large)}
    /\ UNCHANGED <<mode, force, todo, current, ended, unprinted, signalled>>

(* The output of a cycle is kept until run_orphans returns, the inventory   *)
(* is not.                                                                  *)
EndCycle ==
    /\ stage' = IF mode \in {"list", "kill"} THEN "print" ELSE "idle"
    /\ unprinted' = TRUE
    /\ rightful' = {}
    /\ todo' = {}
    /\ ended' = {}
    /\ elders' = {}
    /\ signalled' = {}

(* Faulty: validation is left to the remediation. *)
CandidatesUnchecked ==
    {i \in elders : \E j \in Present \cap detached : pid[j] = pid[i]}

(* The terminals that ps knows are those of pids. *)
Candidates ==
    {i \in rightful : \E j \in Present \cap detached : pid[j] = pid[i]}

(* collect_tty_map, scan_with_inventory; list and watch only report *)
MatchTtys ==
    /\ stage = "ps"
    /\ IF mode \in {"kill", "guard"}
       THEN /\ stage' = "next"
            /\ todo' = Candidates
            /\ UNCHANGED <<rightful, ended, unprinted, history>>
       ELSE EndCycle
    /\ UNCHANGED <<mode, force, current>>

(* ps reports an error: nothing has a known terminal. *)
TtysUnknown ==
    /\ stage = "ps"
    /\ EndCycle
    /\ UNCHANGED <<mode, force, current>>

(* ps cannot be run: the command ends. *)
NoPs ==
    /\ stage = "ps"
    /\ stage' = "failed"
    /\ UNCHANGED <<mode, force, rightful, todo, current, ended, unprinted, history>>

-----------------------------------------------------------------------------
(* remediate_candidates. *)

(* Faulty: the whole group is ended, as the daemon does. *)
AddressedGroup == {i \in Present : group[i] = group[current]}

(* The process that kill means by the pid of the candidate. *)
Addressed == {i \in Present : pid[i] = pid[current]}

(* is_alive_unix: EPERM is an answer of the living. *)
IsAlive == Addressed # {}

Reachable == Addressed \ Foreign

BeginCandidate(i) ==
    /\ stage = "next"
    /\ i \in todo
    /\ stage' = "probe"
    /\ current' = i
    /\ UNCHANGED <<mode, force, rightful, todo, ended, unprinted, history>>

AllDone ==
    /\ stage = "next"
    /\ todo = {}
    /\ EndCycle
    /\ UNCHANGED <<mode, force, current>>

(* The outcome of remediate_process or remediate_process_force is counted. *)
Answer(terminated) ==
    /\ stage' = "next"
    /\ todo' = todo \ {current}
    /\ ended' = IF terminated THEN ended \cup {current} ELSE ended
    /\ current' = NoOne

Goto(s) == stage' = s /\ UNCHANGED <<todo, ended, current>>

(* Faulty: --force is not passed on, and nothing is sent. *)
ProbeForceIgnored ==
    /\ stage = "probe"
    /\ IF ~ IsAlive THEN Answer(FALSE)
       ELSE IF force THEN Answer(TRUE) ELSE Goto("term")
    /\ UNCHANGED <<mode, force, rightful, unprinted, history>>

Probe ==
    /\ stage = "probe"
    /\ IF ~ IsAlive THEN Answer(FALSE)
       ELSE Goto(IF force THEN "kill" ELSE "term")
    /\ UNCHANGED <<mode, force, rightful, unprinted, history>>

(* A signal that cannot be sent ends the command, and its outputs are lost. *)
SendTerm ==
    /\ stage = "term"
    /\ Goto(IF Reachable = {} THEN "failed" ELSE "wait")
    /\ signalled' = signalled \cup Reachable
    /\ UNCHANGED <<mode, force, rightful, unprinted, elders>>

WaitSeesExit ==
    /\ stage = "wait"
    /\ ~ IsAlive
    /\ Answer(TRUE)
    /\ UNCHANGED <<mode, force, rightful, unprinted, history>>

(* Faulty: the wait goes on until the process is gone. *)
WaitForEver ==
    /\ stage = "wait"
    /\ ~ IsAlive
    /\ Goto("kill")
    /\ UNCHANGED <<mode, force, rightful, unprinted, history>>

WaitTimesOut ==
    /\ stage = "wait"
    /\ Goto("kill")
    /\ UNCHANGED <<mode, force, rightful, unprinted, history>>

SendKill ==
    /\ stage = "kill"
    /\ IF Reachable = {} THEN Goto("failed") ELSE Answer(TRUE)
    /\ signalled' = signalled \cup Reachable
    /\ Killed(Reachable)
    /\ Left(Reachable)
    /\ UNCHANGED <<pid, group, detached, mode, force, rightful, unprinted, elders>>

(* run_orphans has returned. *)
Output ==
    /\ stage = "print"
    /\ stage' = "done"
    /\ unprinted' = FALSE
    /\ UNCHANGED <<mode, force, rightful, todo, current, ended, history>>

-----------------------------------------------------------------------------
(* What the command does without changing the system. *)
Quiet ==
    /\ \/ CollectLive \/ MatchTtys \/ TtysUnknown \/ NoPs
       \/ \E i \in Instances : BeginCandidate(i)
       \/ AllDone \/ Probe \/ SendTerm \/ WaitSeesExit \/ WaitTimesOut \/ Output
    /\ UNCHANGED <<system, outside>>

RunOrphans == Quiet \/ SendKill

(* What happens after the command has ended is not followed. *)
SystemStep ==
    /\ stage \notin {"done", "failed"}
    /\ \/ \E i \in Instances, p \in Pids : Born(i, p)
       \/ \E i \in Instances :
             Exits(i) \/ Reaped(i) \/ Detach(i) \/ Grow(i) \/ Shrink(i)
    /\ UNCHANGED <<command, history>>

Next == RunOrphans \/ SystemStep

Spec == Init /\ [][Next]_vars

(* The command is never blocked, and ps does not fail for ever.  Processes  *)
(* owe nothing, not even to exit when asked to.                             *)
FairSpec ==
    /\ Spec
    /\ WF_vars(RunOrphans)
    /\ SF_vars(MatchTtys /\ UNCHANGED <<system, outside>>)

-----------------------------------------------------------------------------
(* The types of the machine and of the command's progress. *)
TypeOK ==
    /\ life \in [Instances -> {"unborn", "running", "zombie", "gone"}]
    /\ pid \in [Instances -> Pids \cup {NoPid}]
    /\ group \in [Instances -> Pids \cup {NoPid}]
    /\ parent \in [Instances -> Running \cup {NoOne}]
    /\ detached \subseteq Instances
    /\ large \subseteq Instances
    /\ [mode |-> mode, force |-> force] \in Calls
    /\ stage \in {"idle", "ps", "next", "probe", "term", "wait", "kill",
                  "print", "done", "failed"}
    /\ todo \subseteq rightful
    /\ rightful \subseteq elders
    /\ current \in todo \cup {NoOne}
    /\ ended \subseteq rightful
    /\ unprinted \in BOOLEAN
    /\ elders \subseteq Instances
    /\ signalled \subseteq Instances

(* The inventory keeps its pids apart, nothing of it is born again, and what *)
(* is to be ended has no terminal, or has exited before ps was asked.       *)
Remembered ==
    /\ \A i, j \in Present : pid[i] = pid[j] => i = j
    /\ \A i, j \in elders : pid[i] = pid[j] => i = j
    /\ \A i \in elders : life[i] # "unborn"
    /\ rightful \cap Foreign = {}
    /\ \A i \in todo : i \in detached \/ life[i] = "gone"
    /\ stage \in {"probe", "term", "wait", "kill"} => current # NoOne
    /\ stage \in {"idle", "ps", "next", "print", "done"} => current = NoOne
    /\ stage \in {"idle", "ps"} => signalled = {} /\ ended = {} /\ todo = {}

(* The inductive invariant of the command, with the types it needs. *)
OrphansIInv == TypeOK /\ Remembered

(* scan_with_inventory joins two lookups by pid.  Of the processes of the   *)
(* inventory, none is signalled that has a terminal, that validation        *)
(* rejects, or that was not over guard's threshold: a pid that was reused   *)
(* between the lookups, or before a signal, can only mislead the command to *)
(* processes that are younger than the inventory.                           *)
OrphansSpared == signalled \cap elders \subseteq rightful \cap detached

(* remediate_candidates: what terminated_count, and with it                 *)
(* estimated_freed_bytes, counts as terminated runs no more.                *)
CountsTrue == ended \cap Running = {}

(* remediate_candidates leaves at the first error, without the outputs of   *)
(* all cycles: that only happens over a candidate that has just exited, and *)
(* never because one of another user was taken for a candidate.             *)
FailuresAreRaces == stage = "failed" => current \notin Running

SignalledElders == signalled \cap elders

Asked == {current} \ {NoOne}

Promised == INSTANCE Remediator WITH
    Processes  <- Instances,
    running    <- Running,
    known      <- elders,
    target     <- Asked,
    signalled  <- SignalledElders,
    terminated <- ended,
    failed     <- stage = "failed" /\ current # NoOne

(* remediate_process and remediate_process_force, one candidate after the   *)
(* other and one inventory after the other, are to the command what module  *)
(* Remediator promises: terminated_count counts everyone who got a signal,  *)
(* and nobody who still runs.                                               *)
ImplementsRemediator == Promised!Spec

(* What guard must not leave alone. *)
Due(i) ==
    /\ mode = "guard"
    /\ i \in Running \cap detached \cap large
    /\ Accepted(i)

(* run_guard: an orphan over the threshold is ended in some cycle, whatever *)
(* it does about SIGTERM and whatever pids are reused, unless the command   *)
(* itself ends with an error.                                               *)
OrphansEnded == \A i \in Instances : Due(i) ~> (~ Due(i) \/ stage = "failed")

(* README.md: "watch repeats the scan and prints each cycle".               *)
WatchPrints ==
    (mode = "watch" /\ unprinted) ~> (~ unprinted \/ stage = "failed")
=============================================================================
