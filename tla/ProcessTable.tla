---------------------------- MODULE ProcessTable ----------------------------
(***************************************************************************)
(* The process table of a Unix machine, as remediation.rs and orphans.rs   *)
(* depend on it: a process has a pid and a process group from its birth    *)
(* until it is reaped, and its pid may then be given to another one.       *)
(***************************************************************************)
EXTENDS Naturals

CONSTANTS
    Instances,  \* processes, each of which lives at most once
    Pids,       \* process ids, which are also those of process groups
    NoPid,      \* what a process has before it is born
    Foreign     \* processes of other users, which may not be signalled

ASSUME TableAssumption ==
    /\ Foreign \subseteq Instances
    /\ NoPid \notin Pids

VARIABLES
    life,  \* "unborn", "running", "zombie" (not yet reaped) or "gone"
    pid,   \* the pid of each process
    group  \* its process group

system == <<life, pid, group>>

Present == {i \in Instances : life[i] \in {"running", "zombie"}}

Running == {i \in Instances : life[i] = "running"}

Empty ==
    /\ life = [i \in Instances |-> "unborn"]
    /\ pid = [i \in Instances |-> NoPid]
    /\ group = pid

(* A new process gets a pid that no process and no group has, and its own   *)
(* group or that of its parent.                                             *)
Spawn(i, p) ==
    /\ life[i] = "unborn"
    /\ \A j \in Present : p \notin {pid[j], group[j]}
    /\ life' = [life EXCEPT ![i] = "running"]
    /\ pid' = [pid EXCEPT ![i] = p]
    /\ \E g \in {p} \cup {group[j] : j \in Running} :
          group' = [group EXCEPT ![i] = g]

ExitOf(i) ==
    /\ life[i] = "running"
    /\ life' = [life EXCEPT ![i] = "zombie"]
    /\ UNCHANGED <<pid, group>>

Reap(i) ==
    /\ life[i] = "zombie"
    /\ life' = [life EXCEPT ![i] = "gone"]
    /\ UNCHANGED <<pid, group>>

(* SIGKILL *)
Killed(S) ==
    life' = [i \in Instances |-> IF i \in S /\ life[i] = "running"
                                 THEN "zombie" ELSE life[i]]
=============================================================================
