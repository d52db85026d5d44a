-------------------------- MODULE RemediationProofs --------------------------
(***************************************************************************)
(* What a cleanup does to processes, for any number of them and any reuse  *)
(* of their pids.                                                          *)
(***************************************************************************)
EXTENDS Remediation, FiniteSetTheorems, TLAPS

(* What the outside does: processes are born, exit and are reaped. *)
LEMMA SystemType == TypeOK /\ SystemStep => TypeOK'
<1> SUFFICES ASSUME TypeOK, SystemStep PROVE TypeOK'
  OBVIOUS
<1> UNCHANGED <<daemon, elders, signalled>>
  BY DEF SystemStep
<1> USE DEF TypeOK, daemon
<1>1. ASSUME NEW i \in Instances, NEW p \in Pids, Spawn(i, p) PROVE TypeOK'
  <2>1. PICK g \in {p} \cup {group[j] : j \in Running} :
           group' = [group EXCEPT ![i] = g]
    BY <1>1 DEF Spawn
  <2>2. g \in Pids \cup {NoPid}
    BY <2>1 DEF Running
  <2> QED BY <1>1, <2>1, <2>2 DEF Spawn
<1>2. ASSUME NEW i \in Instances, ExitOf(i) PROVE TypeOK'
  BY <1>2 DEF ExitOf
<1>3. ASSUME NEW i \in Instances, Reap(i) PROVE TypeOK'
  BY <1>3 DEF Reap
<1> QED BY <1>1, <1>2, <1>3 DEF SystemStep

(* An entry is done: one more result, and no one but i is struck off. *)
LEMMA EntryDone ==
    ASSUME TypeOK, NEW i \in Instances, NEW result \in ProcessRemediationOutcome,
           Handled(i, result)
    PROVE  /\ outcomes' \in [Instances -> Seq(ProcessRemediationOutcome)]
           /\ outcomes'[i] = Append(outcomes[i], result)
           /\ Results(i)' = Results(i) \cup {result}
           /\ \A j \in Instances : j # i => /\ outcomes'[j] = outcomes[j]
                                           /\ Results(j)' = Results(j)
           /\ todo' \subseteq todo /\ todo \ {i} \subseteq todo'
<1>1. /\ outcomes[i] \in Seq(ProcessRemediationOutcome)
      /\ outcomes' = [outcomes EXCEPT ![i] = Append(outcomes[i], result)]
  BY DEF Handled, TypeOK
<1>2. /\ outcomes'[i] = Append(outcomes[i], result)
      /\ \A j \in Instances : j # i => outcomes'[j] = outcomes[j]
  BY <1>1 DEF TypeOK
<1>3. outcomes' \in [Instances -> Seq(ProcessRemediationOutcome)]
  BY <1>1, <1>2 DEF TypeOK
<1>4. Results(i)' = Results(i) \cup {result}
  <2>1. /\ DOMAIN outcomes[i] = 1 .. Len(outcomes[i]) /\ Len(outcomes[i]) \in Nat
        /\ DOMAIN outcomes'[i] = 1 .. Len(outcomes[i]) + 1
        /\ \A n \in 1 .. Len(outcomes[i]) : outcomes'[i][n] = outcomes[i][n]
        /\ outcomes'[i][Len(outcomes[i]) + 1] = result
    BY <1>1, <1>2
  <2>2. \A v : v \in Results(i)' <=> v \in Results(i) \/ v = result
    BY <2>1 DEF Results
  <2> QED BY <2>2
<1>5. \A j \in Instances : j # i => Results(j)' = Results(j)
  BY <1>2 DEF Results
<1>6. todo' \subseteq todo /\ todo \ {i} \subseteq todo'
  BY DEF Handled
<1> QED BY <1>2, <1>3, <1>4, <1>5, <1>6

(* Of the processes that were born once, nothing changes but that they end. *)
Persist ==
    /\ \A i \in Instances : life[i] # "unborn" =>
          /\ pid'[i] = pid[i]
          /\ group'[i] = group[i]
          /\ life'[i] # "unborn"
          /\ life'[i] = "running" => life[i] = "running"
          /\ life[i] = "gone" => life'[i] = "gone"
    /\ \A i, j \in Present' : i # j => pid'[i] # pid'[j]
    /\ \A i \in Instances : life'[i] # "unborn" => group'[i] \in Pids

LEMMA SystemPersist ==
    ASSUME TypeOK, Remembered, SystemStep PROVE Persist
<1> USE DEF TypeOK, Remembered, Present, Running, Persist
<1>1. ASSUME NEW i \in Instances, NEW p \in Pids, Spawn(i, p) PROVE Persist
  <2>1. PICK g \in {p} \cup {group[j] : j \in Running} :
           group' = [group EXCEPT ![i] = g]
    BY <1>1 DEF Spawn
  <2>2. g \in Pids
    BY <2>1
  <2>3. /\ life[i] = "unborn"
        /\ \A j \in Present : p # pid[j]
        /\ life' = [life EXCEPT ![i] = "running"]
        /\ pid' = [pid EXCEPT ![i] = p]
    BY <1>1 DEF Spawn
  <2> QED BY <2>1, <2>2, <2>3
<1>2. ASSUME NEW i \in Instances, ExitOf(i) PROVE Persist
  BY <1>2 DEF ExitOf
<1>3. ASSUME NEW i \in Instances, Reap(i) PROVE Persist
  BY <1>3 DEF Reap
<1> QED BY <1>1, <1>2, <1>3 DEF SystemStep

(* What the daemon remembers is not disturbed by what persists. *)
LEMMA SystemInv ==
    ASSUME TypeOK, RemediationInv, SystemStep PROVE RemediationInv'
<1>1. Persist
  BY SystemPersist DEF RemediationInv
<1>2. UNCHANGED <<stage, todo, pgids, current, outcomes, ended_groups,
                 elders, signalled>>
  BY DEF SystemStep, daemon
<1>3. \A i \in elders :
        /\ pid'[i] = pid[i] /\ group'[i] = group[i]
        /\ life'[i] # "unborn"
        /\ life'[i] = "running" => life[i] = "running"
  BY <1>1 DEF Persist, RemediationInv, Remembered, TypeOK
<1>4. Targets' = Targets /\ Targets \subseteq elders
  BY <1>2 DEF Targets
<1>5. TargetGroups' = TargetGroups
  BY <1>3, <1>4 DEF TargetGroups
<1>6. Remembered'
  BY <1>1, <1>2, <1>3, <1>4, <1>5 DEF Persist, RemediationInv, Remembered, TypeOK
<1>7. EldersSpared'
  BY <1>2, <1>3, <1>5 DEF RemediationInv, EldersSpared
<1>8. OutcomesTrue'
  <2> SUFFICES ASSUME NEW i \in Instances,
                      Results(i) \cap ({"already_exited"} \cup Terminated) # {}
               PROVE  life'[i] \in {"zombie", "gone"}
    BY <1>2 DEF OutcomesTrue, Results
  <2>1. life[i] \in {"zombie", "gone"}
    BY DEF RemediationInv, OutcomesTrue
  <2>2. life'[i] # "unborn" /\ life'[i] # "running"
    BY <2>1, <1>1 DEF Persist
  <2>3. life'[i] \in {"unborn", "running", "zombie", "gone"}
    BY SystemType DEF TypeOK
  <2> QED BY <2>2, <2>3
<1>9. FailuresAreRaces'
  <2> SUFFICES ASSUME stage = "failed", NEW i \in Meant'
               PROVE  life'[i] # "running"
    BY <1>2 DEF FailuresAreRaces
  <2>1. i \in elders
    BY <1>2 DEF Meant, RemediationInv, Remembered, Targets
  <2>2. i \in Meant
    BY <2>1, <1>2, <1>3 DEF Meant
  <2> QED BY <2>1, <2>2, <1>3 DEF RemediationInv, FailuresAreRaces
<1>10. GroupsAccounted'
  <2> SUFFICES ASSUME stage # "idle", NEW i \in elders \ Foreign,
                      life'[i] = "running", group'[i] \in TargetGroups
               PROVE  group'[i] \in pgids \cup {group'[t] : t \in todo \cap Accepted}
    BY <1>2, <1>5 DEF GroupsAccounted
  <2>1. group[i] \in pgids \cup {group[t] : t \in todo \cap Accepted}
    BY <1>3 DEF RemediationInv, GroupsAccounted
  <2>2. todo \subseteq elders
    BY DEF RemediationInv, Remembered
  <2> QED BY <1>3, <2>1, <2>2
<1>11. GroupsEnded'
  BY <1>2, <1>3, <1>5 DEF RemediationInv, GroupsEnded
<1> QED BY <1>6, <1>7, <1>8, <1>9, <1>10, <1>11 DEF RemediationInv

(* An answer about what runs no more; the group of a process is kept. *)
LEMMA AnswerInv ==
    ASSUME TypeOK, RemediationInv,
           stage \in {"probe", "wait", "kill"},
           NEW result \in {"already_exited"} \cup Terminated,
           Answer(result),
           Persist,
           UNCHANGED <<pid, group, elders>>,
           life' \in [Instances -> {"unborn", "running", "zombie", "gone"}],
           EldersSpared' /\ signalled' \subseteq Instances,
           \A i \in Meant : life'[i] # "running"
    PROVE  TypeOK' /\ RemediationInv'
<1>1. /\ stage' = "next" /\ current' = NoRequest
      /\ current \in Request
  BY DEF Answer, TypeOK, RemediationInv, Remembered
<1>2. TargetGroups' = TargetGroups /\ Targets' = Targets /\ Targets \subseteq elders
  BY DEF TargetGroups, Targets
<1>3. TargetGroups \subseteq Pids
  BY DEF TargetGroups, Targets, RemediationInv, Remembered, TypeOK
<1>4. \A i \in elders : /\ life'[i] # "unborn"
                        /\ life'[i] = "running" => life[i] = "running"
  BY DEF Persist, RemediationInv, Remembered, TypeOK
<1>5. CASE current.kind = "process"
  <2>1. current.for \in Targets \cap todo
    BY <1>5 DEF RemediationInv, Remembered
  <2>2. group[current.for] \in TargetGroups
    BY <2>1 DEF TargetGroups
  <2>3. /\ Handled(current.for, result)
        /\ pgids' = pgids \cup {group[current.for]}
        /\ ended_groups' = ended_groups
    BY <1>5 DEF Answer
  <2>4. PICK i0 \in Instances : i0 = current.for
    BY <2>1 DEF Targets, TypeOK
  <2>5. result \in ProcessRemediationOutcome
    BY DEF ProcessRemediationOutcome
  <2>6. /\ outcomes' \in [Instances -> Seq(ProcessRemediationOutcome)]
        /\ Results(i0)' = Results(i0) \cup {result}
        /\ \A j \in Instances : j # i0 => Results(j)' = Results(j)
        /\ todo' \subseteq todo /\ todo \ {i0} \subseteq todo'
    BY <2>3, <2>4, <2>5, EntryDone
  <2>7. TypeOK'
    BY <1>1, <1>3, <2>2, <2>3, <2>6 DEF TypeOK
  <2>8. Remembered'
    BY <1>1, <1>2, <2>2, <2>3, <2>4, <2>6, <1>4
    DEF Persist, RemediationInv, Remembered, NoRequest
  <2>9. OutcomesTrue'
    <3>1. ASSUME NEW i \in Instances, i # i0,
                 Results(i) \cap ({"already_exited"} \cup Terminated) # {}
          PROVE  life'[i] \in {"zombie", "gone"}
      BY <3>1 DEF Persist, RemediationInv, OutcomesTrue
    <3>2. life'[i0] \in {"zombie", "gone"}
      BY <1>4, <1>5, <2>1, <2>4, <1>2 DEF Meant, TypeOK
    <3> QED BY <2>6, <3>1, <3>2 DEF OutcomesTrue
  <2>10. GroupsAccounted'
    <3> SUFFICES ASSUME NEW i \in elders \ Foreign,
                        life'[i] = "running", group[i] \in TargetGroups
                 PROVE  group[i] \in pgids' \cup {group[t] : t \in todo' \cap Accepted}
      BY <1>2 DEF GroupsAccounted
    <3>1. group[i] \in pgids \cup {group[t] : t \in todo \cap Accepted}
      BY <1>4 DEF RemediationInv, GroupsAccounted
    <3> QED BY <2>3, <2>4, <2>6, <3>1
  <2> QED BY <1>1, <2>7, <2>8, <2>9, <2>10
          DEF RemediationInv, FailuresAreRaces, GroupsEnded
<1>6. CASE current.kind # "process"
  <2>1. /\ current.kind = "group"
        /\ current.for \in pgids /\ todo = {}
    BY <1>1, <1>6 DEF Request, RemediationInv, Remembered
  <2>2. /\ todo' = todo /\ outcomes' = outcomes
        /\ pgids' = pgids \ {current.for}
        /\ ended_groups' \in {ended_groups, ended_groups \cup {current.for}}
    BY <1>6 DEF Answer
  <2>3. TypeOK'
    BY <1>1, <2>1, <2>2 DEF TypeOK
  <2>4. Remembered'
    BY <1>1, <1>2, <1>4, <2>2 DEF Persist, RemediationInv, Remembered, NoRequest
  <2>5. OutcomesTrue'
    BY <2>2 DEF Persist, RemediationInv, OutcomesTrue, Results
  <2>6. GroupsAccounted'
    <3> SUFFICES ASSUME NEW i \in elders \ Foreign,
                        life'[i] = "running", group[i] \in TargetGroups
                 PROVE  group[i] \in pgids' \cup {group[t] : t \in todo' \cap Accepted}
      BY <1>2 DEF GroupsAccounted
    <3>1. group[i] \in pgids \cup {group[t] : t \in todo \cap Accepted}
      BY <1>4 DEF RemediationInv, GroupsAccounted
    <3>2. group[i] # current.for
      BY <1>6 DEF Meant
    <3> QED BY <2>2, <3>1, <3>2
  <2> QED BY <1>1, <2>3, <2>4, <2>5, <2>6
          DEF RemediationInv, FailuresAreRaces, GroupsEnded
<1> QED BY <1>5, <1>6

(* Whom a signal reaches: everyone it is meant for that still runs... *)
LEMMA MeantReached ==
    ASSUME TypeOK, RemediationInv,
           stage \in {"probe", "term", "wait", "kill"},
           NEW i \in Meant, life[i] = "running"
    PROVE  i \in Reachable
<1>1. CASE current.kind = "process"
  <2>1. i = current.for /\ i \in Accepted /\ i \in Instances
    BY <1>1 DEF Meant, RemediationInv, Remembered, Targets, TypeOK
  <2> QED BY <1>1, <2>1, OwnershipAssumption DEF Reachable, Addressed, Present
<1>2. CASE current.kind # "process"
  BY <1>2 DEF Meant, Reachable, Addressed, Present, TypeOK
<1> QED BY <1>1, <1>2

(* ... and of the processes of the inventory no one outside their groups. *)
LEMMA EldersReached ==
    ASSUME TypeOK, RemediationInv,
           stage \in {"probe", "term", "wait", "kill"},
           NEW i \in Reachable \cap elders
    PROVE  group[i] \in TargetGroups
<1>1. CASE current.kind = "process"
  <2>1. current.for \in Targets
    BY <1>1 DEF RemediationInv, Remembered
  <2>2. pid[i] = pid[current.for]
    BY <1>1 DEF Reachable, Addressed
  <2>3. i = current.for
    BY <2>1, <2>2 DEF RemediationInv, Remembered, Targets
  <2> QED BY <2>1, <2>3 DEF TargetGroups
<1>2. CASE current.kind # "process"
  <2>1. current \in Request \cup {NoRequest} /\ current # NoRequest
    BY DEF TypeOK, RemediationInv, Remembered
  <2>2. current.kind = "group"
    BY <1>2, <2>1 DEF Request
  <2>3. current.for \in TargetGroups
    BY <2>2 DEF RemediationInv, Remembered
  <2> QED BY <1>2, <2>3 DEF Reachable, Addressed
<1> QED BY <1>1, <1>2

(* A signal is sent: whom it ends is dead, and no one else changes. *)
LEMMA SignalInv ==
    ASSUME TypeOK, RemediationInv,
           stage \in {"probe", "term", "wait", "kill"},
           UNCHANGED <<pid, group, elders>>,
           signalled' = signalled \cup Reachable
    PROVE  EldersSpared' /\ signalled' \subseteq Instances
<1>1. TargetGroups' = TargetGroups
  BY DEF TargetGroups, Targets
<1>2. ASSUME NEW i \in signalled' \cap elders PROVE group[i] \in TargetGroups
  BY <1>2, EldersReached DEF RemediationInv, EldersSpared
<1>3. Reachable \subseteq Instances
  BY DEF Reachable, Addressed, Present
<1> QED BY <1>1, <1>2, <1>3 DEF EldersSpared, TypeOK

(* The steps of the daemon that touch no process. *)
LEMMA QuietPersist ==
    ASSUME TypeOK, Remembered, UNCHANGED system PROVE Persist
BY DEF system, Persist, Remembered, TypeOK, Present

LEMMA DaemonInv ==
    ASSUME TypeOK, RemediationInv, DaemonStep PROVE TypeOK' /\ RemediationInv'
<1>1. CASE TakeInventory
  <2>1. Targets' = todo' \cap Accepted /\ todo' = Present \cap Matching
    BY <1>1 DEF TakeInventory, from_inventory, Targets
  <2>2. /\ signalled = {} /\ pgids = {} /\ current = NoRequest
    BY <1>1 DEF TakeInventory, RemediationInv, Remembered, TargetGroups, Targets
  <2>3. TypeOK'
    BY <1>1 DEF TakeInventory, from_inventory, TypeOK, system, Present
  <2>4. Present' = Present /\ UNCHANGED <<life, pid, group, pgids, current, outcomes,
                              ended_groups, signalled>>
    BY <1>1 DEF TakeInventory, system, Present
  <2>5. Remembered'
    BY <1>1, <2>1, <2>2, <2>4 DEF TakeInventory, RemediationInv, Remembered, NoRequest, Present
  <2>6. GroupsAccounted'
    BY <2>1, <2>4 DEF GroupsAccounted, TargetGroups
  <2> QED BY <1>1, <2>2, <2>3, <2>4, <2>5, <2>6
          DEF TakeInventory, Results, RemediationInv, EldersSpared, OutcomesTrue,
              FailuresAreRaces, GroupsEnded
<1>2. ASSUME NEW i \in Instances, Reject(i) PROVE TypeOK' /\ RemediationInv'
  <2>1. UNCHANGED <<life, pid, group, stage, pgids, current, ended_groups,
                 elders, signalled>>
    BY <1>2 DEF Reject, system
  <2>2. /\ stage = "next" /\ i \notin Accepted
        /\ Handled(i, "rejected")
    BY <1>2 DEF Reject
  <2>3. /\ outcomes' \in [Instances -> Seq(ProcessRemediationOutcome)]
        /\ Results(i)' = Results(i) \cup {"rejected"}
        /\ \A j \in Instances : j # i => Results(j)' = Results(j)
        /\ todo' \subseteq todo /\ todo \ {i} \subseteq todo'
    BY <2>2, EntryDone DEF ProcessRemediationOutcome
  <2>4. current = NoRequest
    BY <2>2 DEF RemediationInv, Remembered
  <2>5. TargetGroups' = TargetGroups /\ Targets' = Targets /\ Present' = Present
    BY <2>1 DEF TargetGroups, Targets, Present
  <2>6. TypeOK'
    BY <2>1, <2>3 DEF TypeOK
  <2>7. Remembered'
    BY <2>1, <2>2, <2>4, <2>5, <2>3 DEF RemediationInv, Remembered, NoRequest
  <2>8. todo' \cap Accepted = todo \cap Accepted
    BY <2>2, <2>3
  <2>9. OutcomesTrue'
    BY <2>1, <2>3 DEF RemediationInv, OutcomesTrue, Terminated
  <2> QED BY <2>1, <2>2, <2>5, <2>6, <2>7, <2>8, <2>9
          DEF RemediationInv, EldersSpared, FailuresAreRaces, GroupsAccounted,
              GroupsEnded
<1>3. ASSUME NEW i \in Instances, BeginProcess(i) PROVE TypeOK' /\ RemediationInv'
  <2>1. UNCHANGED <<life, pid, group, todo, pgids, outcomes, ended_groups,
                 elders, signalled>>
    BY <1>3 DEF BeginProcess, system
  <2>2. /\ stage' = "probe" /\ i \in todo \cap Accepted
        /\ current' = [kind |-> "process", for |-> i]
    BY <1>3 DEF BeginProcess, InTurn
  <2>3. TargetGroups' = TargetGroups /\ Targets' = Targets /\ Present' = Present
    BY <2>1 DEF TargetGroups, Targets, Present
  <2>4. TypeOK'
    BY <2>1, <2>2 DEF TypeOK, Request
  <2>5. i \in Targets
    BY <2>2 DEF RemediationInv, Remembered, Targets
  <2>6. Remembered'
    BY <2>1, <2>2, <2>3, <2>5 DEF RemediationInv, Remembered, NoRequest
  <2>7. stage # "idle"
    BY <1>3 DEF BeginProcess
  <2> QED BY <2>1, <2>2, <2>3, <2>4, <2>6, <2>7
          DEF RemediationInv, EldersSpared, OutcomesTrue, Results, FailuresAreRaces,
              GroupsAccounted, GroupsEnded
<1>4. ASSUME NEW g \in Pids, BeginGroup(g) PROVE TypeOK' /\ RemediationInv'
  <2>1. UNCHANGED <<life, pid, group, todo, pgids, outcomes, ended_groups,
                 elders, signalled>>
    BY <1>4 DEF BeginGroup, system
  <2>2. /\ stage' = "probe" /\ g \in pgids /\ todo = {}
        /\ current' = [kind |-> "group", for |-> g]
    BY <1>4 DEF BeginGroup
  <2>3. TargetGroups' = TargetGroups /\ Targets' = Targets /\ Present' = Present
    BY <2>1 DEF TargetGroups, Targets, Present
  <2>4. TypeOK'
    BY <2>1, <2>2 DEF TypeOK, Request
  <2>5. Remembered'
    BY <2>1, <2>2, <2>3 DEF RemediationInv, Remembered, NoRequest
  <2>6. stage # "idle"
    BY <1>4 DEF BeginGroup
  <2> QED BY <2>1, <2>2, <2>3, <2>4, <2>5, <2>6
          DEF RemediationInv, EldersSpared, OutcomesTrue, Results, FailuresAreRaces,
              GroupsAccounted, GroupsEnded
<1>5. CASE AllDone
  <2>1. UNCHANGED <<life, pid, group, todo, pgids, current, outcomes, ended_groups,
                 elders, signalled>>
    BY <1>5 DEF AllDone, system
  <2>2. stage = "next" /\ stage' = "done" /\ todo = {} /\ pgids = {}
    BY <1>5 DEF AllDone
  <2>3. TargetGroups' = TargetGroups /\ Targets' = Targets /\ Present' = Present
    BY <2>1 DEF TargetGroups, Targets, Present
  <2>4. TypeOK'
    BY <2>1, <2>2 DEF TypeOK
  <2>5. Remembered'
    BY <2>1, <2>2, <2>3 DEF RemediationInv, Remembered
  <2>6. GroupsEnded'
    BY <2>1, <2>2, <2>3 DEF RemediationInv, GroupsAccounted, GroupsEnded
  <2> QED BY <2>1, <2>2, <2>3, <2>4, <2>5, <2>6
          DEF RemediationInv, EldersSpared, OutcomesTrue, Results, FailuresAreRaces,
              GroupsAccounted
<1>6. CASE Probe
  <2>1. UNCHANGED <<life, pid, group, elders, signalled>> /\ stage = "probe"
    BY <1>6 DEF Probe, system
  <2>2. TargetGroups' = TargetGroups /\ Targets' = Targets /\ Present' = Present
    BY <2>1 DEF TargetGroups, Targets, Present
  <2>3. EldersSpared' /\ signalled' \subseteq Instances
    BY <2>1, <2>2 DEF RemediationInv, EldersSpared, TypeOK
  <2>4. CASE IsAlive
    <3>1. stage' = "term" /\ UNCHANGED <<todo, pgids, current, outcomes, ended_groups>>
      BY <1>6, <2>4 DEF Probe, progress
    <3>2. TypeOK'
      BY <2>1, <3>1 DEF TypeOK
    <3>3. Remembered'
      BY <2>1, <2>2, <3>1 DEF RemediationInv, Remembered
    <3> QED BY <2>1, <2>2, <2>3, <3>1, <3>2, <3>3
            DEF RemediationInv, OutcomesTrue, Results, FailuresAreRaces, GroupsAccounted,
                GroupsEnded
  <2>5. CASE ~ IsAlive
    <3>1. Answer("already_exited")
      BY <1>6, <2>5 DEF Probe, progress
    <3>2. \A i \in Meant : life'[i] # "running"
      BY <2>1, <2>5, MeantReached DEF IsAlive, Reachable
    <3>3. Persist
      BY <2>1, QuietPersist DEF RemediationInv, system
    <3> QED BY <2>1, <2>3, <3>1, <3>2, <3>3, AnswerInv DEF TypeOK
  <2> QED BY <2>4, <2>5
<1>7. CASE SendTerm
  <2>1. /\ UNCHANGED <<life, pid, group, elders, todo, pgids, current, outcomes,
                       ended_groups>>
        /\ stage = "term"
        /\ signalled' = signalled \cup Reachable
    BY <1>7 DEF SendTerm, system, Fail, progress
  <2>2. TargetGroups' = TargetGroups /\ Targets' = Targets /\ Present' = Present
    BY <2>1 DEF TargetGroups, Targets, Present
  <2>3. EldersSpared' /\ signalled' \subseteq Instances
    BY <2>1, SignalInv
  <2>4. stage' \in {"wait", "failed"} /\ (stage' = "failed" => Reachable = {})
    BY <1>7 DEF SendTerm, Fail
  <2>5. TypeOK'
    BY <2>1, <2>3, <2>4 DEF TypeOK
  <2>6. Remembered'
    BY <2>1, <2>2, <2>4 DEF RemediationInv, Remembered
  <2>7. FailuresAreRaces'
    <3>1. Meant' = Meant
      BY <2>1 DEF Meant
    <3> QED BY <2>1, <2>4, <3>1, MeantReached DEF FailuresAreRaces
  <2> QED BY <2>1, <2>2, <2>3, <2>4, <2>5, <2>6, <2>7
          DEF RemediationInv, OutcomesTrue, Results, GroupsAccounted, GroupsEnded
<1>8. CASE WaitSeesExit
  <2>1. UNCHANGED <<life, pid, group, elders, signalled>> /\ stage = "wait"
    BY <1>8 DEF WaitSeesExit, system
  <2>2. EldersSpared' /\ signalled' \subseteq Instances
    BY <2>1 DEF RemediationInv, EldersSpared, TypeOK, TargetGroups, Targets
  <2>3. Answer("terminated_gracefully") /\ ~ IsAlive
    BY <1>8 DEF WaitSeesExit
  <2>4. \A i \in Meant : life'[i] # "running"
    BY <2>1, <2>3, MeantReached DEF IsAlive, Reachable
  <2>5. Persist
    BY <2>1, QuietPersist DEF RemediationInv, system
  <2>6. "terminated_gracefully" \in Terminated
    BY DEF Terminated
  <2> QED BY <2>1, <2>2, <2>3, <2>4, <2>5, <2>6, AnswerInv DEF TypeOK
<1>9. CASE WaitTimesOut
  <2>1. /\ UNCHANGED <<life, pid, group, elders, todo, pgids, current, outcomes,
                       ended_groups, signalled>>
        /\ stage = "wait" /\ stage' = "kill"
    BY <1>9 DEF WaitTimesOut, system
  <2>2. TargetGroups' = TargetGroups /\ Targets' = Targets /\ Present' = Present
    BY <2>1 DEF TargetGroups, Targets, Present
  <2>3. TypeOK'
    BY <2>1 DEF TypeOK
  <2>4. Remembered'
    BY <2>1, <2>2 DEF RemediationInv, Remembered
  <2> QED BY <2>1, <2>2, <2>3, <2>4
          DEF RemediationInv, EldersSpared, OutcomesTrue, Results, FailuresAreRaces,
              GroupsAccounted, GroupsEnded
<1>10. CASE SendKill
  <2>1. /\ UNCHANGED <<pid, group, elders>>
        /\ stage = "kill"
        /\ signalled' = signalled \cup Reachable
        /\ life' = [i \in Instances |-> IF i \in Reachable /\ life[i] = "running"
                                        THEN "zombie" ELSE life[i]]
    BY <1>10 DEF SendKill, Killed
  <2>2. EldersSpared' /\ signalled' \subseteq Instances
    BY <2>1, SignalInv
  <2>3. \A i \in Meant : life'[i] # "running"
    <3>1. Meant \subseteq Instances
      BY <2>1 DEF Meant, TypeOK, RemediationInv, Remembered, Targets, Request
    <3> QED BY <2>1, <3>1, MeantReached
  <2>4. life' \in [Instances -> {"unborn", "running", "zombie", "gone"}]
    BY <2>1 DEF TypeOK
  <2>5. Persist
    BY <2>1 DEF Persist, RemediationInv, Remembered, Present, TypeOK
  <2>6. CASE Reachable = {}
    <3>1. stage' = "failed" /\ UNCHANGED <<todo, pgids, current, outcomes, ended_groups>>
      BY <1>10, <2>6 DEF SendKill, Fail, progress
    <3>2. life' = life
      BY <2>1, <2>6 DEF TypeOK
    <3>3. TargetGroups' = TargetGroups /\ Targets' = Targets /\ Present' = Present
      BY <2>1, <3>2 DEF TargetGroups, Targets, Present
    <3>4. TypeOK'
      BY <2>1, <2>2, <3>1, <3>2 DEF TypeOK
    <3>5. Remembered'
      BY <2>1, <3>1, <3>2, <3>3 DEF RemediationInv, Remembered
    <3>6. FailuresAreRaces'
      <4>1. Meant' = Meant
        BY <2>1, <3>1 DEF Meant
      <4> QED BY <2>3, <4>1 DEF FailuresAreRaces
    <3> QED BY <2>1, <2>2, <3>1, <3>2, <3>3, <3>4, <3>5, <3>6
            DEF RemediationInv, OutcomesTrue, Results, GroupsAccounted, GroupsEnded
  <2>7. CASE Reachable # {}
    <3>1. Answer("terminated_forced") /\ "terminated_forced" \in Terminated
      BY <1>10, <2>7 DEF SendKill, Terminated
    <3> QED BY <2>1, <2>2, <2>3, <2>4, <2>5, <3>1, AnswerInv
  <2> QED BY <2>6, <2>7
<1> QED BY <1>1, <1>2, <1>3, <1>4, <1>5, <1>6, <1>7, <1>8, <1>9, <1>10 DEF DaemonStep

LEMMA StutterInv ==
    TypeOK /\ RemediationInv /\ UNCHANGED vars => TypeOK' /\ RemediationInv'
BY DEF vars, system, daemon, TypeOK, RemediationInv, Remembered, EldersSpared,
       OutcomesTrue, Results, FailuresAreRaces, GroupsAccounted, GroupsEnded, Meant,
       TargetGroups, Targets, Present

LEMMA InitInv == Init => TypeOK /\ RemediationInv
<1> SUFFICES ASSUME Init PROVE TypeOK /\ RemediationInv
  OBVIOUS
<1>1. TypeOK
  BY DEF Init, Empty, TypeOK
<1>2. /\ \A i \in Instances : life[i] = "unborn" /\ Results(i) = {}
      /\ Present = {} /\ TargetGroups = {}
  BY DEF Init, Empty, Present, TargetGroups, Targets, Results
<1>3. Remembered
  BY <1>2 DEF Init, Remembered, NoRequest
<1> QED BY <1>1, <1>2, <1>3
        DEF Init, RemediationInv, EldersSpared, OutcomesTrue, Results, FailuresAreRaces,
            GroupsAccounted, GroupsEnded

LEMMA Inductive == Spec => [](TypeOK /\ RemediationInv)
<1>1. TypeOK /\ RemediationInv /\ [Next]_vars => TypeOK' /\ RemediationInv'
  BY SystemType, SystemInv, DaemonInv, StutterInv DEF Next
<1> QED BY <1>1, InitInv, PTL DEF Spec

(* The types of the cleanup's state, for any number of processes. *)
THEOREM RemediationTypeCorrect == Spec => []TypeOK
BY Inductive, PTL

(* remediate_processes: what the daemon remembers of an inventory stays     *)
(* true of the processes in it until the cleanup ends.                      *)
THEOREM RemediationInvHolds == Spec => []RemediationInv
BY Inductive, PTL

(* remediation.rs: however pids are reused, no process that was there when  *)
(* the inventory was taken gets a signal but those in the groups of the     *)
(* accepted processes of the session.                                       *)
THEOREM EldersSparedHolds == Spec => []EldersSpared
<1>1. RemediationInv => EldersSpared
  BY DEF RemediationInv
<1> QED BY <1>1, Inductive, PTL

(* remediation.rs: an outcome that calls a process ended is never wrong. *)
THEOREM OutcomesTrueHolds == Spec => []OutcomesTrue
<1>1. RemediationInv => OutcomesTrue
  BY DEF RemediationInv
<1> QED BY <1>1, Inductive, PTL

(* The errors of kill and killpg: only what has exited cannot be signalled. *)
THEOREM FailuresAreRacesHolds == Spec => []FailuresAreRaces
<1>1. RemediationInv => FailuresAreRaces
  BY DEF RemediationInv
<1> QED BY <1>1, Inductive, PTL

(* remediate_processes: a cleanup that ends leaves no process running of    *)
(* the groups that the session's processes had in the inventory.            *)
THEOREM GroupsEndedHolds == Spec => []GroupsEnded
<1>1. RemediationInv => GroupsEnded
  BY DEF RemediationInv
<1> QED BY <1>1, Inductive, PTL

-----------------------------------------------------------------------------
(* Every signal is answered for: the request in hand has sent it, or its    *)
(* answer has been noted.                                                   *)

(* Whom a signal reaches of the processes of the inventory. *)
LEMMA EldersInHand ==
    ASSUME TypeOK, RemediationInv, stage \in {"term", "kill"},
           NEW i \in Reachable \cap elders
    PROVE  IF current.kind = "process" THEN i = current.for
           ELSE group[i] = current.for
<1>1. CASE current.kind = "process"
  <2>1. current.for \in elders
    BY <1>1 DEF RemediationInv, Remembered, Targets
  <2>2. pid[i] = pid[current.for]
    BY <1>1 DEF Reachable, Addressed
  <2> QED BY <1>1, <2>1, <2>2 DEF RemediationInv, Remembered
<1>2. CASE current.kind # "process"
  BY <1>2 DEF Reachable, Addressed
<1> QED BY <1>1, <1>2

(* An answer notes what was in hand. *)
LEMMA AnswerAccounts ==
    ASSUME TypeOK, RemediationInv, SignalsAccounted,
           stage \in {"probe", "wait", "kill"},
           NEW result \in Terminated \cup {"already_exited"},
           Answer(result),
           UNCHANGED <<group, elders>>,
           \A i \in signalled' \cap elders :
               \/ i \in signalled /\ ~ InHand(i)
               \/ /\ result \in Terminated
                  /\ IF current.kind = "process" THEN i = current.for
                     ELSE group[i] = current.for
    PROVE  SignalsAccounted'
<1>1. CASE current.kind = "process"
  <2>1. PICK i0 \in Instances : i0 = current.for
    BY <1>1 DEF RemediationInv, Remembered, Targets, TypeOK
  <2>2. /\ Handled(i0, result)
        /\ ended_groups' = ended_groups
        /\ stage' = "next"
    BY <1>1, <2>1 DEF Answer
  <2>3. result \in ProcessRemediationOutcome
    BY DEF ProcessRemediationOutcome
  <2>4. /\ Results(i0)' = Results(i0) \cup {result}
        /\ \A j \in Instances : j # i0 => Results(j)' = Results(j)
    BY <2>2, <2>3, EntryDone
  <2>5. \A j \in Instances : Results(j) \subseteq Results(j)'
    BY <2>4
  <2>6. ASSUME NEW i \in signalled' \cap elders
        PROVE  Results(i)' \cap Terminated # {} \/ group[i] \in ended_groups
    <3>1. i \in Instances
      BY DEF TypeOK
    <3>2. CASE i \in signalled /\ ~ InHand(i)
      BY <2>5, <3>1, <3>2 DEF SignalsAccounted
    <3>3. CASE result \in Terminated /\ i = current.for
      BY <2>1, <2>4, <3>3
    <3> QED BY <1>1, <3>2, <3>3
  <2> QED BY <2>2, <2>6 DEF SignalsAccounted, Terminated
<1>2. CASE current.kind # "process"
  <2>1. /\ \A j \in Instances : Results(j)' = Results(j)
        /\ stage' = "next"
        /\ ended_groups' = IF result = "already_exited" THEN ended_groups
                           ELSE ended_groups \cup {current.for}
    BY <1>2 DEF Answer, Results
  <2>2. ASSUME NEW i \in signalled' \cap elders
        PROVE  Results(i) \cap Terminated # {} \/ group[i] \in ended_groups'
    <3>1. CASE i \in signalled /\ ~ InHand(i)
      BY <2>1, <3>1 DEF SignalsAccounted
    <3>2. CASE result \in Terminated /\ group[i] = current.for
      BY <2>1, <3>2 DEF Terminated
    <3> QED BY <1>2, <3>1, <3>2
  <2>3. signalled' \cap elders \subseteq Instances
    BY DEF TypeOK
  <2> QED BY <2>1, <2>2, <2>3 DEF SignalsAccounted, Terminated
<1> QED BY <1>1, <1>2

LEMMA AccountedInductive ==
    ASSUME TypeOK, RemediationInv, SignalsAccounted, [Next]_vars
    PROVE  SignalsAccounted'
<1> USE DEF SignalsAccounted
<1>1. CASE TakeInventory
  <2>1. signalled' = {} /\ stage = "idle"
    BY <1>1 DEF TakeInventory, RemediationInv, Remembered
  <2>2. stage' = "next"
    BY <1>1 DEF TakeInventory
  <2> QED BY <2>1, <2>2
<1>2. ASSUME NEW i \in Instances, Reject(i) PROVE SignalsAccounted'
  <2>1. /\ stage = "next" /\ stage' = "next" /\ i \in todo
        /\ Handled(i, "rejected")
        /\ UNCHANGED <<group, elders, signalled, ended_groups>>
    BY <1>2 DEF Reject, system, InTurn
  <2>2. \A j \in Instances : Results(j) \subseteq Results(j)'
    BY <1>2, <2>1, EntryDone DEF ProcessRemediationOutcome
  <2>3. signalled \cap elders \subseteq Instances
    BY DEF TypeOK
  <2>4. ASSUME NEW j \in signalled \cap elders
        PROVE  Results(j)' \cap Terminated # {} \/ group[j] \in ended_groups
    BY <2>1, <2>2, <2>3 DEF InHand
  <2> QED BY <2>1, <2>4 DEF Terminated
<1>3. ASSUME NEW i \in Instances, BeginProcess(i) PROVE SignalsAccounted'
  BY <1>3 DEF BeginProcess, system, InHand, Results
<1>4. ASSUME NEW g \in Pids, BeginGroup(g) PROVE SignalsAccounted'
  BY <1>4 DEF BeginGroup, system, InHand, Results
<1>5. CASE AllDone
  BY <1>5 DEF AllDone, system, InHand, Results
<1>6. CASE Probe
  <2>1. UNCHANGED <<group, elders, signalled>> /\ stage = "probe"
    BY <1>6 DEF Probe, system
  <2>2. CASE IsAlive
    BY <1>6, <2>1, <2>2 DEF Probe, progress, InHand, Results
  <2>3. CASE ~ IsAlive
    BY <1>6, <2>1, <2>3, AnswerAccounts DEF Probe, InHand
  <2> QED BY <2>2, <2>3
<1>7. CASE SendTerm
  <2>1. /\ UNCHANGED <<group, elders, todo, current, outcomes, ended_groups>>
        /\ stage = "term" /\ stage' \in {"wait", "failed"}
        /\ signalled' = signalled \cup Reachable
    BY <1>7 DEF SendTerm, system, Fail, progress
  <2>2. ASSUME NEW i \in signalled \cap elders
        PROVE  Results(i) \cap Terminated # {} \/ group[i] \in ended_groups
    BY <2>1 DEF InHand
  <2>3. ASSUME stage' = "wait", NEW i \in Reachable \cap elders PROVE InHand(i)'
    BY <2>1, <2>3, EldersInHand DEF InHand
  <2> QED BY <2>1, <2>2, <2>3 DEF Results
<1>8. CASE WaitSeesExit
  <2>1. /\ UNCHANGED <<group, elders, signalled>> /\ stage = "wait"
        /\ Answer("terminated_gracefully")
    BY <1>8 DEF WaitSeesExit, system
  <2>2. "terminated_gracefully" \in Terminated
    BY DEF Terminated
  <2> QED BY <2>1, <2>2, AnswerAccounts DEF InHand
<1>9. CASE WaitTimesOut
  BY <1>9 DEF WaitTimesOut, system, InHand, Results
<1>10. CASE SendKill
  <2>1. /\ UNCHANGED <<group, elders>> /\ stage = "kill"
        /\ signalled' = signalled \cup Reachable
    BY <1>10 DEF SendKill
  <2>2. CASE Reachable = {}
    BY <1>10, <2>1, <2>2 DEF SendKill, Fail, progress
  <2>3. CASE Reachable # {}
    <3>1. Answer("terminated_forced") /\ "terminated_forced" \in Terminated
      BY <1>10, <2>3 DEF SendKill, Terminated
    <3> QED BY <2>1, <3>1, EldersInHand, AnswerAccounts DEF InHand
  <2> QED BY <2>2, <2>3
<1>11. CASE SystemStep
  <2>1. UNCHANGED <<stage, todo, current, outcomes, ended_groups, elders, signalled>>
    BY <1>11 DEF SystemStep, daemon
  <2>2. \A i \in elders : group'[i] = group[i]
    BY <1>11, SystemPersist DEF Persist, RemediationInv, Remembered, TypeOK
  <2> QED BY <2>1, <2>2 DEF InHand, Results
<1>12. CASE UNCHANGED vars
  BY <1>12 DEF vars, system, daemon, InHand, Results
<1> QED BY <1>1, <1>2, <1>3, <1>4, <1>5, <1>6, <1>7, <1>8, <1>9, <1>10, <1>11,
           <1>12 DEF Next, DaemonStep

LEMMA AccountedHolds == Spec => [](TypeOK /\ RemediationInv /\ SignalsAccounted)
<1>1. Init => SignalsAccounted
  BY DEF Init, SignalsAccounted
<1>2. TypeOK /\ RemediationInv /\ SignalsAccounted /\ [Next]_vars
          => SignalsAccounted'
  BY AccountedInductive
<1> QED BY <1>1, <1>2, Inductive, PTL DEF Spec

-----------------------------------------------------------------------------
(* Every entry is accounted for, and whom a wait has seen exit comes back   *)
(* only in the shape of a younger process with the same pid.                *)

LEMMA ReusedPersists ==
    ASSUME TypeOK, Persist, UNCHANGED elders,
           NEW i \in Instances, life[i] # "unborn", Reused(i)
    PROVE  Reused(i)'
BY DEF Reused, Persist, TypeOK

(* Steps that are done with no entry... *)
LEMMA EntriesKept ==
    ASSUME TypeOK, RemediationInv, EntriesAccounted, Persist,
           UNCHANGED <<todo, outcomes, elders>>,
           stage' \in {"term", "wait", "kill"} /\ current'.kind = "process" =>
               /\ current' = current
               /\ \/ stage \in {"term", "wait", "kill"}
                  \/ "terminated_gracefully" \in Results(current.for) =>
                         Reused(current.for)
    PROVE  EntriesAccounted'
<1>1. \A i \in Instances : Results(i)' = Results(i)
  BY DEF Results
<1>2. \A i \in Instances : Results(i) # {} /\ Reused(i) => Reused(i)'
  BY ReusedPersists DEF EntriesAccounted, RemediationInv, Remembered
<1>3. \A i \in Instances :
        "terminated_gracefully" \in Results(i) =>
            /\ life'[i] = "gone"
            /\ stage' \in {"term", "wait", "kill"} /\ current'.kind = "process"
                 /\ current'.for = i => Reused(i)'
  <2> SUFFICES ASSUME NEW i \in Instances, "terminated_gracefully" \in Results(i)
               PROVE  /\ life'[i] = "gone"
                      /\ stage' \in {"term", "wait", "kill"}
                           /\ current'.kind = "process"
                           /\ current'.for = i => Reused(i)
    BY <1>2
  <2> QED BY DEF Persist, EntriesAccounted
<1>4. ASSUME NEW i \in Instances,
             NEW m \in DOMAIN outcomes[i], NEW n \in DOMAIN outcomes[i],
             m < n, outcomes[i][m] = "terminated_gracefully",
             outcomes[i][n] \in Terminated
      PROVE  Reused(i)'
  <2>1. Reused(i)
    BY <1>4 DEF EntriesAccounted
  <2>2. Results(i) # {}
    BY DEF Results
  <2> QED BY <2>1, <2>2, <1>2
<1> QED BY <1>1, <1>3, <1>4 DEF EntriesAccounted, Terminated

(* ... and with one: it can only say again that a process was terminated if *)
(* that was forced, or its pid reused.                                      *)
LEMMA EntriesHandled ==
    ASSUME TypeOK, RemediationInv, EntriesAccounted, Persist,
           UNCHANGED elders, stage' = "next",
           NEW i \in todo, NEW result \in ProcessRemediationOutcome,
           Handled(i, result),
           result = "terminated_gracefully" => life'[i] = "gone",
           result \in Terminated /\ "terminated_gracefully" \in Results(i) =>
               Reused(i)
    PROVE  EntriesAccounted'
<1>1. i \in elders \cap Matching /\ i \in Instances /\ Matching \subseteq Instances
  BY OwnershipAssumption DEF RemediationInv, Remembered, TypeOK
<1>2. /\ outcomes'[i] = Append(outcomes[i], result)
      /\ Results(i)' = Results(i) \cup {result}
      /\ \A j \in Instances : j # i => /\ outcomes'[j] = outcomes[j]
                                       /\ Results(j)' = Results(j)
      /\ todo' \subseteq todo
  BY <1>1, EntryDone
<1>3. /\ Mentions[i] \in Nat /\ Len(outcomes[i]) \in Nat
      /\ Len(outcomes[i]) < Mentions[i]
      /\ Len(outcomes'[i]) = Len(outcomes[i]) + 1
      /\ DOMAIN outcomes[i] = 1 .. Len(outcomes[i])
      /\ DOMAIN outcomes'[i] = 1 .. Len(outcomes[i]) + 1
      /\ \A n \in 1 .. Len(outcomes[i]) : outcomes'[i][n] = outcomes[i][n]
      /\ outcomes'[i][Len(outcomes[i]) + 1] = result
  BY <1>1, <1>2, MentionsAssumption DEF TypeOK, EntriesAccounted
<1>4. \A j \in Instances : Results(j) # {} \/ j = i => life[j] # "unborn"
  BY <1>1 DEF EntriesAccounted, RemediationInv, Remembered
<1>5. \A j \in Instances : life[j] # "unborn" /\ Reused(j) => Reused(j)'
  BY ReusedPersists
<1>6. /\ \A j \in todo' : Len(outcomes'[j]) < Mentions[j]
      /\ \A j \in Matching : Len(outcomes'[j]) <= Mentions[j]
  <2>1. i \in todo' => Len(outcomes[i]) + 1 < Mentions[i]
    BY DEF Handled
  <2>2. \A j \in todo' : j # i => Len(outcomes'[j]) < Mentions[j]
    BY <1>1, <1>2 DEF EntriesAccounted, RemediationInv, Remembered
  <2>3. \A j \in Matching : j # i => Len(outcomes'[j]) <= Mentions[j]
    BY <1>1, <1>2 DEF EntriesAccounted
  <2> QED BY <1>3, <2>1, <2>2, <2>3
<1>7. \A j \in Instances : Results(j)' # {} => j \in elders \cap Matching
  BY <1>1, <1>2 DEF EntriesAccounted
<1>8. \A j \in Instances : "terminated_gracefully" \in Results(j)' => life'[j] = "gone"
  BY <1>2 DEF EntriesAccounted, Persist
<1>9. ASSUME NEW j \in Instances,
             NEW m \in DOMAIN outcomes'[j], NEW n \in DOMAIN outcomes'[j],
             m < n, outcomes'[j][m] = "terminated_gracefully",
             outcomes'[j][n] \in Terminated
      PROVE  Reused(j)'
  <2>1. CASE j # i
    <3>1. Reused(j)
      BY <1>2, <1>9, <2>1 DEF EntriesAccounted
    <3>2. Results(j) # {}
      <4>1. outcomes'[j] = outcomes[j] /\ m \in DOMAIN outcomes[j]
        BY <1>2, <2>1
      <4> QED BY <4>1 DEF Results
    <3> QED BY <3>1, <3>2, <1>4, <1>5
  <2>2. CASE j = i /\ n \in 1 .. Len(outcomes[i])
    <3>1. m \in 1 .. Len(outcomes[i])
      BY <1>3, <1>9, <2>2
    <3>2. Reused(i)
      BY <1>1, <1>3, <1>9, <2>2, <3>1 DEF EntriesAccounted
    <3> QED BY <3>2, <1>4, <1>5, <2>2
  <2>3. CASE j = i /\ n = Len(outcomes[i]) + 1
    <3>1. m \in 1 .. Len(outcomes[i]) /\ result \in Terminated
      BY <1>3, <1>9, <2>3
    <3>2. "terminated_gracefully" \in Results(i)
      BY <1>3, <1>9, <2>3, <3>1 DEF Results
    <3> QED BY <3>1, <3>2, <1>4, <1>5, <2>3
  <2> QED BY <1>3, <2>1, <2>2, <2>3
<1> QED BY <1>6, <1>7, <1>8, <1>9 DEF EntriesAccounted, Terminated

(* A probe that takes a process for alive which a wait has seen exit.       *)
LEMMA AliveAgain ==
    ASSUME TypeOK, RemediationInv, EntriesAccounted, stage = "probe", IsAlive,
           current.kind = "process",
           "terminated_gracefully" \in Results(current.for)
    PROVE  Reused(current.for)
<1>1. current.for \in elders /\ current.for \in Instances
  BY DEF RemediationInv, Remembered, Targets, TypeOK
<1>2. life[current.for] = "gone"
  BY <1>1 DEF EntriesAccounted
<1>3. PICK j \in Present : pid[j] = pid[current.for]
  BY DEF IsAlive, Addressed
<1>4. j \in Instances /\ life[j] # "unborn" /\ j # current.for
  BY <1>2 DEF Present
<1>5. j \notin elders
  BY <1>1, <1>3, <1>4 DEF RemediationInv, Remembered
<1> QED BY <1>3, <1>4, <1>5 DEF Reused

(* An answer: of a process, one more entry, and of a group, none.           *)
LEMMA EntriesAnswered ==
    ASSUME TypeOK, RemediationInv, EntriesAccounted, Persist, UNCHANGED elders,
           NEW result \in {"already_exited"} \cup Terminated,
           stage \in {"probe", "wait", "kill"},
           Answer(result),
           result \in Terminated => stage \in {"wait", "kill"},
           result = "terminated_gracefully" => UNCHANGED life /\ ~ IsAlive
    PROVE  EntriesAccounted'
<1>1. stage' = "next"
  BY DEF Answer
<1>2. CASE current.kind = "process"
  <2>1. PICK i \in elders \cap todo : i = current.for /\ i \in Instances
    BY <1>2 DEF RemediationInv, Remembered, Targets, TypeOK
  <2>2. Handled(i, result) /\ result \in ProcessRemediationOutcome
    BY <1>2, <2>1 DEF Answer, ProcessRemediationOutcome
  <2>3. ASSUME result = "terminated_gracefully" PROVE life'[i] = "gone"
    <3>1. UNCHANGED life /\ i \notin Present
      BY <1>2, <2>1, <2>3 DEF IsAlive, Addressed
    <3> QED BY <2>1, <3>1 DEF Present, RemediationInv, Remembered, TypeOK
  <2>4. ASSUME result \in Terminated, "terminated_gracefully" \in Results(i)
        PROVE  Reused(i)
    BY <1>2, <2>1, <2>4 DEF EntriesAccounted
  <2> QED BY <1>1, <2>1, <2>2, <2>3, <2>4, EntriesHandled
<1>3. CASE current.kind # "process"
  <2>1. UNCHANGED <<todo, outcomes>>
    BY <1>3 DEF Answer
  <2> QED BY <1>1, <2>1, EntriesKept
<1> QED BY <1>2, <1>3

LEMMA EntriesInductive ==
    ASSUME TypeOK, RemediationInv, SignalsAccounted, EntriesAccounted, [Next]_vars
    PROVE  EntriesAccounted'
<1>1. UNCHANGED system => Persist
  BY QuietPersist DEF RemediationInv
<1>2. CASE TakeInventory
  <2>1. /\ \A i \in Instances : outcomes'[i] = <<>>
        /\ todo' \subseteq Matching /\ Matching \subseteq Instances
    BY <1>2, OwnershipAssumption DEF TakeInventory, from_inventory, SignalsAccounted
  <2>2. /\ \A i \in Instances : Len(outcomes'[i]) = 0 /\ DOMAIN outcomes'[i] = {}
        /\ \A i \in Instances : Results(i)' = {}
    BY <2>1 DEF Results
  <2> QED BY <2>1, <2>2, MentionsAssumption DEF EntriesAccounted
<1>3. ASSUME NEW i \in Instances, Reject(i) PROVE EntriesAccounted'
  <2>1. /\ Handled(i, "rejected") /\ i \in todo
        /\ UNCHANGED <<system, elders>> /\ stage' = "next"
    BY <1>3 DEF Reject, InTurn
  <2>2. "rejected" \in ProcessRemediationOutcome /\ "rejected" \notin Terminated
    BY DEF ProcessRemediationOutcome, Terminated
  <2> QED BY <1>1, <2>1, <2>2, EntriesHandled
<1>4. ASSUME NEW i \in Instances, BeginProcess(i) PROVE EntriesAccounted'
  BY <1>1, <1>4, EntriesKept DEF BeginProcess
<1>5. ASSUME NEW g \in Pids, BeginGroup(g) PROVE EntriesAccounted'
  BY <1>1, <1>5, EntriesKept DEF BeginGroup
<1>6. CASE AllDone
  BY <1>1, <1>6, EntriesKept DEF AllDone
<1>7. CASE Probe
  <2>1. UNCHANGED <<system, elders>> /\ stage = "probe"
    BY <1>7 DEF Probe
  <2>2. CASE IsAlive
    <3>1. UNCHANGED <<todo, outcomes, current>>
      BY <1>7, <2>2 DEF Probe, progress
    <3> QED BY <1>1, <2>1, <2>2, <3>1, AliveAgain, EntriesKept
  <2>3. CASE ~ IsAlive
    <3>1. Answer("already_exited")
      BY <1>7, <2>3 DEF Probe
    <3> QED BY <1>1, <2>1, <3>1, EntriesAnswered DEF Terminated
  <2> QED BY <2>2, <2>3
<1>8. CASE SendTerm
  <2>1. UNCHANGED <<system, elders, todo, outcomes, current>> /\ stage = "term"
    BY <1>8 DEF SendTerm, Fail, progress
  <2> QED BY <1>1, <2>1, EntriesKept
<1>9. CASE WaitSeesExit
  <2>1. /\ UNCHANGED <<system, elders>> /\ stage = "wait" /\ ~ IsAlive
        /\ Answer("terminated_gracefully")
    BY <1>9 DEF WaitSeesExit
  <2> QED BY <1>1, <2>1, EntriesAnswered DEF Terminated, system
<1>10. CASE WaitTimesOut
  <2>1. UNCHANGED <<system, elders, todo, outcomes, current>> /\ stage = "wait"
    BY <1>10 DEF WaitTimesOut
  <2> QED BY <1>1, <2>1, EntriesKept
<1>11. CASE SendKill
  <2>1. Persist /\ UNCHANGED elders /\ stage = "kill"
    BY <1>11 DEF SendKill, Killed, Persist, RemediationInv, Remembered, Present,
                 TypeOK
  <2>2. CASE Reachable = {}
    <3>1. UNCHANGED <<todo, outcomes>> /\ stage' = "failed"
      BY <1>11, <2>2 DEF SendKill, Fail, progress
    <3> QED BY <2>1, <3>1, EntriesKept
  <2>3. CASE Reachable # {}
    <3>1. Answer("terminated_forced")
      BY <1>11, <2>3 DEF SendKill
    <3> QED BY <2>1, <3>1, EntriesAnswered DEF Terminated
  <2> QED BY <2>2, <2>3
<1>12. CASE SystemStep
  <2>1. Persist /\ UNCHANGED <<stage, todo, outcomes, current, elders>>
    BY <1>12, SystemPersist DEF SystemStep, daemon, RemediationInv
  <2> QED BY <2>1, EntriesKept
<1>13. CASE UNCHANGED vars
  <2>1. UNCHANGED <<system, stage, todo, outcomes, current, elders>>
    BY <1>13 DEF vars, daemon
  <2> QED BY <1>1, <2>1, EntriesKept
<1> QED BY <1>2, <1>3, <1>4, <1>5, <1>6, <1>7, <1>8, <1>9, <1>10, <1>11, <1>12,
           <1>13 DEF Next, DaemonStep

(* A cleanup (remediate_processes, autocleanup.rs): typed, and inductively so. *)
THEOREM RemediationIInvHolds == Spec => []RemediationIInv
<1>1. Init => EntriesAccounted
  <2> SUFFICES ASSUME Init PROVE EntriesAccounted
    OBVIOUS
  <2>1. /\ \A i \in Instances : outcomes[i] = <<>>
        /\ todo = {} /\ Matching \subseteq Instances
    BY OwnershipAssumption DEF Init
  <2>2. Len(<<>>) = 0 /\ DOMAIN <<>> = {}
    OBVIOUS
  <2> QED BY <2>1, <2>2, MentionsAssumption DEF EntriesAccounted, Results
<1>2. TypeOK /\ RemediationInv /\ SignalsAccounted /\ EntriesAccounted
        /\ [Next]_vars => EntriesAccounted'
  BY EntriesInductive
<1> QED BY <1>1, <1>2, AccountedHolds, PTL DEF Spec, RemediationIInv

(* What a notice is, of its own. *)
LEMMA NoticesAre ==
    ASSUME NEW n \in notify_completion_cleanup_results
    PROVE  \/ /\ n = [kind |-> "group", for |-> n.for]
              /\ n.kind = "group" /\ n.for \in ended_groups
           \/ /\ n = [kind |-> "process", for |-> n.for, entry |-> n.entry]
              /\ n.kind = "process" /\ n.for \in Instances
              /\ group[n.for] \notin ended_groups
              /\ n.entry \in DOMAIN outcomes[n.for]
              /\ outcomes[n.for][n.entry] \in Terminated
<1>1. CASE n \in [kind : {"group"}, for : ended_groups]
  BY <1>1
<1>2. CASE n \notin [kind : {"group"}, for : ended_groups]
  <2>1. PICK i \in Instances : /\ group[i] \notin ended_groups
                               /\ \E m \in DOMAIN outcomes[i] :
                                    /\ outcomes[i][m] \in Terminated
                                    /\ n = [kind |-> "process", for |-> i, entry |-> m]
    BY <1>2 DEF notify_completion_cleanup_results
  <2>2. PICK m \in DOMAIN outcomes[i] :
           /\ outcomes[i][m] \in Terminated
           /\ n = [kind |-> "process", for |-> i, entry |-> m]
    BY <2>1
  <2>3. n.kind = "process" /\ n.for = i /\ n.entry = m
    BY <2>2
  <2> QED BY <2>1, <2>2, <2>3
<1> QED BY <1>1, <1>2

(* notify_completion_cleanup_results: of any number of processes that got a *)
(* signal, each is covered by a notice, whatever became of its group, and   *)
(* twice only for a process that is listed repeatedly, and still dying or   *)
(* replaced under its pid when its next entry is done.                      *)
THEOREM AnnouncedHolds == Spec => []Announced
<1>1. RemediationIInv => Announced
  <2> SUFFICES ASSUME RemediationIInv, stage = "done",
                      NEW i \in signalled \cap elders
               PROVE  /\ \E n \in notify_completion_cleanup_results : i \in ToldOf(n)
                      /\ \A m, n \in notify_completion_cleanup_results :
                           i \in ToldOf(m) \cap ToldOf(n) /\ m # n =>
                              /\ Mentions[i] > 1
                              /\ m.kind = "process" /\ n.kind = "process"
                              /\ \/ m.entry > n.entry
                                 \/ outcomes[i][m.entry] = "terminated_forced"
                                 \/ Reused(i)
    BY DEF Announced
  <2> USE DEF RemediationIInv
  <2>1. i \in Instances /\ ended_groups \subseteq Pids
    BY DEF TypeOK
  <2>2. Results(i) \cap Terminated # {} \/ group[i] \in ended_groups
    BY DEF SignalsAccounted, InHand
  <2>3. \E n \in notify_completion_cleanup_results : i \in ToldOf(n)
    <3>1. CASE group[i] \in ended_groups
      <4> DEFINE n == [kind |-> "group", for |-> group[i]]
      <4>1. n \in notify_completion_cleanup_results /\ i \in ToldOf(n)
        BY <2>1, <3>1 DEF notify_completion_cleanup_results, ToldOf
      <4> QED BY <4>1
    <3>2. CASE group[i] \notin ended_groups
      <4>1. PICK e \in DOMAIN outcomes[i] : outcomes[i][e] \in Terminated
        BY <2>2, <3>2 DEF Results
      <4> DEFINE n == [kind |-> "process", for |-> i, entry |-> e]
      <4>2. n \in notify_completion_cleanup_results
        BY <2>1, <3>2, <4>1 DEF notify_completion_cleanup_results
      <4>3. i \in ToldOf(n)
        BY DEF ToldOf
      <4> QED BY <4>2, <4>3
    <3> QED BY <3>1, <3>2
  <2>4. ASSUME NEW m \in notify_completion_cleanup_results,
               NEW n \in notify_completion_cleanup_results,
               i \in ToldOf(m) \cap ToldOf(n), m # n
        PROVE  /\ Mentions[i] > 1
               /\ m.kind = "process" /\ n.kind = "process"
               /\ \/ m.entry > n.entry
                  \/ outcomes[i][m.entry] = "terminated_forced"
                  \/ Reused(i)
    <3>1. /\ m.kind = "process" /\ n.kind = "process"
          /\ m.for = i /\ n.for = i /\ m.entry # n.entry
      BY <2>4, NoticesAre DEF ToldOf
    <3>2. /\ m.entry \in DOMAIN outcomes[i] /\ outcomes[i][m.entry] \in Terminated
          /\ n.entry \in DOMAIN outcomes[i] /\ outcomes[i][n.entry] \in Terminated
      BY <3>1, NoticesAre
    <3>3. /\ DOMAIN outcomes[i] = 1 .. Len(outcomes[i])
          /\ Len(outcomes[i]) \in Nat
      BY <2>1 DEF TypeOK
    <3>4. Len(outcomes[i]) <= Mentions[i] /\ Mentions[i] \in Nat
      <4>1. i \in Matching
        BY <2>1, <3>2 DEF EntriesAccounted, Results
      <4> QED BY <4>1, MentionsAssumption DEF EntriesAccounted
    <3>5. Mentions[i] > 1
      BY <3>1, <3>2, <3>3, <3>4
    <3>6. m.entry < n.entry /\ outcomes[i][m.entry] = "terminated_gracefully"
            => Reused(i)
      BY <2>1, <3>2 DEF EntriesAccounted
    <3> QED BY <3>1, <3>2, <3>3, <3>5, <3>6 DEF Terminated
  <2> QED BY <2>3, <2>4
<1> QED BY <1>1, RemediationIInvHolds, PTL

-----------------------------------------------------------------------------
(* A cleanup implements the remediator. *)

(* What else it needs: other users' processes are out of reach, and no      *)
(* group has ended before there is an inventory.                            *)
Untouched ==
    /\ signalled \cap Foreign = {}
    /\ stage = "idle" => ended_groups = {}

CleanupInv == RemediationIInv /\ Untouched

LEMMA UntouchedInductive == ASSUME CleanupInv, [Next]_vars PROVE Untouched'
<1> USE DEF Untouched
<1>1. CASE DaemonStep
  <2>1. signalled' \subseteq signalled \cup Reachable
    BY <1>1 DEF DaemonStep, TakeInventory, Reject, BeginProcess, BeginGroup,
                AllDone, Probe, SendTerm, WaitSeesExit, WaitTimesOut, SendKill
  <2>2. stage' # "idle"
    BY <1>1 DEF DaemonStep, TakeInventory, Reject, BeginProcess, BeginGroup,
                AllDone, Probe, SendTerm, WaitSeesExit, WaitTimesOut, SendKill,
                Answer, Fail
  <2> QED BY <2>1, <2>2 DEF CleanupInv, RemediationIInv, Reachable
<1>2. CASE SystemStep \/ UNCHANGED vars
  BY <1>2 DEF CleanupInv, RemediationIInv, SystemStep, daemon, vars
<1> QED BY <1>1, <1>2 DEF Next

LEMMA CleanupInvHolds == Spec => []CleanupInv
<1>1. Init => Untouched
  BY DEF Init, Untouched
<1>2. CleanupInv /\ [Next]_vars => Untouched'
  BY UntouchedInductive
<1> QED BY <1>1, <1>2, RemediationIInvHolds, PTL DEF Spec, CleanupInv

(* A request is for somebody, of the inventory and within reach. *)
LEMMA SomeoneAsked ==
    ASSUME CleanupInv
    PROVE  /\ Asked \subseteq elders \ Foreign
           /\ (current # NoRequest) => Asked # {} /\ Asked = Meant
           /\ (current = NoRequest) => Asked = {}
<1>1. CASE current = NoRequest
  BY <1>1 DEF Asked
<1>2. CASE current.kind = "process" /\ current # NoRequest
  BY <1>2, OwnershipAssumption
  DEF Asked, Meant, CleanupInv, RemediationIInv, RemediationInv, Remembered, Targets
<1>3. CASE current.kind # "process" /\ current # NoRequest
  <2>1. current.for \in TargetGroups
    BY <1>3 DEF CleanupInv, RemediationIInv, TypeOK, Request, RemediationInv, Remembered
  <2>2. PICK i \in Targets : group[i] = current.for
    BY <2>1 DEF TargetGroups
  <2>3. i \in Meant
    BY <1>3, <2>2, OwnershipAssumption DEF Meant, Targets
  <2> QED BY <1>3, <2>3 DEF Asked, Meant
<1> QED BY <1>1, <1>2, <1>3

(* Of the inventory, a signal reaches only those asked for. *)
LEMMA AskedReached ==
    ASSUME CleanupInv, stage \in {"term", "kill"}
    PROVE  Reachable \cap elders \subseteq Asked
<1>1. ASSUME NEW i \in Reachable \cap elders PROVE i \in Asked
  <2>1. IF current.kind = "process" THEN i = current.for
        ELSE group[i] = current.for
    BY EldersInHand DEF CleanupInv, RemediationIInv
  <2>2. current # NoRequest
    BY DEF CleanupInv, RemediationIInv, RemediationInv, Remembered
  <2> QED BY <2>1, <2>2 DEF Asked, Meant, Reachable
<1> QED BY <1>1

(* An answer about whom runs no more, with what was signalled for it. *)
LEMMA AnswerImplements ==
    ASSUME CleanupInv, CleanupInv', stage \in {"probe", "wait", "kill"},
           NEW result \in Terminated \cup {"already_exited"},
           Answer(result),
           UNCHANGED <<group, elders>>,
           Asked \cap Running' = {},
           Running' \subseteq Running,
           (Running \ Running') \cap elders \subseteq Asked \cap signalled',
           SignalledElders \subseteq SignalledElders',
           SignalledElders' \subseteq SignalledElders \cup Asked
    PROVE  Promised!Answer
<1>1. /\ current # NoRequest /\ current \in Request
      /\ stage' = "next" /\ current' = NoRequest
  BY DEF Answer, CleanupInv, RemediationIInv, TypeOK, RemediationInv, Remembered
<1>2. Asked # {} /\ Asked' = {} /\ Asked = Meant /\ Asked \subseteq elders \ Foreign
  BY <1>1, SomeoneAsked DEF Asked
<1>3. Reported' \in {Reported, Reported \cup Asked}
  <2>1. CASE current.kind = "process"
    <3>1. PICK i0 \in Instances : i0 = current.for
      BY <2>1 DEF CleanupInv, RemediationIInv, TypeOK, RemediationInv, Remembered, Targets
    <3>2. /\ i0 \in elders \ Foreign
          /\ Asked = {i0}
      BY <1>2, <2>1, <3>1 DEF Meant, CleanupInv, RemediationIInv, RemediationInv, Remembered
    <3>3. Handled(i0, result) /\ ended_groups' = ended_groups
      BY <2>1, <3>1 DEF Answer
    <3>4. elders \subseteq Instances /\ result \in ProcessRemediationOutcome
      BY DEF CleanupInv, RemediationIInv, TypeOK, ProcessRemediationOutcome
    <3>5. /\ Results(i0)' = Results(i0) \cup {result}
          /\ \A j \in Instances : j # i0 => Results(j)' = Results(j)
      BY <3>2, <3>3, <3>4, EntryDone DEF CleanupInv, RemediationIInv
    <3>6. CASE result \in Terminated
      BY <3>2, <3>3, <3>4, <3>5, <3>6 DEF Reported, Terminated
    <3>7. CASE result \notin Terminated
      BY <3>2, <3>3, <3>4, <3>5, <3>7 DEF Reported, Terminated
    <3> QED BY <3>6, <3>7
  <2>2. CASE current.kind # "process"
    <3>1. /\ \A j \in elders : Results(j)' = Results(j)
          /\ ended_groups' \in {ended_groups, ended_groups \cup {current.for}}
      BY <2>2 DEF Answer, Results
    <3>2. Asked = {i \in elders \ Foreign : group[i] = current.for}
      BY <1>2, <2>2 DEF Meant
    <3> QED BY <3>1, <3>2 DEF Reported, Terminated
  <2> QED BY <2>1, <2>2
<1>4. SignalledElders' \subseteq Reported'
  BY <1>1 DEF CleanupInv, RemediationIInv, SignalsAccounted, InHand, Untouched, SignalledElders,
            Reported, Results
<1>5. stage # "failed" /\ stage' # "failed"
  BY <1>1
<1>6. (Running \ Running') \cap elders \subseteq Asked \cap SignalledElders'
  BY DEF SignalledElders
<1> QED BY <1>2, <1>3, <1>4, <1>5, <1>6 DEF Promised!Answer, Promised!Signals

(* What the outside does, the remediator allows. *)
LEMMA OutsideImplements ==
    ASSUME CleanupInv, SystemStep
    PROVE  Promised!Outside
<1>1. /\ UNCHANGED <<stage, todo, pgids, current, outcomes, ended_groups,
                     elders, signalled>>
      /\ \A i \in elders : /\ group'[i] = group[i]
                           /\ life'[i] = "running" => life[i] = "running"
  BY SystemPersist
  DEF SystemStep, daemon, Persist, CleanupInv, RemediationIInv, RemediationInv, Remembered, TypeOK
<1>2. Running' \subseteq Instances /\ Running' \cap elders \subseteq Running
  BY <1>1 DEF Running
<1>3. SignalledElders' = SignalledElders
  BY <1>1 DEF SignalledElders
<1>4. Reported' = Reported
  BY <1>1 DEF Reported, Results
<1>5. Asked' = Asked
  <2>1. Meant' = Meant
    BY <1>1 DEF Meant
  <2> QED BY <1>1, <2>1 DEF Asked
<1> QED BY <1>1, <1>2, <1>3, <1>4, <1>5 DEF Promised!Outside, Promised!caller

LEMMA DaemonImplements ==
    ASSUME CleanupInv, CleanupInv', DaemonStep
    PROVE  Promised!Next \/ UNCHANGED Promised!rvars
<1> USE DEF Promised!Next
<1>1. CASE TakeInventory
  <2>1. /\ UNCHANGED <<life, pid, group, current, outcomes, ended_groups, signalled>>
        /\ stage = "idle" /\ stage' = "next" /\ elders' = Present
    BY <1>1 DEF TakeInventory, system
  <2>2. /\ elders = {} /\ signalled = {} /\ current = NoRequest /\ ended_groups = {}
        /\ \A i \in Instances : Results(i) = {} /\ Results(i)' = {}
    BY <2>1 DEF Results, CleanupInv, RemediationIInv, RemediationInv, Remembered,
                SignalsAccounted, Untouched
  <2>3. Asked = {} /\ Asked' = {}
    BY <2>1, <2>2 DEF Asked
  <2>4. Running' = Running /\ Running \subseteq elders' /\ elders' \subseteq Instances
    BY <2>1 DEF Running, Present
  <2>5. SignalledElders = {} /\ SignalledElders' = {}
    BY <2>1, <2>2 DEF SignalledElders
  <2>6. Reported = {} /\ Reported' = {}
    BY <2>1, <2>2, <2>4 DEF Reported, Terminated
  <2>7. Promised!Learn
    BY <2>1, <2>2, <2>3, <2>4, <2>5, <2>6 DEF Promised!Learn
  <2> QED BY <2>7
<1>2. ASSUME NEW i \in Instances, Reject(i) PROVE UNCHANGED Promised!rvars
  <2>1. /\ UNCHANGED <<life, pid, group, stage, current, ended_groups, elders, signalled>>
        /\ i \in todo
        /\ Handled(i, "rejected")
    BY <1>2 DEF Reject, system, InTurn
  <2>2. \A j \in Instances : Results(j)' \cap Terminated = Results(j) \cap Terminated
    <3>1. "rejected" \notin Terminated /\ "rejected" \in ProcessRemediationOutcome
      BY DEF Terminated, ProcessRemediationOutcome
    <3> QED BY <1>2, <2>1, <3>1, EntryDone DEF CleanupInv, RemediationIInv
  <2>3. Reported' = Reported
    BY <2>1, <2>2 DEF Reported, Terminated, CleanupInv, RemediationIInv, TypeOK
  <2>4. Running' = Running /\ Asked' = Asked /\ SignalledElders' = SignalledElders
    BY <2>1 DEF Running, Asked, Meant, SignalledElders
  <2> QED BY <2>1, <2>3, <2>4 DEF Promised!rvars, Promised!caller
<1>3. ASSUME NEW i \in Instances, BeginProcess(i) PROVE Promised!Ask
  <2>1. /\ UNCHANGED <<life, pid, group, outcomes, ended_groups, elders, signalled>>
        /\ stage = "next" /\ stage' = "probe" /\ i \in todo \cap Accepted
        /\ current' = [kind |-> "process", for |-> i]
    BY <1>3 DEF BeginProcess, system, InTurn
  <2>2. current = NoRequest /\ current' # NoRequest /\ i \in elders
    BY <2>1 DEF CleanupInv, RemediationIInv, RemediationInv, Remembered, NoRequest
  <2>3. Asked = {} /\ Asked' = {i}
    BY <2>1, <2>2 DEF Asked, Meant
  <2>4. Running' = Running /\ SignalledElders' = SignalledElders /\ Reported' = Reported
    BY <2>1 DEF Running, SignalledElders, Reported, Results
  <2> QED BY <2>1, <2>2, <2>3, <2>4 DEF Promised!Ask
<1>4. ASSUME NEW g \in Pids, BeginGroup(g) PROVE Promised!Ask
  <2>1. /\ UNCHANGED <<life, pid, group, outcomes, ended_groups, elders, signalled>>
        /\ stage = "next" /\ stage' = "probe" /\ g \in pgids
        /\ current' = [kind |-> "group", for |-> g]
    BY <1>4 DEF BeginGroup, system
  <2>2. current = NoRequest /\ current' # NoRequest /\ g \in TargetGroups
    BY <2>1 DEF CleanupInv, RemediationIInv, RemediationInv, Remembered, NoRequest
  <2>3. PICK i \in Targets : group[i] = g
    BY <2>2 DEF TargetGroups
  <2>4. Asked = {} /\ i \in Asked' /\ Asked' \subseteq elders
    BY <2>1, <2>2, <2>3, OwnershipAssumption DEF Asked, Meant, Targets
  <2>5. Running' = Running /\ SignalledElders' = SignalledElders /\ Reported' = Reported
    BY <2>1 DEF Running, SignalledElders, Reported, Results
  <2> QED BY <2>1, <2>4, <2>5 DEF Promised!Ask
<1>5. ASSUME UNCHANGED <<life, group, current, outcomes, ended_groups, elders, signalled>>
      PROVE  /\ Running' = Running /\ Asked' = Asked /\ Reported' = Reported
             /\ SignalledElders' = SignalledElders
  BY <1>5 DEF Running, Asked, Meant, Reported, Results, SignalledElders
<1>6. CASE AllDone \/ WaitTimesOut
  <2>1. /\ UNCHANGED <<life, group, current, outcomes, ended_groups, elders, signalled>>
        /\ stage # "failed" /\ stage' # "failed"
    BY <1>6 DEF AllDone, WaitTimesOut, system
  <2> QED BY <1>5, <2>1 DEF Promised!rvars, Promised!caller
<1>7. CASE (Probe \/ WaitSeesExit) /\ ~ IsAlive
  <2>1. /\ UNCHANGED <<life, pid, group, elders, signalled>>
        /\ stage \in {"probe", "wait"}
        /\ Answer("already_exited") \/ Answer("terminated_gracefully")
    BY <1>7 DEF Probe, WaitSeesExit, system
  <2>2. Running' = Running /\ SignalledElders' = SignalledElders
    BY <2>1 DEF Running, SignalledElders
  <2>3. Asked = Meant
    BY <2>1, SomeoneAsked DEF CleanupInv, RemediationIInv, RemediationInv, Remembered
  <2>4. Asked \cap Running' = {}
    <3>1. ASSUME NEW i \in Meant, life[i] = "running" PROVE FALSE
      BY <1>7, <2>1, <3>1, MeantReached DEF CleanupInv, RemediationIInv, IsAlive, Reachable
    <3> QED BY <2>2, <2>3, <3>1 DEF Running
  <2>5. Promised!Answer
    BY <2>1, <2>2, <2>4, AnswerImplements DEF Terminated
  <2> QED BY <2>5
<1>8. CASE Probe /\ IsAlive
  <2>1. /\ UNCHANGED <<life, group, current, outcomes, ended_groups, elders, signalled>>
        /\ stage # "failed" /\ stage' # "failed"
    BY <1>8 DEF Probe, system, progress
  <2> QED BY <1>5, <2>1 DEF Promised!rvars, Promised!caller
<1>9. ASSUME stage \in {"term", "kill"}, Fail, Reachable = {},
             signalled' = signalled \cup Reachable,
             UNCHANGED <<life, group, elders>>
      PROVE  Promised!GiveUp
  <2>1. /\ UNCHANGED <<life, group, current, outcomes, ended_groups, elders, signalled>>
        /\ stage # "failed" /\ stage' = "failed" /\ current # NoRequest
    BY <1>9 DEF Fail, progress, CleanupInv, RemediationIInv, RemediationInv, Remembered
  <2>2. Asked # {} /\ Asked = Meant
    BY <2>1, SomeoneAsked
  <2>3. Asked \cap Running = {}
    <3>1. ASSUME NEW i \in Meant, life[i] = "running" PROVE FALSE
      BY <1>9, <3>1, MeantReached DEF CleanupInv, RemediationIInv
    <3> QED BY <2>2, <3>1 DEF Running
  <2> QED BY <1>5, <2>1, <2>2, <2>3 DEF Promised!GiveUp
<1>10. CASE SendTerm
  <2>1. /\ UNCHANGED <<life, pid, group, elders>>
        /\ stage = "term" /\ signalled' = signalled \cup Reachable
    BY <1>10 DEF SendTerm, system
  <2>2. CASE Reachable = {}
    BY <1>9, <1>10, <2>1, <2>2 DEF SendTerm
  <2>3. CASE Reachable # {}
    <3>1. stage' = "wait" /\ UNCHANGED <<current, outcomes, ended_groups>>
      BY <1>10, <2>3 DEF SendTerm, progress
    <3>2. Running' = Running /\ Asked' = Asked /\ Reported' = Reported
      BY <2>1, <3>1 DEF Running, Asked, Meant, Reported, Results
    <3>3. /\ SignalledElders \subseteq SignalledElders'
          /\ SignalledElders' \subseteq SignalledElders \cup Asked
      BY <2>1, AskedReached DEF SignalledElders
    <3>4. Asked # {}
      BY <2>1, SomeoneAsked DEF CleanupInv, RemediationIInv, RemediationInv, Remembered
    <3>5. Promised!Signal
      BY <2>1, <3>1, <3>2, <3>3, <3>4 DEF Promised!Signal, Promised!Signals
    <3> QED BY <3>5
  <2> QED BY <2>2, <2>3
<1>11. CASE SendKill
  <2>1. /\ UNCHANGED <<pid, group, elders>>
        /\ stage = "kill" /\ signalled' = signalled \cup Reachable
        /\ life' = [i \in Instances |-> IF i \in Reachable /\ life[i] = "running"
                                        THEN "zombie" ELSE life[i]]
    BY <1>11 DEF SendKill, Killed
  <2>2. CASE Reachable = {}
    <3>1. life' = life
      BY <2>1, <2>2 DEF CleanupInv, RemediationIInv, TypeOK
    <3> QED BY <1>9, <1>11, <2>1, <2>2, <3>1 DEF SendKill
  <2>3. CASE Reachable # {}
    <3>1. Running' = Running \ Reachable
      BY <2>1 DEF Running
    <3>2. Asked = Meant
      BY <2>1, SomeoneAsked DEF CleanupInv, RemediationIInv, RemediationInv, Remembered
    <3>3. Asked \cap Running' = {}
      <4>1. ASSUME NEW i \in Meant, life[i] = "running" PROVE i \in Reachable
        BY <2>1, <4>1, MeantReached DEF CleanupInv, RemediationIInv
      <4> QED BY <3>1, <3>2, <4>1 DEF Running
    <3>4. Reachable \cap elders \subseteq Asked
      BY <2>1, AskedReached
    <3>5. /\ SignalledElders \subseteq SignalledElders'
          /\ SignalledElders' \subseteq SignalledElders \cup Asked
          /\ (Running \ Running') \cap elders \subseteq Asked \cap signalled'
      BY <2>1, <3>1, <3>4 DEF SignalledElders
    <3>6. Answer("terminated_forced") /\ Running' \subseteq Running
      BY <1>11, <2>3, <3>1 DEF SendKill
    <3>7. Promised!Answer
      BY <2>1, <3>3, <3>5, <3>6, AnswerImplements DEF Terminated
    <3> QED BY <3>7
  <2> QED BY <2>2, <2>3
<1> QED BY <1>1, <1>2, <1>3, <1>4, <1>6, <1>7, <1>8, <1>10, <1>11 DEF DaemonStep, WaitSeesExit

(* remediation.rs, as remediate_processes (autocleanup.rs) relies on it: the *)
(* requests of a cleanup, in all their steps and among all that happens to  *)
(* processes and pids meanwhile, are those of the remediator.               *)
THEOREM ImplementsRemediatorHolds == Spec => ImplementsRemediator
<1>1. Init => Promised!Init
  <2> SUFFICES ASSUME Init PROVE Promised!Init
    OBVIOUS
  <2>1. Running = {} /\ SignalledElders = {} /\ Reported = {} /\ Asked = {}
    BY DEF Init, Empty, Running, SignalledElders, Reported, Asked
  <2> QED BY <2>1 DEF Init, Promised!Init
<1>2. CleanupInv /\ CleanupInv' /\ [Next]_vars => [Promised!Next]_(Promised!rvars)
  <2> SUFFICES ASSUME CleanupInv, CleanupInv', [Next]_vars
               PROVE  [Promised!Next]_(Promised!rvars)
    OBVIOUS
  <2>1. CASE DaemonStep
    BY <2>1, DaemonImplements
  <2>2. CASE SystemStep
    BY <2>2, OutsideImplements DEF Promised!Next
  <2>3. CASE UNCHANGED vars
    <3>1. UNCHANGED <<life, group, stage, current, outcomes, ended_groups, elders, signalled>>
      BY <2>3 DEF vars, system, daemon
    <3>2. /\ Running' = Running /\ Asked' = Asked /\ Reported' = Reported
          /\ SignalledElders' = SignalledElders
      BY <3>1 DEF Running, Asked, Meant, Reported, Results, SignalledElders
    <3> QED BY <3>1, <3>2 DEF Promised!rvars, Promised!caller
  <2> QED BY <2>1, <2>2, <2>3 DEF Next
<1> QED BY <1>1, <1>2, CleanupInvHolds, PTL DEF Spec, ImplementsRemediator, Promised!Spec

(* What the remediator promises it keeps, for any processes. *)
LEMMA RemediatorKeeps == Promised!Spec => []Promised!Agreed
<1> USE DEF Promised!Agreed, Promised!Promise
<1>1. Promised!Init => Promised!Agreed
  BY DEF Promised!Init
<1>2. Promised!Agreed /\ [Promised!Next]_(Promised!rvars) => Promised!Agreed'
  <2> SUFFICES ASSUME Promised!Agreed, [Promised!Next]_(Promised!rvars)
               PROVE  Promised!Agreed'
    OBVIOUS
  <2>1. CASE Promised!Outside
    BY <2>1 DEF Promised!Outside, Promised!caller
  <2>2. CASE Promised!Learn \/ Promised!Forget \/ Promised!Ask
    BY <2>2 DEF Promised!Learn, Promised!Forget, Promised!Ask
  <2>3. CASE Promised!Signal
    BY <2>3 DEF Promised!Signal, Promised!Signals
  <2>4. CASE Promised!Answer
    BY <2>4 DEF Promised!Answer, Promised!Signals
  <2>5. CASE Promised!GiveUp
    BY <2>5 DEF Promised!GiveUp
  <2>6. CASE UNCHANGED Promised!rvars
    BY <2>6 DEF Promised!rvars, Promised!caller
  <2> QED BY <2>1, <2>2, <2>3, <2>4, <2>5, <2>6 DEF Promised!Next
<1> QED BY <1>1, <1>2, PTL DEF Promised!Spec

(* remediate_processes: between two requests the outcomes of processes and  *)
(* groups cover everyone of the inventory who got a signal, and nobody that *)
(* they cover runs.                                                         *)
THEOREM PromiseHolds == Spec => []Promised!Promise
<1>1. Promised!Agreed => Promised!Promise
  BY DEF Promised!Agreed
<1> QED BY <1>1, RemediatorKeeps, ImplementsRemediatorHolds, PTL DEF ImplementsRemediator

-----------------------------------------------------------------------------
(* A cleanup is short. *)

(* What is left of the request in hand, whatever it will find... *)
StepsOfRequest ==
    CASE stage = "next"  -> 5
      [] stage = "probe" -> 4
      [] stage = "term"  -> 3
      [] stage = "wait"  -> 2
      [] stage = "kill"  -> 1
      [] OTHER           -> 0

(* ... and of the cleanup: each entry that is left may bring a group.       *)
EntriesLeft == {e \in Matching \X Nat : /\ e[1] \in todo
                                        /\ Len(outcomes[e[1]]) < e[2]
                                        /\ e[2] <= Mentions[e[1]]}

StepsLeft ==
    12 * Cardinality(EntriesLeft) + 6 * Cardinality(pgids) + StepsOfRequest

Countable == IsFiniteSet(EntriesLeft) /\ IsFiniteSet(pgids)

(* An entry that is done is one less. *)
LEMMA EntryLess ==
    ASSUME TypeOK, Remembered, EntriesAccounted, NEW i \in todo,
           NEW result \in ProcessRemediationOutcome, Handled(i, result)
    PROVE  /\ <<i, Len(outcomes[i]) + 1>> \in EntriesLeft
           /\ EntriesLeft' = EntriesLeft \ {<<i, Len(outcomes[i]) + 1>>}
<1>1. i \in Matching /\ i \in Instances
  BY DEF Remembered, TypeOK
<1>2. /\ Mentions[i] \in Nat /\ Len(outcomes[i]) \in Nat
      /\ Len(outcomes[i]) < Mentions[i]
  BY <1>1, MentionsAssumption DEF EntriesAccounted, TypeOK
<1>3. /\ outcomes'[i] = Append(outcomes[i], result)
      /\ \A j \in Instances : j # i => outcomes'[j] = outcomes[j]
  BY <1>1, EntryDone
<1>4. Len(outcomes'[i]) = Len(outcomes[i]) + 1
  BY <1>1, <1>3 DEF TypeOK
<1>5. <<i, Len(outcomes[i]) + 1>> \in EntriesLeft
  BY <1>1, <1>2 DEF EntriesLeft
<1>6. ASSUME NEW e \in Matching \X Nat, e[1] # i
      PROVE  e \in EntriesLeft' <=> e \in EntriesLeft
  <2>1. e[1] \in Instances /\ (e[1] \in todo' <=> e[1] \in todo)
    BY <1>6, OwnershipAssumption DEF Handled
  <2> QED BY <1>3, <1>6, <2>1 DEF EntriesLeft
<1>7. ASSUME NEW e \in Matching \X Nat, e[1] = i
      PROVE  e \in EntriesLeft' <=>
                e \in EntriesLeft /\ e # <<i, Len(outcomes[i]) + 1>>
  <2>1. e = <<i, e[2]>> /\ e[2] \in Nat
    BY <1>7
  <2>2. e \in EntriesLeft <=> Len(outcomes[i]) < e[2] /\ e[2] <= Mentions[i]
    BY <1>7 DEF EntriesLeft
  <2>3. e \in EntriesLeft' <=>
          i \in todo' /\ Len(outcomes[i]) + 1 < e[2] /\ e[2] <= Mentions[i]
    BY <1>4, <1>7 DEF EntriesLeft
  <2>4. i \in todo' <=> Len(outcomes[i]) + 1 < Mentions[i]
    BY DEF Handled
  <2> QED BY <1>2, <2>1, <2>2, <2>3, <2>4
<1>8. EntriesLeft \subseteq Matching \X Nat /\ EntriesLeft' \subseteq Matching \X Nat
  BY DEF EntriesLeft
<1>9. \A e : e \in EntriesLeft' <=>
               e \in EntriesLeft /\ e # <<i, Len(outcomes[i]) + 1>>
  BY <1>6, <1>7, <1>8
<1> QED BY <1>5, <1>9

LEMMA OneLess ==
    ASSUME NEW S, IsFiniteSet(S), NEW x \in S
    PROVE  /\ IsFiniteSet(S \ {x})
           /\ Cardinality(S) \in Nat
           /\ Cardinality(S \ {x}) \in Nat
           /\ Cardinality(S \ {x}) = Cardinality(S) - 1
BY FS_RemoveElement, FS_CardinalityType

LEMMA OneMore ==
    ASSUME NEW S, IsFiniteSet(S), NEW x
    PROVE  /\ IsFiniteSet(S \cup {x})
           /\ Cardinality(S) \in Nat
           /\ Cardinality(S \cup {x}) \in Nat
           /\ Cardinality(S \cup {x}) <= Cardinality(S) + 1
BY FS_AddElement, FS_CardinalityType

(* A step with the same work left is closer to the end of its request. *)
LEMMA RequestShortens ==
    ASSUME Countable, UNCHANGED <<todo, outcomes, pgids>>,
           StepsOfRequest \in Nat, StepsOfRequest' \in Nat,
           StepsOfRequest' < StepsOfRequest
    PROVE  Countable' /\ StepsLeft' < StepsLeft
<1>1. Cardinality(EntriesLeft) \in Nat /\ Cardinality(pgids) \in Nat
  BY FS_CardinalityType DEF Countable
<1>2. EntriesLeft' = EntriesLeft
  BY DEF EntriesLeft
<1> QED BY <1>1, <1>2 DEF Countable, StepsLeft

LEMMA AnswerShortens ==
    ASSUME CleanupInv, Countable, stage \in {"probe", "wait", "kill"},
           NEW result \in ProcessRemediationOutcome, Answer(result)
    PROVE  Countable' /\ StepsLeft' < StepsLeft
<1>1. /\ StepsOfRequest \in 1 .. 4 /\ StepsOfRequest' = 5
  BY DEF Answer, StepsOfRequest
<1>2. CASE current.kind = "process"
  <2>1. PICK i \in todo : i = current.for
    BY <1>2 DEF CleanupInv, RemediationIInv, RemediationInv, Remembered
  <2>2. Handled(i, result) /\ pgids' = pgids \cup {group[i]}
    BY <1>2, <2>1 DEF Answer
  <2>3. PICK e \in EntriesLeft : EntriesLeft' = EntriesLeft \ {e}
    BY <2>2, EntryLess DEF CleanupInv, RemediationIInv, RemediationInv
  <2>4. /\ IsFiniteSet(EntriesLeft') /\ Cardinality(EntriesLeft) \in Nat
        /\ Cardinality(EntriesLeft') \in Nat
        /\ Cardinality(EntriesLeft') = Cardinality(EntriesLeft) - 1
    BY <2>3, OneLess DEF Countable
  <2>5. /\ IsFiniteSet(pgids') /\ Cardinality(pgids) \in Nat
        /\ Cardinality(pgids') \in Nat
        /\ Cardinality(pgids') <= Cardinality(pgids) + 1
    BY <2>2, OneMore DEF Countable
  <2> QED BY <1>1, <2>5, <2>4 DEF Countable, StepsLeft
<1>3. CASE current.kind # "process"
  <2>1. /\ current.for \in pgids
        /\ EntriesLeft' = EntriesLeft /\ pgids' = pgids \ {current.for}
    BY <1>3 DEF Answer, CleanupInv, RemediationIInv, TypeOK, Request, RemediationInv, Remembered,
                EntriesLeft
  <2>2. /\ IsFiniteSet(pgids') /\ Cardinality(pgids) \in Nat
        /\ Cardinality(pgids') \in Nat
        /\ Cardinality(pgids') = Cardinality(pgids) - 1
    BY <2>1, OneLess DEF Countable
  <2>3. Cardinality(EntriesLeft) \in Nat
    BY FS_CardinalityType DEF Countable
  <2> QED BY <1>1, <2>1, <2>2, <2>3 DEF Countable, StepsLeft
<1> QED BY <1>2, <1>3

LEMMA DaemonShortens ==
    ASSUME CleanupInv, Countable, DaemonStep, stage # "idle"
    PROVE  Countable' /\ StepsLeft' < StepsLeft
<1>1. ASSUME NEW i \in Instances, Reject(i)
      PROVE  Countable' /\ StepsLeft' < StepsLeft
  <2>1. /\ i \in todo /\ Handled(i, "rejected")
        /\ UNCHANGED <<stage, pgids>>
    BY <1>1 DEF Reject, InTurn
  <2>2. PICK e \in EntriesLeft : EntriesLeft' = EntriesLeft \ {e}
    BY <2>1, EntryLess DEF CleanupInv, RemediationIInv, RemediationInv, ProcessRemediationOutcome
  <2>3. /\ IsFiniteSet(EntriesLeft') /\ Cardinality(EntriesLeft) \in Nat
        /\ Cardinality(EntriesLeft') \in Nat
        /\ Cardinality(EntriesLeft') = Cardinality(EntriesLeft) - 1
    BY <2>2, OneLess DEF Countable
  <2>4. Cardinality(pgids) \in Nat
    BY FS_CardinalityType DEF Countable
  <2>5. StepsOfRequest' = StepsOfRequest /\ StepsOfRequest \in Nat
    BY <2>1 DEF StepsOfRequest
  <2> QED BY <2>1, <2>3, <2>4, <2>5 DEF Countable, StepsLeft
<1>2. CASE Answer("already_exited") \/ Answer("terminated_gracefully")
             \/ Answer("terminated_forced")
  <2>1. stage' = "next"
    BY <1>2 DEF Answer
  <2>2. current' = NoRequest
    BY <1>2 DEF Answer
  <2>3. CASE stage \in {"probe", "wait", "kill"}
    BY <1>2, <2>3, AnswerShortens DEF ProcessRemediationOutcome, Terminated
  <2>4. CASE stage \notin {"probe", "wait", "kill"}
    BY <1>1, <2>1, <2>4
    DEF DaemonStep, TakeInventory, BeginProcess, BeginGroup, AllDone, Probe,
        SendTerm, Fail, WaitSeesExit, WaitTimesOut, SendKill
  <2> QED BY <2>3, <2>4
<1>3. ASSUME UNCHANGED <<todo, outcomes, pgids>>,
             \/ stage = "next" /\ stage' \in {"probe", "done"}
             \/ stage = "probe" /\ stage' = "term"
             \/ stage = "term" /\ stage' \in {"wait", "failed"}
             \/ stage = "wait" /\ stage' = "kill"
             \/ stage = "kill" /\ stage' = "failed"
      PROVE  Countable' /\ StepsLeft' < StepsLeft
  <2>1. /\ StepsOfRequest \in Nat /\ StepsOfRequest' \in Nat
        /\ StepsOfRequest' < StepsOfRequest
    BY <1>3 DEF StepsOfRequest
  <2> QED BY <1>3, <2>1, RequestShortens
<1>4. CASE \/ \E i \in Instances : BeginProcess(i)
           \/ \E g \in Pids : BeginGroup(g)
           \/ AllDone \/ WaitTimesOut
  BY <1>3, <1>4 DEF BeginProcess, BeginGroup, AllDone, WaitTimesOut
<1>5. CASE Probe \/ SendTerm \/ WaitSeesExit \/ SendKill
  BY <1>2, <1>3, <1>5 DEF Probe, SendTerm, WaitSeesExit, SendKill, Fail, progress
<1> QED BY <1>1, <1>4, <1>5 DEF DaemonStep, TakeInventory

(* wait_for_exit, wait_for_group_exit: whatever processes do about signals  *)
(* and whoever gets their pids, each step of the daemon brings a cleanup    *)
(* closer to its end, and what happens outside does not take it back.  With *)
(* n mentions of the session there are at most 12n + 5 steps.               *)
THEOREM CleanupShortens ==
    ASSUME IsFiniteSet(Instances)
    PROVE  Spec => /\ [](StepsLeft \in Nat)
                   /\ [][/\ DaemonStep /\ stage # "idle" => StepsLeft' < StepsLeft
                         /\ SystemStep => StepsLeft' = StepsLeft]_vars
<1> DEFINE Slots(i) == {i} \X (1 .. Mentions[i])
           slots == [i \in Matching |-> Slots(i)]
           Grouped == IsFiniteSet(pgids)
           All == UNION {Slots(i) : i \in Matching}
<1>1. IsFiniteSet(All)
  <2>1. IsFiniteSet(Matching)
    BY FS_Subset, OwnershipAssumption
  <2>2. slots \in Surjection(Matching, {Slots(i) : i \in Matching})
    BY DEF Surjection
  <2>3. IsFiniteSet({Slots(i) : i \in Matching})
    BY <2>1, <2>2, FS_Surjection
  <2>4. \A i \in Matching : IsFiniteSet(Slots(i))
    <3> SUFFICES ASSUME NEW i \in Matching PROVE IsFiniteSet(Slots(i))
      OBVIOUS
    <3>1. IsFiniteSet({i})
      BY FS_Singleton
    <3>2. 1 \in Int /\ Mentions[i] \in Int
      BY MentionsAssumption
    <3>3. IsFiniteSet(1 .. Mentions[i])
      BY <3>2, FS_Interval
    <3> QED BY <3>1, <3>3, FS_Product
  <2> QED BY <2>3, <2>4, FS_UNION
<1>2. CleanupInv => EntriesLeft \subseteq All
  <2> SUFFICES ASSUME CleanupInv, NEW e \in EntriesLeft PROVE e \in All
    OBVIOUS
  <2>1. /\ e \in Matching \X Nat /\ e[2] <= Mentions[e[1]]
        /\ e[1] \in todo /\ Len(outcomes[e[1]]) < e[2]
    BY DEF EntriesLeft
  <2>2. e[1] \in Instances /\ Len(outcomes[e[1]]) \in Nat
    BY <2>1, OwnershipAssumption DEF CleanupInv, RemediationIInv, TypeOK
  <2>3. e = <<e[1], e[2]>> /\ e[1] \in Matching /\ e[2] \in 1 .. Mentions[e[1]]
    BY <2>1, <2>2, MentionsAssumption
  <2> QED BY <2>3
<1>3. CleanupInv => IsFiniteSet(EntriesLeft)
  BY <1>1, <1>2, FS_Subset
<1> HIDE DEF Slots, slots, Grouped, All
<1>4. Init => Grouped
  BY FS_EmptySet DEF Init, Grouped
<1>5. ASSUME CleanupInv, Grouped, [Next]_vars PROVE Grouped'
  <2>1. CASE DaemonStep /\ stage # "idle"
    BY <1>3, <1>5, <2>1, DaemonShortens DEF Countable, Grouped
  <2>2. CASE DaemonStep /\ stage = "idle"
    BY <1>5, <2>2
    DEF DaemonStep, TakeInventory, Reject, BeginProcess, BeginGroup, AllDone,
        Probe, SendTerm, WaitSeesExit, WaitTimesOut, SendKill, Grouped
  <2>3. CASE SystemStep \/ UNCHANGED vars
    BY <1>5, <2>3 DEF SystemStep, daemon, vars, Grouped
  <2> QED BY <1>5, <2>1, <2>2, <2>3 DEF Next
<1>6. ASSUME CleanupInv, Grouped PROVE StepsLeft \in Nat
  <2>1. Cardinality(EntriesLeft) \in Nat /\ Cardinality(pgids) \in Nat
    BY <1>3, <1>6, FS_CardinalityType DEF Grouped
  <2>2. StepsOfRequest \in Nat
    BY DEF StepsOfRequest
  <2> QED BY <2>1, <2>2 DEF StepsLeft
<1>7. ASSUME CleanupInv, Grouped
      PROVE  /\ DaemonStep /\ stage # "idle" => StepsLeft' < StepsLeft
             /\ SystemStep => StepsLeft' = StepsLeft
  <2>1. SystemStep => UNCHANGED <<todo, outcomes, pgids, stage>>
    BY DEF SystemStep, daemon
  <2>2. SystemStep => StepsLeft' = StepsLeft
    BY <2>1 DEF StepsLeft, StepsOfRequest, EntriesLeft
  <2> QED BY <1>3, <1>7, <2>2, DaemonShortens DEF Countable, Grouped
<1> QED BY <1>4, <1>5, <1>6, <1>7, CleanupInvHolds, PTL DEF Spec
=============================================================================
