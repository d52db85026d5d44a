---------------------------- MODULE OrphansProofs ----------------------------
(***************************************************************************)
(* Whom the orphans command ends, for any number of processes, any reuse   *)
(* of their pids and any answer of ps.                                     *)
(***************************************************************************)
EXTENDS Orphans, FiniteSetTheorems, TLAPS

(* The machine: nothing that was born is born again or changes its pid,     *)
(* nothing gets a terminal back, and those that are present have pids of    *)
(* their own.                                                               *)
Persist ==
    /\ \A i \in Instances : life[i] # "unborn" =>
          /\ pid'[i] = pid[i]
          /\ life'[i] # "unborn"
          /\ life'[i] = "running" => life[i] = "running"
          /\ life[i] = "gone" => life'[i] = "gone"
    /\ \A i, j \in Present' : pid'[i] = pid'[j] => i = j
    /\ detached \subseteq detached'

LEMMA BornStep ==
    ASSUME TypeOK, Remembered, NEW i \in Instances, NEW p \in Pids, Born(i, p),
           UNCHANGED <<command, history>>
    PROVE  TypeOK' /\ Persist
<1>1. PICK g \in {p} \cup {group[j] : j \in Running} :
         group' = [group EXCEPT ![i] = g]
  BY DEF Born, Spawn
<1>2. g \in Pids \cup {NoPid}
  BY <1>1 DEF Running, TypeOK
<1>3. /\ life[i] = "unborn"
      /\ \A j \in Present : p # pid[j]
      /\ life' = [life EXCEPT ![i] = "running"]
      /\ pid' = [pid EXCEPT ![i] = p]
  BY DEF Born, Spawn
<1>4. PICK j \in Running \cup {NoOne} : parent' = [parent EXCEPT ![i] = j]
  BY DEF Born
<1>5. Running \subseteq Running'
  BY <1>3 DEF Running, TypeOK
<1>6. parent' \in [Instances -> Running' \cup {NoOne}]
  BY <1>4, <1>5 DEF TypeOK
<1>7. detached' \subseteq Instances /\ detached \subseteq detached' /\ large' = large
  BY DEF Born, TypeOK
<1>8. TypeOK'
  BY <1>1, <1>2, <1>3, <1>6, <1>7 DEF TypeOK, command, history
<1>9. Persist
  BY <1>3, <1>7 DEF Persist, Present, TypeOK, Remembered
<1> QED BY <1>8, <1>9

LEMMA SystemStepKeeps ==
    ASSUME TypeOK, Remembered, SystemStep
    PROVE  TypeOK' /\ Persist
<1>0. UNCHANGED <<command, history>>
  BY DEF SystemStep
<1>1. ASSUME NEW i \in Instances, Exits(i) PROVE TypeOK' /\ Persist
  <2>1. /\ life[i] = "running"
        /\ life' = [life EXCEPT ![i] = "zombie"]
        /\ UNCHANGED <<pid, group, detached>>
        /\ large' \subseteq large
        /\ parent' = [j \in Instances |-> IF parent[j] \in {i} THEN NoOne ELSE parent[j]]
    BY <1>1 DEF Exits, ExitOf, Left
  <2>2. Running' = Running \ {i}
    BY <2>1 DEF Running, TypeOK
  <2>3. parent' \in [Instances -> Running' \cup {NoOne}]
    BY <2>1, <2>2 DEF TypeOK
  <2>4. life' \in [Instances -> {"unborn", "running", "zombie", "gone"}]
    BY <2>1 DEF TypeOK
  <2>5. TypeOK'
    BY <1>0, <2>1, <2>3, <2>4 DEF TypeOK, command, history
  <2>6. Persist
    BY <2>1 DEF Persist, Present, TypeOK, Remembered
  <2> QED BY <2>5, <2>6
<1>2. ASSUME NEW i \in Instances, Reaped(i) PROVE TypeOK' /\ Persist
  <2>1. /\ life[i] = "zombie"
        /\ life' = [life EXCEPT ![i] = "gone"]
        /\ UNCHANGED <<pid, group, parent, detached, large>>
    BY <1>2 DEF Reaped, Reap, outside
  <2>2. Running' = Running
    BY <2>1 DEF Running, TypeOK
  <2>3. TypeOK'
    BY <1>0, <2>1, <2>2 DEF TypeOK, command, history
  <2>4. Persist
    BY <2>1 DEF Persist, Present, TypeOK, Remembered
  <2> QED BY <2>3, <2>4
<1>3. ASSUME NEW i \in Instances, Detach(i) \/ Grow(i) \/ Shrink(i)
      PROVE  TypeOK' /\ Persist
  <2>1. /\ UNCHANGED <<life, pid, group, parent>>
        /\ detached \subseteq detached' /\ detached' \subseteq Instances
        /\ large' \subseteq Instances
    BY <1>3 DEF Detach, Grow, Shrink, system, TypeOK
  <2>2. Running' = Running /\ Present' = Present
    BY <2>1 DEF Running, Present
  <2>3. TypeOK'
    BY <1>0, <2>1, <2>2 DEF TypeOK, command, history
  <2>4. Persist
    BY <2>1, <2>2 DEF Persist, Remembered
  <2> QED BY <2>3, <2>4
<1> QED BY <1>0, <1>1, <1>2, <1>3, BornStep DEF SystemStep

(* What the invariant adds up to, and what the properties need of it. *)
OrphansInv == Remembered /\ OrphansSpared /\ CountsTrue /\ FailuresAreRaces

(* The machine disturbs nothing that the command remembers. *)
LEMMA PersistInv ==
    ASSUME TypeOK, OrphansInv, TypeOK', Persist, UNCHANGED <<command, history>>,
           stage # "failed"
    PROVE  OrphansInv'
<1>1. \A i \in elders : /\ pid'[i] = pid[i] /\ life'[i] # "unborn"
                        /\ life'[i] = "running" => life[i] = "running"
                        /\ life[i] = "gone" => life'[i] = "gone"
  BY DEF Persist, OrphansInv, Remembered, TypeOK
<1>2. UNCHANGED <<stage, rightful, todo, current, ended, elders, signalled>>
  BY DEF command, history
<1>3. todo \subseteq elders /\ ended \subseteq elders
  BY DEF TypeOK
<1>4. Remembered'
  BY <1>1, <1>2, <1>3 DEF Persist, OrphansInv, Remembered
<1>5. OrphansSpared'
  BY <1>2 DEF Persist, OrphansInv, OrphansSpared
<1>6. CountsTrue'
  BY <1>1, <1>2, <1>3 DEF OrphansInv, CountsTrue, Running, TypeOK
<1> QED BY <1>2, <1>4, <1>5, <1>6 DEF OrphansInv, FailuresAreRaces

-----------------------------------------------------------------------------
(* The pid of the candidate in hand means no other process of the           *)
(* inventory, and the candidate itself only if it has no terminal.          *)
LEMMA EldersReached ==
    ASSUME TypeOK, Remembered, stage \in {"probe", "term", "wait", "kill"},
           NEW i \in Reachable \cap elders
    PROVE  i = current /\ i \in rightful \cap detached
<1>1. current \in todo /\ current \in rightful /\ current \in elders
  BY DEF TypeOK, Remembered
<1>2. pid[i] = pid[current] /\ i \in Present
  BY DEF Reachable, Addressed
<1>3. i = current
  BY <1>1, <1>2 DEF Remembered
<1> QED BY <1>1, <1>2, <1>3 DEF Remembered, Present

(* A candidate that is there is reached. *)
LEMMA CandidateReached ==
    ASSUME TypeOK, Remembered, stage \in {"probe", "term", "wait", "kill"},
           life[current] \in {"running", "zombie"}
    PROVE  current \in Reachable
BY DEF TypeOK, Remembered, Reachable, Addressed, Present

LEMMA SignalSpares ==
    ASSUME TypeOK, OrphansInv, stage \in {"term", "kill"},
           signalled' = signalled \cup Reachable,
           UNCHANGED <<elders, rightful, detached>>
    PROVE  OrphansSpared' /\ signalled' \subseteq Instances
<1>1. signalled' \cap elders \subseteq rightful \cap detached
  BY EldersReached DEF OrphansInv, OrphansSpared
<1> QED BY <1>1 DEF OrphansSpared, Reachable, Addressed, Present, TypeOK

(* The end of a cycle forgets the inventory. *)
LEMMA EndCycleKeeps ==
    ASSUME TypeOK, OrphansInv, EndCycle, current = NoOne,
           UNCHANGED <<system, outside, mode, force, current>>
    PROVE  TypeOK' /\ OrphansInv'
<1>1. /\ stage' \in {"print", "idle"} /\ unprinted' = TRUE
      /\ rightful' = {} /\ todo' = {} /\ ended' = {}
      /\ elders' = {} /\ signalled' = {}
  BY DEF EndCycle
<1>2. Running' = Running /\ Present' = Present
  BY DEF system, Running, Present
<1>3. TypeOK'
  BY <1>1, <1>2 DEF TypeOK, system, outside
<1>4. Remembered'
  BY <1>1, <1>2 DEF OrphansInv, Remembered, system
<1> QED BY <1>1, <1>3, <1>4
        DEF OrphansInv, OrphansSpared, CountsTrue, FailuresAreRaces

(* An answer: what is counted as terminated runs no more. *)
LEMMA AnswerKeeps ==
    ASSUME TypeOK, OrphansInv, stage \in {"probe", "wait", "kill"},
           NEW terminated \in BOOLEAN, Answer(terminated),
           terminated => life'[current] # "running",
           UNCHANGED <<mode, force, rightful, unprinted, elders, pid, group, detached>>,
           life' \in [Instances -> {"unborn", "running", "zombie", "gone"}],
           parent' \in [Instances -> Running' \cup {NoOne}],
           large' \subseteq Instances,
           signalled' \subseteq Instances, OrphansSpared', Persist
    PROVE  TypeOK' /\ OrphansInv'
<1>1. /\ stage' = "next" /\ current' = NoOne
      /\ todo' = todo \ {current}
      /\ ended' = IF terminated THEN ended \cup {current} ELSE ended
  BY DEF Answer
<1>2. current \in rightful /\ current \in Instances
  BY DEF TypeOK, OrphansInv, Remembered
<1>3. TypeOK'
  BY <1>1, <1>2 DEF TypeOK
<1>4. \A i \in elders : /\ life'[i] # "unborn"
                        /\ life'[i] = "running" => life[i] = "running"
                        /\ life[i] = "gone" => life'[i] = "gone"
  BY DEF Persist, OrphansInv, Remembered, TypeOK
<1>5. todo \subseteq elders /\ ended \subseteq elders
  BY DEF TypeOK
<1>6. Remembered'
  BY <1>1, <1>4, <1>5 DEF OrphansInv, Remembered, Persist
<1>7. CountsTrue'
  <2> SUFFICES ASSUME NEW i \in ended', i \in Running' PROVE FALSE
    BY DEF CountsTrue
  <2>1. life'[i] = "running"
    BY DEF Running
  <2>2. CASE i \in ended
    BY <2>1, <2>2, <1>4, <1>5 DEF OrphansInv, CountsTrue, Running, TypeOK
  <2>3. CASE i \notin ended
    BY <2>1, <2>3, <1>1
  <2> QED BY <2>2, <2>3
<1> QED BY <1>1, <1>3, <1>6, <1>7 DEF OrphansInv, FailuresAreRaces

(* A step that only moves on. *)
LEMMA GotoKeeps ==
    ASSUME TypeOK, OrphansInv, stage \in {"probe", "term", "wait", "kill"},
           NEW s \in {"term", "wait", "kill", "failed"}, Goto(s),
           s = "failed" => current \notin Running',
           UNCHANGED <<mode, force, rightful, unprinted, elders, pid, group, detached>>,
           life' \in [Instances -> {"unborn", "running", "zombie", "gone"}],
           parent' \in [Instances -> Running' \cup {NoOne}],
           large' \subseteq Instances,
           signalled' \subseteq Instances, OrphansSpared', Persist
    PROVE  TypeOK' /\ OrphansInv'
<1>1. stage' = s /\ UNCHANGED <<todo, ended, current>>
  BY DEF Goto
<1>2. TypeOK'
  BY <1>1 DEF TypeOK
<1>3. \A i \in elders : /\ life'[i] # "unborn"
                        /\ life'[i] = "running" => life[i] = "running"
                        /\ life[i] = "gone" => life'[i] = "gone"
  BY DEF Persist, OrphansInv, Remembered, TypeOK
<1>4. todo \subseteq elders /\ ended \subseteq elders
  BY DEF TypeOK
<1>5. Remembered'
  BY <1>1, <1>3, <1>4 DEF OrphansInv, Remembered, Persist
<1>6. CountsTrue'
  BY <1>1, <1>3, <1>4 DEF OrphansInv, CountsTrue, Running, TypeOK
<1> QED BY <1>1, <1>2, <1>5, <1>6 DEF OrphansInv, FailuresAreRaces

LEMMA StillPersists ==
    ASSUME TypeOK, Remembered, UNCHANGED <<system, outside>>
    PROVE  /\ Persist
           /\ Running' = Running
           /\ Present' = Present
BY DEF Persist, Remembered, system, outside, Running, Present

LEMMA QuietKeeps ==
    ASSUME TypeOK, OrphansInv, Quiet
    PROVE  TypeOK' /\ OrphansInv'
<1>0. /\ UNCHANGED <<system, outside>>
      /\ UNCHANGED <<life, pid, group, parent, detached, large>>
      /\ Running' = Running /\ Present' = Present /\ Persist
  BY StillPersists DEF Quiet, system, outside, OrphansInv
<1>1. CASE CollectLive
  <2>1. /\ stage = "idle" /\ stage' = "ps" /\ elders' = Present
        /\ rightful' = {i \in Present : Accepted(i) /\ (mode = "guard" => i \in large)}
        /\ UNCHANGED <<mode, force, todo, current, ended, unprinted, signalled>>
    BY <1>1 DEF CollectLive
  <2>2. /\ signalled = {} /\ ended = {} /\ todo = {} /\ current = NoOne
    BY <2>1 DEF OrphansInv, Remembered
  <2>3. rightful' \subseteq Present \ Foreign /\ Present \subseteq Instances
    BY <2>1 DEF Accepted, Present
  <2>4. TypeOK'
    BY <1>0, <2>1, <2>2, <2>3 DEF TypeOK
  <2>5. Remembered'
    BY <1>0, <2>1, <2>2, <2>3 DEF OrphansInv, Remembered, Present
  <2> QED BY <2>1, <2>2, <2>4, <2>5
          DEF OrphansInv, OrphansSpared, CountsTrue, FailuresAreRaces
<1>2. CASE MatchTtys
  <2>0. /\ stage = "ps" /\ current = NoOne /\ ended = {}
        /\ UNCHANGED <<mode, force, current>>
    BY <1>2 DEF MatchTtys, OrphansInv, Remembered
  <2>1. CASE mode \in {"kill", "guard"}
    <3>1. /\ stage' = "next" /\ todo' = Candidates
          /\ UNCHANGED <<rightful, ended, unprinted, elders, signalled>>
      BY <1>2, <2>1 DEF MatchTtys, history
    <3>2. Candidates \subseteq rightful
      BY DEF Candidates
    <3>3. ASSUME NEW i \in Candidates PROVE i \in detached \/ life[i] = "gone"
      <4>1. PICK j \in Present \cap detached : pid[j] = pid[i]
        BY DEF Candidates
      <4>2. i \in elders /\ i \in Instances /\ life[i] # "unborn"
        BY <3>2 DEF TypeOK, OrphansInv, Remembered
      <4>3. CASE i \in Present
        BY <4>1, <4>3 DEF OrphansInv, Remembered
      <4>4. CASE i \notin Present
        BY <4>2, <4>4 DEF Present, TypeOK
      <4> QED BY <4>3, <4>4
    <3>4. TypeOK'
      BY <1>0, <2>0, <3>1, <3>2 DEF TypeOK
    <3>5. Remembered'
      BY <1>0, <2>0, <3>1, <3>3 DEF OrphansInv, Remembered
    <3> QED BY <1>0, <2>0, <3>1, <3>4, <3>5
            DEF OrphansInv, OrphansSpared, CountsTrue, FailuresAreRaces
  <2>2. CASE mode \notin {"kill", "guard"}
    BY <1>0, <1>2, <2>0, <2>2, EndCycleKeeps DEF MatchTtys
  <2> QED BY <2>1, <2>2
<1>3. CASE TtysUnknown
  BY <1>0, <1>3, EndCycleKeeps DEF TtysUnknown, OrphansInv, Remembered
<1>4. CASE NoPs
  <2>1. /\ stage = "ps" /\ stage' = "failed"
        /\ UNCHANGED <<mode, force, rightful, todo, current, ended, unprinted,
                       elders, signalled>>
    BY <1>4 DEF NoPs, history
  <2>2. current = NoOne /\ current \notin Running
    BY <2>1, OrphansAssumption DEF OrphansInv, Remembered, Running
  <2>3. TypeOK'
    BY <1>0, <2>1 DEF TypeOK
  <2>4. Remembered'
    BY <1>0, <2>1 DEF OrphansInv, Remembered
  <2> QED BY <1>0, <2>1, <2>2, <2>3, <2>4
          DEF OrphansInv, OrphansSpared, CountsTrue, FailuresAreRaces
<1>5. ASSUME NEW i \in Instances, BeginCandidate(i) PROVE TypeOK' /\ OrphansInv'
  <2>1. /\ i \in todo /\ stage' = "probe" /\ current' = i
        /\ UNCHANGED <<mode, force, rightful, todo, ended, unprinted,
                       elders, signalled>>
    BY <1>5 DEF BeginCandidate, history
  <2>2. i # NoOne
    BY OrphansAssumption
  <2>3. TypeOK'
    BY <1>0, <2>1 DEF TypeOK
  <2>4. Remembered'
    BY <1>0, <2>1, <2>2 DEF OrphansInv, Remembered
  <2> QED BY <1>0, <2>1, <2>3, <2>4
          DEF OrphansInv, OrphansSpared, CountsTrue, FailuresAreRaces
<1>6. CASE AllDone
  BY <1>0, <1>6, EndCycleKeeps DEF AllDone, OrphansInv, Remembered
<1>7. ASSUME UNCHANGED <<mode, force, rightful, unprinted, elders, signalled>>
      PROVE  /\ life' \in [Instances -> {"unborn", "running", "zombie", "gone"}]
             /\ parent' \in [Instances -> Running' \cup {NoOne}]
             /\ large' \subseteq Instances
             /\ signalled' \subseteq Instances
             /\ OrphansSpared'
  BY <1>0, <1>7 DEF TypeOK, OrphansInv, OrphansSpared
<1>8. CASE Probe
  <2>1. /\ stage = "probe"
        /\ UNCHANGED <<mode, force, rightful, unprinted, elders, signalled>>
    BY <1>8 DEF Probe, history
  <2>2. CASE ~ IsAlive
    BY <1>0, <1>7, <1>8, <2>1, <2>2, AnswerKeeps DEF Probe
  <2>3. CASE IsAlive
    <3>1. PICK s \in {"term", "kill"} : Goto(s)
      BY <1>8, <2>3 DEF Probe
    <3> QED BY <1>0, <1>7, <2>1, <3>1, GotoKeeps
  <2> QED BY <2>2, <2>3
<1>9. CASE SendTerm
  <2>1. /\ stage = "term"
        /\ UNCHANGED <<mode, force, rightful, unprinted, elders>>
        /\ signalled' = signalled \cup Reachable
        /\ Goto(IF Reachable = {} THEN "failed" ELSE "wait")
    BY <1>9 DEF SendTerm
  <2>2. OrphansSpared' /\ signalled' \subseteq Instances
    BY <1>0, <2>1, SignalSpares
  <2>3. Reachable = {} => current \notin Running'
    BY <1>0, <2>1, CandidateReached DEF OrphansInv, Running
  <2>4. /\ life' \in [Instances -> {"unborn", "running", "zombie", "gone"}]
        /\ parent' \in [Instances -> Running' \cup {NoOne}]
        /\ large' \subseteq Instances
    BY <1>0 DEF TypeOK
  <2>5. PICK s \in {"failed", "wait"} :
           Goto(s) /\ (s = "failed" => Reachable = {})
    BY <2>1
  <2> QED BY <1>0, <2>1, <2>2, <2>3, <2>4, <2>5, GotoKeeps
<1>10. CASE WaitSeesExit
  <2>1. /\ stage = "wait" /\ ~ IsAlive /\ Answer(TRUE)
        /\ UNCHANGED <<mode, force, rightful, unprinted, elders, signalled>>
    BY <1>10 DEF WaitSeesExit, history
  <2>2. life[current] # "running"
    BY <2>1, CandidateReached DEF OrphansInv, IsAlive, Reachable
  <2> QED BY <1>0, <1>7, <2>1, <2>2, AnswerKeeps
<1>11. CASE WaitTimesOut
  <2>1. /\ stage = "wait" /\ Goto("kill")
        /\ UNCHANGED <<mode, force, rightful, unprinted, elders, signalled>>
    BY <1>11 DEF WaitTimesOut, history
  <2> QED BY <1>0, <1>7, <2>1, GotoKeeps
<1>12. CASE Output
  <2>1. /\ stage = "print" /\ stage' = "done" /\ unprinted' = FALSE
        /\ UNCHANGED <<mode, force, rightful, todo, current, ended, elders, signalled>>
    BY <1>12 DEF Output, history
  <2>2. TypeOK'
    BY <1>0, <2>1 DEF TypeOK
  <2>3. Remembered'
    BY <1>0, <2>1 DEF OrphansInv, Remembered
  <2> QED BY <1>0, <2>1, <2>2, <2>3
          DEF OrphansInv, OrphansSpared, CountsTrue, FailuresAreRaces
<1> QED BY <1>1, <1>2, <1>3, <1>4, <1>5, <1>6, <1>8, <1>9, <1>10, <1>11, <1>12
        DEF Quiet

LEMMA SendKillKeeps ==
    ASSUME TypeOK, OrphansInv, SendKill
    PROVE  TypeOK' /\ OrphansInv'
<1>1. /\ stage = "kill"
      /\ signalled' = signalled \cup Reachable
      /\ UNCHANGED <<pid, group, detached, mode, force, rightful, unprinted, elders>>
      /\ life' = [i \in Instances |-> IF i \in Reachable /\ life[i] = "running"
                                      THEN "zombie" ELSE life[i]]
      /\ large' = large \ Reachable
      /\ parent' = [j \in Instances |->
                       IF parent[j] \in Reachable THEN NoOne ELSE parent[j]]
  BY DEF SendKill, Killed, Left
<1>2. Running' = Running \ Reachable /\ Present' = Present
  BY <1>1 DEF Running, Present
<1>3. /\ life' \in [Instances -> {"unborn", "running", "zombie", "gone"}]
      /\ parent' \in [Instances -> Running' \cup {NoOne}]
      /\ large' \subseteq Instances
  BY <1>1, <1>2 DEF TypeOK
<1>4. Persist
  BY <1>1, <1>2 DEF Persist, OrphansInv, Remembered
<1>5. OrphansSpared' /\ signalled' \subseteq Instances
  BY <1>1, SignalSpares
<1>6. current \notin Running'
  BY <1>1, <1>2, CandidateReached DEF OrphansInv, Running
<1>7. CASE Reachable = {}
  <2>1. Goto("failed")
    BY <1>7 DEF SendKill
  <2> QED BY <1>1, <1>3, <1>4, <1>5, <1>6, <2>1, GotoKeeps
<1>8. CASE Reachable # {}
  <2>1. Answer(TRUE)
    BY <1>8 DEF SendKill
  <2>2. life'[current] # "running"
    BY <1>1, <1>6 DEF Running, TypeOK, OrphansInv, Remembered
  <2> QED BY <1>1, <1>3, <1>4, <1>5, <2>1, <2>2, AnswerKeeps
<1> QED BY <1>7, <1>8

LEMMA InitHolds == Init => TypeOK /\ OrphansInv
<1> SUFFICES ASSUME Init PROVE TypeOK /\ OrphansInv
  OBVIOUS
<1>1. PICK c \in Calls : mode = c.mode /\ force = c.force
  BY DEF Init
<1>2. [mode |-> mode, force |-> force] \in Calls
  <2>1. c \in [mode : {"list", "kill", "watch", "guard"}, force : BOOLEAN]
    BY OrphansAssumption
  <2>2. c = [mode |-> c.mode, force |-> c.force]
    BY <2>1
  <2> QED BY <1>1, <2>2
<1>3. TypeOK
  BY <1>2 DEF Init, Empty, TypeOK
<1>4. Remembered
  BY DEF Init, Empty, Remembered, Present
<1> QED BY <1>3, <1>4
        DEF OrphansInv, OrphansSpared, CountsTrue, FailuresAreRaces, Init

LEMMA Inductive == Spec => [](TypeOK /\ OrphansInv)
<1>1. TypeOK /\ OrphansInv /\ [Next]_vars => TypeOK' /\ OrphansInv'
  <2> SUFFICES ASSUME TypeOK, OrphansInv, [Next]_vars
               PROVE  TypeOK' /\ OrphansInv'
    OBVIOUS
  <2>1. CASE Quiet
    BY <2>1, QuietKeeps
  <2>2. CASE SendKill
    BY <2>2, SendKillKeeps
  <2>3. CASE SystemStep
    <3>1. TypeOK' /\ Persist
      BY <2>3, SystemStepKeeps DEF OrphansInv
    <3> QED BY <2>3, <3>1, PersistInv DEF SystemStep
  <2>4. CASE UNCHANGED vars
    <3>1. Running' = Running /\ Present' = Present
      BY <2>4 DEF vars, system, Running, Present
    <3>2. TypeOK'
      BY <2>4, <3>1 DEF vars, system, outside, command, history, TypeOK
    <3> QED BY <2>4, <3>1, <3>2
            DEF vars, system, outside, command, history, OrphansInv, Remembered,
                OrphansSpared, CountsTrue, FailuresAreRaces
  <2> QED BY <2>1, <2>2, <2>3, <2>4 DEF Next, RunOrphans
<1> QED BY <1>1, InitHolds, PTL DEF Spec

(* The inductive invariant of the orphans command (orphans.rs), for any     *)
(* number of processes and pids.                                            *)
THEOREM OrphansIInvHolds == Spec => []OrphansIInv
<1>1. TypeOK /\ OrphansInv => OrphansIInv
  BY DEF OrphansInv, OrphansIInv
<1> QED BY <1>1, Inductive, PTL

(* scan_with_inventory: of the processes of the inventory, none is          *)
(* signalled that validation rejects or that has a terminal.                *)
THEOREM OrphansSparedHolds == Spec => []OrphansSpared
<1>1. TypeOK /\ OrphansInv => OrphansSpared
  BY DEF OrphansInv
<1> QED BY <1>1, Inductive, PTL

(* remediate_candidates: what is counted as terminated runs no more. *)
THEOREM CountsTrueHolds == Spec => []CountsTrue
<1>1. TypeOK /\ OrphansInv => CountsTrue
  BY DEF OrphansInv
<1> QED BY <1>1, Inductive, PTL

(* remediate_candidates: an error only comes of a candidate that has exited.*)
THEOREM FailuresAreRacesHolds == Spec => []FailuresAreRaces
<1>1. TypeOK /\ OrphansInv => FailuresAreRaces
  BY DEF OrphansInv
<1> QED BY <1>1, Inductive, PTL

-----------------------------------------------------------------------------
(* The command implements the remediator. *)

(* Everyone of the inventory who got a signal is counted, or in hand. *)
Counted ==
    /\ stage = "idle" => elders = {}
    /\ SignalledElders \subseteq ended \cup Asked
    /\ stage = "probe" => SignalledElders \subseteq ended

CommandInv == TypeOK /\ OrphansInv /\ Counted

(* Of the inventory, a signal reaches only the candidate in hand. *)
LEMMA AskedReached ==
    ASSUME CommandInv, stage \in {"term", "kill"}
    PROVE  Reachable \cap elders \subseteq Asked
BY EldersReached DEF CommandInv, OrphansInv, Remembered, Asked

LEMMA CountedInductive == ASSUME CommandInv, [Next]_vars PROVE Counted'
<1> USE DEF Counted, SignalledElders
<1>1. CASE SystemStep \/ UNCHANGED vars
  BY <1>1 DEF CommandInv, SystemStep, command, history, vars, Asked
<1>2. CASE CollectLive
  BY <1>2 DEF CollectLive, CommandInv, OrphansInv, Remembered
<1>3. CASE EndCycle
  BY <1>3 DEF EndCycle
<1>4. CASE MatchTtys \/ TtysUnknown \/ NoPs
  <2>1. CASE EndCycle
    BY <1>3, <2>1
  <2>2. CASE ~ EndCycle
    <3>1. /\ stage' \in {"next", "failed"}
          /\ UNCHANGED <<ended, elders, signalled, current>>
      BY <1>4, <2>2 DEF MatchTtys, TtysUnknown, NoPs, history
    <3> QED BY <3>1 DEF CommandInv, Asked
  <2> QED BY <2>1, <2>2
<1>5. ASSUME NEW i \in Instances, BeginCandidate(i) PROVE Counted'
  <2>1. /\ stage = "next" /\ stage' = "probe"
        /\ UNCHANGED <<ended, elders, signalled>>
    BY <1>5 DEF BeginCandidate, history
  <2>2. Asked = {}
    BY <2>1 DEF CommandInv, OrphansInv, Remembered, Asked
  <2> QED BY <2>1, <2>2 DEF CommandInv
<1>6. CASE AllDone
  BY <1>3, <1>6 DEF AllDone
<1>7. CASE Probe
  <2>1. UNCHANGED <<elders, signalled>> /\ stage = "probe"
    BY <1>7 DEF Probe, history
  <2>2. \/ Answer(FALSE)
        \/ \E s \in {"term", "kill"} : Goto(s)
    BY <1>7 DEF Probe
  <2> QED BY <2>1, <2>2 DEF CommandInv, Answer, Goto
<1>8. CASE SendTerm \/ SendKill
  <2>1. /\ stage \in {"term", "kill"}
        /\ elders' = elders /\ signalled' = signalled \cup Reachable
        /\ \/ Answer(TRUE)
           \/ \E s \in {"wait", "failed"} : Goto(s)
    BY <1>8 DEF SendTerm, SendKill
  <2>2. SignalledElders' \subseteq ended \cup Asked
    BY <2>1, AskedReached DEF CommandInv
  <2>3. ended \cup Asked \subseteq ended' \cup Asked'
    BY <2>1 DEF Answer, Goto, Asked
  <2> QED BY <2>1, <2>2, <2>3 DEF Answer, Goto
<1>9. CASE WaitSeesExit
  <2>1. UNCHANGED <<elders, signalled>> /\ Answer(TRUE)
    BY <1>9 DEF WaitSeesExit, history
  <2> QED BY <2>1 DEF CommandInv, Answer, Asked
<1>10. CASE WaitTimesOut \/ Output
  <2>1. /\ UNCHANGED <<ended, elders, signalled, current>>
        /\ stage' \in {"kill", "done"}
    BY <1>10 DEF WaitTimesOut, Output, history, Goto
  <2> QED BY <2>1 DEF CommandInv, Asked
<1> QED BY <1>1, <1>2, <1>4, <1>5, <1>6, <1>7, <1>8, <1>9, <1>10
        DEF Next, RunOrphans, Quiet

LEMMA CommandInvHolds == Spec => []CommandInv
<1>1. Init => Counted
  BY DEF Init, Counted, SignalledElders
<1>2. CommandInv /\ [Next]_vars => Counted'
  BY CountedInductive
<1> QED BY <1>1, <1>2, Inductive, PTL DEF Spec, CommandInv

(* While a candidate is in hand, it is of the inventory. *)
LEMMA SomeoneAsked ==
    ASSUME CommandInv, stage \in {"probe", "term", "wait", "kill"}
    PROVE  /\ Asked = {current} /\ Asked \subseteq elders
           /\ current \in Instances
BY DEF CommandInv, TypeOK, OrphansInv, Remembered, Asked

(* The end of a cycle forgets. *)
LEMMA EndCycleImplements ==
    ASSUME CommandInv, EndCycle, current = NoOne, stage # "failed",
           UNCHANGED <<life, current>>
    PROVE  Promised!Forget
<1>1. /\ elders' = {} /\ signalled' = {} /\ ended' = {} /\ stage' # "failed"
  BY DEF EndCycle
<1>2. Asked = {} /\ Asked' = {} /\ SignalledElders' = {} /\ Running' = Running
  BY <1>1 DEF Asked, SignalledElders, Running
<1> QED BY <1>1, <1>2 DEF Promised!Forget

(* An answer, with what was signalled for it. *)
LEMMA AnswerImplements ==
    ASSUME CommandInv, CommandInv', stage \in {"probe", "wait", "kill"},
           NEW result \in BOOLEAN, Answer(result),
           elders' = elders,
           current \notin Running',
           Running' \subseteq Running,
           (Running \ Running') \cap elders \subseteq Asked \cap signalled',
           SignalledElders \subseteq SignalledElders',
           SignalledElders' \subseteq SignalledElders \cup Asked
    PROVE  Promised!Answer
<1>1. /\ stage' = "next" /\ current' = NoOne
      /\ ended' \in {ended, ended \cup {current}}
  BY DEF Answer
<1>2. Asked = {current} /\ Asked' = {}
  BY <1>1, SomeoneAsked DEF Asked
<1>3. SignalledElders' \subseteq ended'
  BY <1>2 DEF CommandInv, Counted
<1>4. (Running \ Running') \cap elders \subseteq Asked \cap SignalledElders'
  BY DEF SignalledElders
<1>5. stage # "failed" /\ stage' # "failed"
  BY <1>1
<1> QED BY <1>1, <1>2, <1>3, <1>4, <1>5 DEF Promised!Answer, Promised!Signals

LEMMA CommandImplements ==
    ASSUME CommandInv, CommandInv', RunOrphans
    PROVE  Promised!Next \/ UNCHANGED Promised!rvars
<1> USE DEF Promised!Next
<1>1. CASE CollectLive /\ life' = life
  <2>1. /\ stage = "idle" /\ stage' = "ps" /\ elders' = Present
        /\ UNCHANGED <<current, ended, signalled>>
    BY <1>1 DEF CollectLive
  <2>2. elders = {} /\ signalled = {} /\ ended = {} /\ current = NoOne
    BY <2>1 DEF CommandInv, Counted, OrphansInv, Remembered
  <2>3. /\ Asked = {} /\ Asked' = {} /\ SignalledElders = {} /\ SignalledElders' = {}
        /\ Running' = Running /\ Running \subseteq elders' /\ elders' \subseteq Instances
    BY <1>1, <2>1, <2>2 DEF Asked, SignalledElders, Running, Present
  <2>4. Promised!Learn
    BY <2>1, <2>2, <2>3 DEF Promised!Learn
  <2> QED BY <2>4
<1>2. ASSUME UNCHANGED <<life, current, ended, elders, signalled>>,
             (stage' = "failed") <=> (stage = "failed")
      PROVE  UNCHANGED Promised!rvars
  <2>1. Running' = Running /\ Asked' = Asked /\ SignalledElders' = SignalledElders
    BY <1>2 DEF Running, Asked, SignalledElders
  <2> QED BY <1>2, <2>1 DEF Promised!rvars, Promised!caller
<1>3. CASE (MatchTtys \/ TtysUnknown \/ NoPs) /\ life' = life
  <2>1. stage = "ps" /\ current = NoOne /\ current' = NoOne
    BY <1>3 DEF MatchTtys, TtysUnknown, NoPs, CommandInv, OrphansInv, Remembered
  <2>2. CASE EndCycle
    BY <1>3, <2>1, <2>2, EndCycleImplements
  <2>3. CASE ~ EndCycle
    <3>1. UNCHANGED <<life, ended, elders, signalled>>
      BY <1>3, <2>3 DEF MatchTtys, TtysUnknown, NoPs, history
    <3>2. Running' = Running /\ Asked' = Asked /\ SignalledElders' = SignalledElders
      BY <2>1, <3>1 DEF Running, Asked, SignalledElders
    <3> QED BY <2>1, <3>1, <3>2 DEF Promised!rvars, Promised!caller
  <2> QED BY <2>2, <2>3
<1>4. ASSUME NEW i \in Instances, BeginCandidate(i), life' = life PROVE Promised!Ask
  <2>1. /\ stage = "next" /\ stage' = "probe" /\ i \in todo /\ current' = i
        /\ UNCHANGED <<ended, elders, signalled>>
    BY <1>4 DEF BeginCandidate, history
  <2>2. current = NoOne /\ i \in elders /\ i # NoOne
    BY <2>1, OrphansAssumption DEF CommandInv, TypeOK, OrphansInv, Remembered
  <2>3. Asked = {} /\ Asked' = {i} /\ Running' = Running /\ SignalledElders' = SignalledElders
    BY <1>4, <2>1, <2>2 DEF Asked, Running, SignalledElders
  <2> QED BY <2>1, <2>2, <2>3 DEF Promised!Ask
<1>5. CASE AllDone /\ life' = life
  <2>1. stage = "next" /\ EndCycle /\ current' = current /\ current = NoOne
    BY <1>5 DEF AllDone, CommandInv, OrphansInv, Remembered
  <2> QED BY <1>5, <2>1, EndCycleImplements
<1>6. CASE (Probe \/ WaitSeesExit) /\ ~ IsAlive /\ life' = life
  <2>1. /\ UNCHANGED <<elders, signalled>> /\ stage \in {"probe", "wait"}
        /\ Answer(TRUE) \/ Answer(FALSE)
    BY <1>6 DEF Probe, WaitSeesExit, history
  <2>2. Running' = Running /\ SignalledElders' = SignalledElders
    BY <1>6, <2>1 DEF Running, SignalledElders
  <2>3. current \notin Running'
    BY <1>6, <2>1, <2>2, CandidateReached
    DEF CommandInv, OrphansInv, IsAlive, Reachable, Running
  <2>4. Promised!Answer
    BY <2>1, <2>2, <2>3, AnswerImplements
  <2> QED BY <2>4
<1>7. CASE ((Probe /\ IsAlive) \/ WaitTimesOut \/ Output) /\ life' = life
  <2>1. UNCHANGED <<current, ended, elders, signalled>>
    BY <1>7 DEF Probe, WaitTimesOut, Output, Goto, history
  <2>2. stage # "failed" /\ stage' # "failed"
    BY <1>7 DEF Probe, WaitTimesOut, Output, Goto
  <2> QED BY <1>2, <1>7, <2>1, <2>2
<1>8. ASSUME stage \in {"term", "kill"}, Goto("failed"), Reachable = {},
             UNCHANGED <<life, elders>>, signalled' = signalled \cup Reachable
      PROVE  Promised!GiveUp
  <2>1. /\ UNCHANGED <<current, ended, elders, signalled>> /\ stage' = "failed"
        /\ Asked = {current}
    BY <1>8, SomeoneAsked DEF Goto
  <2>2. current \notin Running
    BY <1>8, CandidateReached DEF CommandInv, OrphansInv, Running
  <2>3. Running' = Running /\ Asked' = Asked /\ SignalledElders' = SignalledElders
    BY <1>8, <2>1 DEF Running, Asked, SignalledElders
  <2>4. current # NoOne
    BY <1>8 DEF CommandInv, OrphansInv, Remembered
  <2> QED BY <1>8, <2>1, <2>2, <2>3, <2>4 DEF Promised!GiveUp
<1>9. CASE SendTerm /\ life' = life
  <2>1. /\ stage = "term" /\ elders' = elders /\ signalled' = signalled \cup Reachable
        /\ Goto(IF Reachable = {} THEN "failed" ELSE "wait")
    BY <1>9 DEF SendTerm
  <2>2. CASE Reachable = {}
    BY <1>8, <1>9, <2>1, <2>2
  <2>3. CASE Reachable # {}
    <3>1. stage' = "wait" /\ UNCHANGED <<current, ended>>
      BY <2>1, <2>3 DEF Goto
    <3>2. /\ Running' = Running /\ Asked' = Asked /\ Asked # {}
      BY <1>9, <2>1, <3>1, SomeoneAsked DEF Running, Asked
    <3>3. /\ SignalledElders \subseteq SignalledElders'
          /\ SignalledElders' \subseteq SignalledElders \cup Asked
      BY <2>1, AskedReached DEF SignalledElders
    <3>4. Promised!Signal
      BY <2>1, <3>1, <3>2, <3>3 DEF Promised!Signal, Promised!Signals
    <3> QED BY <3>4
  <2> QED BY <2>2, <2>3
<1>10. CASE SendKill
  <2>1. /\ stage = "kill" /\ elders' = elders
        /\ signalled' = signalled \cup Reachable
        /\ life' = [i \in Instances |-> IF i \in Reachable /\ life[i] = "running"
                                        THEN "zombie" ELSE life[i]]
    BY <1>10 DEF SendKill, Killed
  <2>2. CASE Reachable = {}
    <3>1. life' = life
      BY <2>1, <2>2 DEF CommandInv, TypeOK
    <3> QED BY <1>8, <1>10, <2>1, <2>2, <3>1 DEF SendKill
  <2>3. CASE Reachable # {}
    <3>1. Running' = Running \ Reachable
      BY <2>1 DEF Running
    <3>2. current \notin Running'
      BY <2>1, <3>1, CandidateReached DEF CommandInv, OrphansInv, Running
    <3>3. Reachable \cap elders \subseteq Asked
      BY <2>1, AskedReached
    <3>4. /\ SignalledElders \subseteq SignalledElders'
          /\ SignalledElders' \subseteq SignalledElders \cup Asked
          /\ (Running \ Running') \cap elders \subseteq Asked \cap signalled'
      BY <2>1, <3>1, <3>3 DEF SignalledElders
    <3>5. Answer(TRUE) /\ Running' \subseteq Running
      BY <1>10, <2>3, <3>1 DEF SendKill
    <3>6. Promised!Answer
      BY <2>1, <3>2, <3>4, <3>5, AnswerImplements
    <3> QED BY <3>6
  <2> QED BY <2>2, <2>3
<1>11. Quiet => life' = life
  BY DEF Quiet, system
<1> QED BY <1>1, <1>3, <1>4, <1>5, <1>6, <1>7, <1>9, <1>10, <1>11
        DEF RunOrphans, Quiet, WaitSeesExit

(* orphans.rs: the requests of kill and guard, cycle after cycle and among  *)
(* all that happens to processes and pids meanwhile, are those of the       *)
(* remediator.                                                              *)
THEOREM ImplementsRemediatorHolds == Spec => ImplementsRemediator
<1>1. Init => Promised!Init
  <2> SUFFICES ASSUME Init PROVE Promised!Init
    OBVIOUS
  <2>1. Running = {} /\ SignalledElders = {} /\ Asked = {}
    BY DEF Init, Empty, Running, SignalledElders, Asked
  <2> QED BY <2>1 DEF Init, Promised!Init
<1>2. CommandInv /\ CommandInv' /\ [Next]_vars => [Promised!Next]_(Promised!rvars)
  <2> SUFFICES ASSUME CommandInv, CommandInv', [Next]_vars
               PROVE  [Promised!Next]_(Promised!rvars)
    OBVIOUS
  <2>1. CASE RunOrphans
    BY <2>1, CommandImplements
  <2>2. ASSUME UNCHANGED <<stage, current, ended, elders, signalled>>
        PROVE  /\ UNCHANGED <<elders, Asked, SignalledElders, ended>>
               /\ (stage = "failed" /\ current # NoOne)'
                    = (stage = "failed" /\ current # NoOne)
    BY <2>2 DEF Asked, SignalledElders
  <2>3. CASE SystemStep
    <3>1. UNCHANGED <<stage, current, ended, elders, signalled>>
      BY <2>3 DEF SystemStep, command, history
    <3>2. Running' \subseteq Instances /\ Running' \cap elders \subseteq Running
      BY <2>3, SystemStepKeeps
      DEF Persist, CommandInv, TypeOK, OrphansInv, Remembered, Running
    <3>3. Promised!Outside
      BY <2>2, <3>1, <3>2 DEF Promised!Outside, Promised!caller
    <3> QED BY <3>3 DEF Promised!Next
  <2>4. CASE UNCHANGED vars
    <3>1. UNCHANGED <<life, stage, current, ended, elders, signalled>>
      BY <2>4 DEF vars, system, command, history
    <3>2. Running' = Running
      BY <3>1 DEF Running
    <3> QED BY <2>2, <3>1, <3>2 DEF Promised!rvars, Promised!caller
  <2> QED BY <2>1, <2>3, <2>4 DEF Next
<1> QED BY <1>1, <1>2, CommandInvHolds, PTL DEF Spec, ImplementsRemediator, Promised!Spec

(* What the remediator promises it keeps, for any processes. *)
LEMMA RemediatorKeeps == Promised!Spec => []Promised!Agreed
<1> USE DEF Promised!Agreed, Promised!Promise
<1>1. Promised!Init => Promised!Agreed
  BY DEF Promised!Init
<1>2. Promised!Agreed /\ [Promised!Next]_(Promised!rvars) => Promised!Agreed'
  <2> SUFFICES ASSUME Promised!Agreed, [Promised!Next]_(Promised!rvars)
               PROVE  Promised!Agreed'
    OBVIOUS
  <2>1. CASE Promised!Outside
    BY <2>1 DEF Promised!Outside, Promised!caller
  <2>2. CASE Promised!Learn \/ Promised!Forget \/ Promised!Ask
    BY <2>2 DEF Promised!Learn, Promised!Forget, Promised!Ask
  <2>3. CASE Promised!Signal
    BY <2>3 DEF Promised!Signal, Promised!Signals
  <2>4. CASE Promised!Answer
    BY <2>4 DEF Promised!Answer, Promised!Signals
  <2>5. CASE Promised!GiveUp
    BY <2>5 DEF Promised!GiveUp
  <2>6. CASE UNCHANGED Promised!rvars
    BY <2>6 DEF Promised!rvars, Promised!caller
  <2> QED BY <2>1, <2>2, <2>3, <2>4, <2>5, <2>6 DEF Promised!Next
<1> QED BY <1>1, <1>2, PTL DEF Promised!Spec

(* remediate_candidates: between two candidates, terminated_count covers    *)
(* everyone of the inventory who got a signal, and nobody who runs.         *)
THEOREM PromiseHolds == Spec => []Promised!Promise
<1>1. Promised!Agreed => Promised!Promise
  BY DEF Promised!Agreed
<1> QED BY <1>1, RemediatorKeeps, ImplementsRemediatorHolds, PTL DEF ImplementsRemediator

-----------------------------------------------------------------------------
(* A cycle is short. *)

Ending == stage \in {"next", "probe", "term", "wait", "kill"}

(* What is left of the candidate in hand, whatever is found... *)
StepsOfCandidate ==
    CASE stage = "next"  -> 5
      [] stage = "probe" -> 4
      [] stage = "term"  -> 3
      [] stage = "wait"  -> 2
      [] stage = "kill"  -> 1
      [] OTHER           -> 0

(* ... and of the cycle. *)
StepsLeft == 6 * Cardinality(todo) + StepsOfCandidate

LEMMA AnswerShortens ==
    ASSUME CommandInv, IsFiniteSet(todo), stage \in {"probe", "wait", "kill"},
           NEW result, Answer(result)
    PROVE  StepsLeft' < StepsLeft
<1>1. current \in todo /\ todo' = todo \ {current} /\ stage' = "next"
  BY DEF Answer, CommandInv, TypeOK, OrphansInv, Remembered
<1>2. /\ Cardinality(todo) \in Nat /\ Cardinality(todo') \in Nat
      /\ Cardinality(todo') = Cardinality(todo) - 1
  BY <1>1, FS_RemoveElement, FS_CardinalityType
<1>3. StepsOfCandidate \in 1 .. 4 /\ StepsOfCandidate' = 5
  BY <1>1 DEF StepsOfCandidate
<1> QED BY <1>2, <1>3 DEF StepsLeft

LEMMA CommandShortens ==
    ASSUME CommandInv, IsFiniteSet(todo), Ending, RunOrphans
    PROVE  StepsLeft' < StepsLeft
<1>1. Cardinality(todo) \in Nat
  BY FS_CardinalityType
<1>2. ASSUME todo' = todo,
             \/ stage = "next" /\ stage' = "probe"
             \/ stage = "probe" /\ stage' \in {"term", "kill"}
             \/ stage = "term" /\ stage' \in {"wait", "failed"}
             \/ stage = "wait" /\ stage' = "kill"
             \/ stage = "kill" /\ stage' = "failed"
      PROVE  StepsLeft' < StepsLeft
  <2>1. /\ StepsOfCandidate \in Nat /\ StepsOfCandidate' \in Nat
        /\ StepsOfCandidate' < StepsOfCandidate
    BY <1>2 DEF StepsOfCandidate
  <2> QED BY <1>1, <1>2, <2>1 DEF StepsLeft
<1>3. CASE \E i \in Instances : BeginCandidate(i)
  BY <1>2, <1>3 DEF BeginCandidate
<1>4. CASE AllDone
  <2>1. stage = "next" /\ stage' \in {"print", "idle"} /\ todo' = {}
    BY <1>4 DEF AllDone, EndCycle
  <2>2. Cardinality(todo') = 0
    BY <2>1, FS_EmptySet
  <2>3. StepsOfCandidate = 5 /\ StepsOfCandidate' = 0
    BY <2>1 DEF StepsOfCandidate
  <2> QED BY <1>1, <2>2, <2>3 DEF StepsLeft
<1>5. CASE Probe
  BY <1>2, <1>5, AnswerShortens DEF Probe, Goto
<1>6. CASE SendTerm
  BY <1>2, <1>6 DEF SendTerm, Goto
<1>7. CASE WaitSeesExit
  BY <1>7, AnswerShortens DEF WaitSeesExit
<1>8. CASE WaitTimesOut
  BY <1>2, <1>8 DEF WaitTimesOut, Goto
<1>9. CASE SendKill
  BY <1>2, <1>9, AnswerShortens DEF SendKill, Goto
<1>10. CASE CollectLive \/ MatchTtys \/ TtysUnknown \/ NoPs \/ Output
  BY <1>10 DEF Ending, CollectLive, MatchTtys, TtysUnknown, NoPs, Output
<1> QED BY <1>3, <1>4, <1>5, <1>6, <1>7, <1>8, <1>9, <1>10 DEF RunOrphans, Quiet

(* remediate_candidates: once kill or guard has its candidates, each step   *)
(* brings it closer to the last of them, whatever the processes do about    *)
(* SIGTERM and whoever gets their pids, and what happens outside does not   *)
(* take it back.  With n candidates there are at most 6n + 5 steps.         *)
THEOREM CycleShortens ==
    ASSUME IsFiniteSet(Instances)
    PROVE  Spec => /\ [](StepsLeft \in Nat)
                   /\ [][/\ RunOrphans /\ Ending => StepsLeft' < StepsLeft
                         /\ SystemStep => StepsLeft' = StepsLeft]_vars
<1>1. ASSUME CommandInv PROVE IsFiniteSet(todo)
  BY <1>1, FS_Subset DEF CommandInv, TypeOK
<1>2. ASSUME CommandInv PROVE StepsLeft \in Nat
  <2>1. Cardinality(todo) \in Nat
    BY <1>1, <1>2, FS_CardinalityType
  <2>2. StepsOfCandidate \in Nat
    BY DEF StepsOfCandidate
  <2> QED BY <2>1, <2>2 DEF StepsLeft
<1>3. ASSUME CommandInv
      PROVE  /\ RunOrphans /\ Ending => StepsLeft' < StepsLeft
             /\ SystemStep => StepsLeft' = StepsLeft
  <2>1. SystemStep => UNCHANGED <<todo, stage>>
    BY DEF SystemStep, command
  <2>2. SystemStep => StepsLeft' = StepsLeft
    BY <2>1 DEF StepsLeft, StepsOfCandidate
  <2> QED BY <1>1, <1>3, <2>2, CommandShortens
<1> QED BY <1>2, <1>3, CommandInvHolds, PTL DEF Spec
=============================================================================
