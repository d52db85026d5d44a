-------------------------- MODULE MemoryGuardProofs --------------------------
(***************************************************************************)
(* Theorems about MemoryGuard, for any rust-analyzers, thresholds and      *)
(* number of faults.                                                       *)
(***************************************************************************)
EXTENDS MemoryGuard, SequenceTheorems, FiniteSetTheorems,
        WellFoundedInduction, TLAPS

LEMMA Policy ==
    /\ Analyzers \subseteq Nat
    /\ Required \in Nat /\ Grace \in Nat /\ Cooldown \in Nat /\ MaxFaults \in Nat
    /\ NoSession \notin Sessions
  BY GuardAssumption DEF GuardAssumption

LEMMA LowerType ==
    ASSUME NEW a \in Nat, NEW b \in Nat
    PROVE  Lower(a + 1, b) \in 0..b /\ (a = b => Lower(a + 1, b) = b)
  BY DEF Lower

LEMMA EntryType ==
    ASSUME NEW entry \in HistoryEntry \cup {NoHistory}
    PROVE  entry.over_limit \in Nat
<1>1. CASE entry \in HistoryEntry
  BY <1>1, Policy DEF HistoryEntry
<1>2. CASE entry = NoHistory
  BY <1>2 DEF NoHistory
<1> QED BY <1>1, <1>2

LEMMA ObservedType ==
    ASSUME NEW entry \in HistoryEntry \cup {NoHistory}, NEW b \in BOOLEAN
    PROVE  Observed(entry, b) \in HistoryEntry
<1>1. entry.over_limit \in Nat
  BY EntryType
<1>2. Lower(entry.over_limit + 1, Required) \in 0..Required
  BY <1>1, Policy, LowerType
<1> QED BY <1>2, Policy DEF Observed, History, HistoryEntry

LEMMA PushType ==
    ASSUME NEW samples \in Seq(BOOLEAN), NEW b \in BOOLEAN
    PROVE  Push(samples, b) \in Seq(BOOLEAN)
<1> DEFINE more == Append(samples, b)
<1>1. more \in Seq(BOOLEAN) /\ Len(more) = Len(samples) + 1
  BY AppendProperties
<1>2. more # <<>>
  BY <1>1, EmptySeq
<1>3. Tail(more) \in Seq(BOOLEAN)
  BY <1>1, <1>2, HeadTailProperties
<1> QED BY <1>1, <1>3 DEF Push

(* What a new sample leaves of the entry is told by the new window. *)
LEMMA PushTells ==
    ASSUME NEW entry \in HistoryEntry \cup {NoHistory},
           NEW samples \in Seq(BOOLEAN),
           NEW b \in BOOLEAN,
           EntryTells(entry, samples)
    PROVE  EntryTells(Observed(entry, b), Push(samples, b))
<1> DEFINE n == Len(samples)
           c == entry.over_limit
           more == Append(samples, b)
           next == Observed(entry, b)
           d == next.over_limit
<1>1. n \in Nat /\ c \in Nat /\ Required \in Nat /\ n <= Required /\ c <= n
  <2>1. n \in Nat /\ c \in Nat
    BY EntryType, LenProperties
  <2> QED BY <2>1, Policy DEF EntryTells
<1>2. /\ more \in Seq(BOOLEAN)
      /\ Len(more) = n + 1
      /\ \A k \in 1..n : more[k] = samples[k]
      /\ more[n + 1] = b
  BY AppendProperties
<1>3. /\ next.known = TRUE
      /\ d = IF b THEN (IF c + 1 < Required THEN c + 1 ELSE Required) ELSE 0
  BY DEF Observed, History, Lower
<1>4. /\ \A k \in 1..n : n - c < k => samples[k]
      /\ c < n => ~ samples[n - c]
  BY DEF EntryTells
<1>7. ASSUME n = Required,
             d \in Nat /\ d <= n,
             \A k \in 1..n : n - d < k => more[k + 1],
             d < n => ~ more[n - d + 1]
      PROVE  EntryTells(next, Push(samples, b))
  <2>1. Push(samples, b) = Tail(more)
    BY <1>1, <1>2, <1>7 DEF Push
  <2>2. more # <<>>
    BY <1>1, <1>2, EmptySeq
  <2>3. /\ Len(Tail(more)) = n
        /\ \A k \in 1..n : Tail(more)[k] = more[k + 1]
    BY <1>1, <1>2, <2>2, HeadTailProperties
  <2>4. \A k \in 1..n : n - d < k => Tail(more)[k]
    BY <1>7, <2>3
  <2>5. d < n => ~ Tail(more)[n - d]
    <3> SUFFICES ASSUME d < n PROVE ~ Tail(more)[n - d]
      OBVIOUS
    <3> HIDE DEF n, d, more
    <3>1. n - d \in 1..n
      BY <1>1, <1>7
    <3> QED BY <1>7, <2>3, <3>1
  <2> QED BY <1>1, <1>3, <1>7, <2>1, <2>3, <2>4, <2>5 DEF EntryTells
<1>5. CASE b
  <2>1. d = (IF c + 1 < Required THEN c + 1 ELSE Required)
    BY <1>3, <1>5
  <2>2. more[n + 1]
    BY <1>2, <1>5
  <2>3. CASE n < Required
    <3>1. Push(samples, b) = more
      BY <1>1, <1>2, <2>3 DEF Push
    <3> HIDE DEF n, c, d, more
    <3>2. d = c + 1
      BY <1>1, <2>1, <2>3
    <3>3. \A k \in 1..n + 1 : n + 1 - d < k => more[k]
      BY <1>1, <1>2, <1>4, <2>2, <3>2
    <3>4. d < n + 1 => ~ more[n + 1 - d]
      <4> SUFFICES ASSUME c < n PROVE ~ more[n - c]
        BY <1>1, <3>2
      <4>1. n - c \in 1..n
        BY <1>1
      <4> QED BY <4>1, <1>2, <1>4
    <3> QED BY <1>1, <1>2, <1>3, <2>3, <3>1, <3>2, <3>3, <3>4
            DEF EntryTells, d, next
  <2>4. CASE n = Required
    <3> HIDE DEF n, c, d
    <3>1. d \in Nat /\ (d = c + 1 \/ (c = n /\ d = n)) /\ d <= n
      BY <1>1, <2>1, <2>4
    <3>2. \A k \in 1..n : n - d < k => more[k + 1]
      <4> SUFFICES ASSUME NEW k \in 1..n, n - d < k PROVE more[k + 1]
        OBVIOUS
      <4>1. CASE k = n
        BY <2>2, <4>1
      <4>2. CASE k # n
        <5>1. k + 1 \in 1..n /\ n - c < k + 1
          BY <1>1, <3>1, <4>2
        <5> QED BY <5>1, <1>2, <1>4
      <4> QED BY <4>1, <4>2
    <3>3. d < n => ~ more[n - d + 1]
      <4> SUFFICES ASSUME d < n PROVE ~ more[n - d + 1]
        OBVIOUS
      <4>1. n - d + 1 = n - c /\ c < n /\ n - c \in 1..n
        BY <1>1, <3>1
      <4> QED BY <4>1, <1>2, <1>4
    <3> QED BY <1>1, <1>2, <1>3, <1>7, <2>4, <3>1, <3>2, <3>3
  <2> QED BY <1>1, <2>3, <2>4
<1>6. CASE ~ b
  <2>1. d = 0
    BY <1>3, <1>6
  <2>2. ~ more[n + 1]
    BY <1>2, <1>6
  <2>3. CASE n < Required
    <3>1. Push(samples, b) = more
      BY <1>1, <1>2, <2>3 DEF Push
    <3> QED BY <1>1, <1>2, <1>3, <2>1, <2>2, <2>3, <3>1 DEF EntryTells
  <2>4. CASE n = Required
    <3> HIDE DEF n, c, d
    <3>1. /\ d \in Nat /\ d <= n
          /\ \A k \in 1..n : n - d < k => more[k + 1]
      BY <1>1, <2>1
    <3>2. n - d + 1 = n + 1
      BY <1>1, <2>1
    <3>3. d < n => ~ more[n - d + 1]
      BY <2>2, <3>2
    <3> QED BY <1>1, <1>7, <2>4, <3>1, <3>3
  <2> QED BY <1>1, <2>3, <2>4
<1> QED BY <1>5, <1>6

LEMMA FreshTells == EntryTells(NoHistory, <<>>)
<1>1. Len(<<>>) = 0 /\ <<>> \in Seq(BOOLEAN)
  BY EmptySeq
<1> QED BY <1>1, Policy DEF EntryTells, NoHistory

-----------------------------------------------------------------------------
LEMMA ObserveType ==
    ASSUME TypeOK, observe_inventory
    PROVE  TypeOK'
<1> DEFINE seen == (inventory \ excluded) \cap grown
<1>1. histories' \in [Analyzers -> HistoryEntry \cup {NoHistory}]
  <2> SUFFICES ASSUME NEW i \in Analyzers
               PROVE  Observed(histories[i], i \in hot)
                        \in HistoryEntry \cup {NoHistory}
    BY DEF observe_inventory
  <2>1. histories[i] \in HistoryEntry \cup {NoHistory} /\ (i \in hot) \in BOOLEAN
    BY DEF TypeOK
  <2> QED BY <2>1, ObservedType
<1>2. recent' \in [Analyzers -> Seq(BOOLEAN)]
  <2> SUFFICES ASSUME NEW i \in Analyzers
               PROVE  /\ Push(recent[i], i \in hot) \in Seq(BOOLEAN)
                      /\ <<>> \in Seq(BOOLEAN)
    BY DEF observe_inventory
  <2>1. recent[i] \in Seq(BOOLEAN) /\ (i \in hot) \in BOOLEAN
    BY DEF TypeOK
  <2> QED BY <2>1, PushType, EmptySeq
<1>3. candidates' \subseteq Analyzers
  BY DEF observe_inventory, TypeOK
<1> QED BY <1>1, <1>2, <1>3 DEF observe_inventory, TypeOK, Stages, processes, sample

LEMMA FreshType ==
    /\ <<>> \in Seq(BOOLEAN)
    /\ 0 \in 0..Cooldown /\ Cooldown \in 0..Cooldown
    /\ 0 \in 0..Grace /\ 0 \in 0..MaxFaults
<1>1. <<>> \in Seq(BOOLEAN)
  BY EmptySeq
<1> QED BY <1>1, Policy

LEMMA NewGuardType ==
    ASSUME NewGuard
    PROVE  /\ histories' \in [Analyzers -> HistoryEntry \cup {NoHistory}]
           /\ since_remediation' \in 0..Cooldown
           /\ cooling' \in BOOLEAN
           /\ candidates' = {}
           /\ remediated' \in BOOLEAN
           /\ recent' \in [Analyzers -> Seq(BOOLEAN)]
           /\ since_round' \in 0..Cooldown
<1>1. histories' \in [Analyzers -> HistoryEntry \cup {NoHistory}]
  BY DEF NewGuard
<1>2. recent' \in [Analyzers -> Seq(BOOLEAN)]
  BY FreshType DEF NewGuard
<1> QED BY <1>1, <1>2, FreshType DEF NewGuard

LEMMA DownType ==
    ASSUME TypeOK, Down, life' \in [Analyzers -> {"unborn", "running", "gone"}],
           UNCHANGED <<age, over, session>>
    PROVE  TypeOK'
<1>1. NewGuard /\ faults' \in 0..MaxFaults
  BY Policy DEF Down, TypeOK
<1>2. since_sample' \in 0..Cooldown
  BY Policy DEF Down
<1> QED BY <1>1, <1>2, NewGuardType DEF Down, TypeOK, Stages

LEMMA TypeStep ==
    ASSUME TypeOK, [Next]_vars
    PROVE  TypeOK'
<1> USE DEF Stages
<1>1. CASE Start
  BY <1>1 DEF Start, TypeOK, processes, sample, rule, guard, history
<1>2. CASE SampleAfterWait \/ Accept \/ SampleAfterBatch
  <2>1. CASE Accept
    BY <2>1 DEF Accept, TypeOK, processes, sample, rule, guard, history
  <2>2. CASE Sample
    <3>1. since_sample' \in 0..Cooldown /\ cooling' \in BOOLEAN
      BY <2>2, FreshType DEF Sample
    <3>2. inventory' \subseteq Analyzers /\ hot' \subseteq inventory' /\ grown' \subseteq inventory'
      BY <2>2 DEF Sample, Running
    <3> QED BY <2>2, <3>1, <3>2 DEF Sample, TypeOK, processes, rule, history
  <2> QED BY <1>2, <2>1, <2>2 DEF SampleAfterWait, SampleAfterBatch
<1>3. CASE NoDuplicates \/ FindDuplicates
  BY <1>3 DEF NoDuplicates, FindDuplicates, duplicate_victims, Running,
              TypeOK, processes, sample, rule, guard, history
<1>4. ASSUME NEW i \in Analyzers, SkipVictim(i) \/ EndVictim(i) \/ VictimHasExited(i)
      PROVE  TypeOK'
  BY <1>4 DEF SkipVictim, EndVictim, VictimHasExited,
              TypeOK, processes, sample, rule, guard, history
<1>5. ASSUME NEW i \in Analyzers, EndCandidate(i) \/ CandidateHasExited(i)
      PROVE  TypeOK'
  BY <1>5 DEF EndCandidate, CandidateHasExited,
              TypeOK, processes, sample, rule, guard, history
<1>6. CASE observe_inventory
  BY <1>6, ObserveType
<1>7. CASE NothingEnded \/ record_remediation
  <2>1. /\ EndCycle
        /\ \/ UNCHANGED <<histories, since_remediation, recent>>
           \/ /\ histories' = [i \in Analyzers |-> NoHistory]
              /\ since_remediation' = since_sample
              /\ recent' = [i \in Analyzers |-> <<>>]
    BY <1>7 DEF NothingEnded, record_remediation
  <2>2. histories' \in [Analyzers -> HistoryEntry \cup {NoHistory}]
    BY <2>1 DEF TypeOK
  <2>3. recent' \in [Analyzers -> Seq(BOOLEAN)]
    BY <2>1, FreshType DEF TypeOK
  <2>4. since_remediation' \in 0..Cooldown
    BY <2>1 DEF TypeOK
  <2> QED BY <2>1, <2>2, <2>3, <2>4, FreshType DEF EndCycle, TypeOK, processes, rule
<1>8. CASE Crash
  <2>1. UNCHANGED <<life, age, over, session>> /\ Down
    BY <1>8 DEF Crash, processes
  <2>2. life' \in [Analyzers -> {"unborn", "running", "gone"}]
    BY <2>1 DEF TypeOK
  <2> QED BY <2>1, <2>2, DownType
<1>9. ASSUME NEW i \in Analyzers, RemediationFails(i)
      PROVE  TypeOK'
  <2>1. life' \in [Analyzers -> {"unborn", "running", "gone"}]
    BY <1>9 DEF RemediationFails, TypeOK
  <2> QED BY <2>1, <1>9, DownType DEF RemediationFails
<1>10. CASE Tick
  <2>1. age' \in [Analyzers -> 0..Grace]
    <3> SUFFICES ASSUME NEW i \in Analyzers
                 PROVE  Lower(age[i] + 1, Grace) \in 0..Grace /\ age[i] \in 0..Grace
      BY <1>10 DEF Tick
    <3>1. age[i] \in 0..Grace /\ age[i] \in Nat
      BY Policy DEF TypeOK
    <3> QED BY <3>1, Policy, LowerType
  <2>2. /\ since_sample' \in 0..Cooldown
        /\ since_remediation' \in 0..Cooldown
        /\ since_round' \in 0..Cooldown
    BY <1>10, Policy, LowerType DEF Tick, TypeOK
  <2> QED BY <1>10, <2>1, <2>2 DEF Tick, TypeOK, sample, rule
<1>11. ASSUME NEW i \in Analyzers, NEW s \in Sessions \cup {NoSession}, Spawn(i, s)
       PROVE  TypeOK'
  BY <1>11 DEF Spawn, TypeOK, sample, rule, guard, history
<1>12. ASSUME NEW i \in Analyzers, Exits(i) \/ Grow(i) \/ Shrink(i)
       PROVE  TypeOK'
  BY <1>12 DEF Exits, Grow, Shrink, TypeOK, sample, rule, guard, history
<1>13. CASE UNCHANGED vars
  BY <1>13 DEF vars, TypeOK, processes, sample, rule, guard, history
<1> QED
  BY <1>1, <1>2, <1>3, <1>4, <1>5, <1>6, <1>7, <1>8, <1>9, <1>10, <1>11, <1>12,
     <1>13 DEF Next, DaemonStep, DaemonFault, ClientStep, ProcessStep

(* memory_guard.rs, daemon.rs: the guard is well typed. *)
THEOREM GuardTypeCorrect == Spec => []TypeOK
<1>1. Init => TypeOK
  <2> SUFFICES ASSUME Init PROVE TypeOK
    OBVIOUS
  <2>1. histories \in [Analyzers -> HistoryEntry \cup {NoHistory}]
    BY DEF Init
  <2>2. recent \in [Analyzers -> Seq(BOOLEAN)]
    BY FreshType DEF Init
  <2>3. age \in [Analyzers -> 0..Grace]
    BY FreshType DEF Init
  <2> QED BY <2>1, <2>2, <2>3, FreshType DEF Init, TypeOK, Stages
<1> QED BY <1>1, TypeStep, PTL DEF Spec

-----------------------------------------------------------------------------
LEMMA ObserveTells ==
    ASSUME TypeOK, HistoriesTell, observe_inventory
    PROVE  HistoriesTell'
<1> SUFFICES ASSUME NEW i \in Analyzers
             PROVE  EntryTells(histories'[i], recent'[i])
  BY DEF HistoriesTell, EntryTells
<1> DEFINE seen == (inventory \ excluded) \cap grown
<1>1. CASE i \in seen
  <2>1. /\ histories[i] \in HistoryEntry \cup {NoHistory}
        /\ recent[i] \in Seq(BOOLEAN)
        /\ (i \in hot) \in BOOLEAN
        /\ EntryTells(histories[i], recent[i])
    BY DEF TypeOK, HistoriesTell
  <2>2. EntryTells(Observed(histories[i], i \in hot), Push(recent[i], i \in hot))
    BY <2>1, PushTells
  <2>3. /\ histories'[i] = Observed(histories[i], i \in hot)
        /\ recent'[i] = Push(recent[i], i \in hot)
    BY <1>1 DEF observe_inventory
  <2> QED BY <2>2, <2>3
<1>2. CASE i \notin seen
  BY <1>2, FreshTells DEF observe_inventory
<1> QED BY <1>1, <1>2

LEMMA FreshHistoriesTell ==
    ASSUME histories' = [i \in Analyzers |-> NoHistory],
           recent' = [i \in Analyzers |-> <<>>]
    PROVE  HistoriesTell'
<1> SUFFICES ASSUME NEW i \in Analyzers
             PROVE  EntryTells(histories'[i], recent'[i])
  BY DEF HistoriesTell, EntryTells
<1> QED BY FreshTells

(* Down forgets everything but what the rule has ended. *)
LEMMA DownTells ==
    ASSUME TypeOK, GuardInv, Down, Born \subseteq Born', UNCHANGED session
    PROVE  GuardInv'
<1>1. HistoriesTell'
  BY FreshHistoriesTell DEF Down, NewGuard
<1>2. RoundsTell'
  BY DEF Down, NewGuard, RoundsTell
<1>3. CycleTells'
  BY DEF Down, NewGuard, CycleTells, GuardInv, duplicate_victims
<1>4. NewestSpared'
  BY DEF Down, GuardInv, NewestSpared
<1> QED BY <1>1, <1>2, <1>3, <1>4 DEF GuardInv

(* A step that leaves the guard and its cycle alone. *)
LEMMA ProcessTells ==
    ASSUME TypeOK, GuardInv,
           UNCHANGED <<age, stage, sample, rule, guard, since_sample, history>>,
           Born \subseteq Born',
           \A i \in Born : session'[i] = session[i]
    PROVE  GuardInv'
<1> USE DEF sample, rule, guard, history
<1>1. HistoriesTell'
  BY DEF HistoriesTell, EntryTells, GuardInv
<1>2. RoundsTell'
  BY DEF RoundsTell, GuardInv
<1>3. CycleTells'
  <2>1. duplicate_victims(inventory) \subseteq duplicate_victims(inventory)'
    BY DEF duplicate_victims, GuardInv, CycleTells
  <2> QED BY <2>1 DEF CycleTells, GuardInv
<1>4. NewestSpared'
  BY DEF NewestSpared, GuardInv, CycleTells
<1> QED BY <1>1, <1>2, <1>3, <1>4 DEF GuardInv

LEMMA GuardStep ==
    ASSUME TypeOK, GuardInv, [Next]_vars
    PROVE  GuardInv'
<1> USE DEF processes, sample, rule, guard, history
<1>1. CASE Start \/ Accept
  <2>1. HistoriesTell' /\ RoundsTell' /\ NewestSpared'
    BY <1>1 DEF Start, Accept, GuardInv, HistoriesTell, EntryTells, RoundsTell,
                NewestSpared, Born
  <2>2. CycleTells'
    BY <1>1 DEF Start, Accept, GuardInv, CycleTells, duplicate_victims, Born
  <2> QED BY <2>1, <2>2 DEF GuardInv
<1>2. CASE SampleAfterWait \/ SampleAfterBatch
  <2>1. Sample /\ stage \in {"idle", "read"}
    BY <1>2 DEF SampleAfterWait, SampleAfterBatch
  <2>2. HistoriesTell' /\ NewestSpared'
    BY <2>1 DEF Sample, GuardInv, HistoriesTell, EntryTells, NewestSpared, Born
  <2>3. candidates = {} /\ ~ remediated /\ victims = {}
    BY <2>1 DEF GuardInv, CycleTells
  <2>4. RoundsTell'
    BY <2>1, <2>3 DEF Sample, GuardInv, RoundsTell
  <2>5. inventory' \cup ruled' \subseteq Born'
    BY <2>1 DEF Sample, GuardInv, CycleTells, Born, Running
  <2>6. ~ cooling' => since_remediation' = Cooldown
    <3>1. CASE since_remediation < Cooldown
      <4>1. cooling' = TRUE
        BY <2>1, <3>1, Zenon DEF Sample
      <4> QED BY <4>1
    <3>2. CASE ~ (since_remediation < Cooldown)
      BY <2>1, <3>2, Policy DEF Sample, TypeOK
    <3> QED BY <3>1, <3>2
  <2>7. \A i \in grown' : age'[i] = Grace
    BY <2>1 DEF Sample
  <2>8. CycleTells'
    BY <2>1, <2>3, <2>5, <2>6, <2>7 DEF Sample, CycleTells
  <2> QED BY <2>2, <2>4, <2>8 DEF GuardInv
<1>3. CASE NoDuplicates \/ FindDuplicates
  <2>1. HistoriesTell' /\ RoundsTell' /\ NewestSpared'
    BY <1>3 DEF NoDuplicates, FindDuplicates, GuardInv, HistoriesTell, EntryTells,
                RoundsTell, NewestSpared, Born
  <2>2. duplicate_victims(inventory)' = duplicate_victims(inventory)
    BY <1>3 DEF NoDuplicates, FindDuplicates, duplicate_victims
  <2>3. CycleTells'
    BY <1>3, <2>2 DEF NoDuplicates, FindDuplicates, GuardInv, CycleTells, Born
  <2> QED BY <2>1, <2>3 DEF GuardInv
<1>4. ASSUME NEW i \in Analyzers, SkipVictim(i) \/ VictimHasExited(i)
      PROVE  GuardInv'
  <2>1. HistoriesTell' /\ RoundsTell' /\ NewestSpared'
    BY <1>4 DEF SkipVictim, VictimHasExited, GuardInv, HistoriesTell, EntryTells,
                RoundsTell, NewestSpared, Born
  <2>2. duplicate_victims(inventory)' = duplicate_victims(inventory)
    BY <1>4 DEF SkipVictim, VictimHasExited, duplicate_victims
  <2>3. CycleTells'
    BY <1>4, <2>2 DEF SkipVictim, VictimHasExited, GuardInv, CycleTells, Born
  <2> QED BY <2>1, <2>3 DEF GuardInv
<1>5. ASSUME NEW i \in Analyzers, EndVictim(i)
      PROVE  GuardInv'
  <2>1. HistoriesTell' /\ RoundsTell'
    BY <1>5 DEF EndVictim, GuardInv, HistoriesTell, EntryTells, RoundsTell
  <2>2. Born' = Born
    BY <1>5 DEF EndVictim, TypeOK, Born
  <2>3. i \in duplicate_victims(inventory) /\ inventory \subseteq Born /\ ruled \subseteq Born
    BY <1>5 DEF EndVictim, GuardInv, CycleTells
  <2>4. PICK j \in inventory : session[j] = session[i] /\ i < j
    BY <2>3 DEF duplicate_victims
  <2>5. NewestSpared'
    <3> SUFFICES ASSUME NEW r \in ruled \cup {i}
                 PROVE  \E k \in Born : session[k] = session[r] /\ r < k
      BY <1>5, <2>2 DEF EndVictim, NewestSpared
    <3>1. CASE r \in ruled
      BY <3>1 DEF GuardInv, NewestSpared
    <3>2. CASE r = i
      BY <3>2, <2>3, <2>4
    <3> QED BY <3>1, <3>2
  <2>6. duplicate_victims(inventory)' = duplicate_victims(inventory)
    BY <1>5 DEF EndVictim, duplicate_victims
  <2>7. ruled' \subseteq Born'
    BY <1>5, <2>2, <2>3 DEF EndVictim, duplicate_victims
  <2>8. CycleTells'
    BY <1>5, <2>2, <2>6, <2>7 DEF EndVictim, GuardInv, CycleTells
  <2> QED BY <2>1, <2>5, <2>8 DEF GuardInv
<1>6. CASE observe_inventory
  <2>1. HistoriesTell'
    BY <1>6, ObserveTells DEF GuardInv
  <2>2. RoundsTell' /\ NewestSpared' /\ Born' = Born
    BY <1>6 DEF observe_inventory, GuardInv, CycleTells, RoundsTell, NewestSpared, Born
  <2>3. /\ candidates' # {} => ~ cooling
        /\ candidates' \subseteq grown
        /\ \A c \in candidates' : histories'[c].over_limit >= Required
    BY <1>6 DEF observe_inventory
  <2>4. ~ cooling => since_remediation = Cooldown
    BY <1>6 DEF observe_inventory, GuardInv, CycleTells
  <2>5. duplicate_victims(inventory)' = duplicate_victims(inventory)
    BY <1>6 DEF observe_inventory, duplicate_victims
  <2>6. CycleTells'
    BY <1>6, <2>2, <2>3, <2>4, <2>5 DEF observe_inventory, GuardInv, CycleTells
  <2> QED BY <2>1, <2>2, <2>6 DEF GuardInv
<1>7. ASSUME NEW i \in Analyzers, EndCandidate(i) \/ CandidateHasExited(i)
      PROVE  GuardInv'
  <2>1. Born' = Born
    BY <1>7 DEF EndCandidate, CandidateHasExited, TypeOK, Born
  <2>2. HistoriesTell' /\ RoundsTell' /\ NewestSpared'
    BY <1>7, <2>1 DEF EndCandidate, CandidateHasExited, GuardInv, HistoriesTell,
                      EntryTells, RoundsTell, NewestSpared
  <2>3. duplicate_victims(inventory)' = duplicate_victims(inventory)
    BY <1>7 DEF EndCandidate, CandidateHasExited, duplicate_victims
  <2>4. CycleTells'
    BY <1>7, <2>1, <2>3 DEF EndCandidate, CandidateHasExited, GuardInv, CycleTells
  <2> QED BY <2>2, <2>4 DEF GuardInv
<1>8. CASE NothingEnded
  <2>1. HistoriesTell' /\ RoundsTell' /\ NewestSpared'
    BY <1>8 DEF NothingEnded, EndCycle, GuardInv, HistoriesTell, EntryTells,
                RoundsTell, NewestSpared, Born
  <2>2. CycleTells'
    BY <1>8 DEF NothingEnded, EndCycle, GuardInv, CycleTells, Born
  <2> QED BY <2>1, <2>2 DEF GuardInv
<1>9. CASE record_remediation
  <2>1. HistoriesTell'
    BY <1>9, FreshHistoriesTell DEF record_remediation
  <2>2. RoundsTell' /\ NewestSpared'
    BY <1>9 DEF record_remediation, EndCycle, GuardInv, RoundsTell, NewestSpared, Born
  <2>3. CycleTells'
    BY <1>9 DEF record_remediation, EndCycle, GuardInv, CycleTells, Born
  <2> QED BY <2>1, <2>2, <2>3 DEF GuardInv
<1>10. CASE Crash
  <2>1. Down /\ Born' = Born /\ UNCHANGED session
    BY <1>10 DEF Crash, Born
  <2> QED BY <2>1, DownTells
<1>11. ASSUME NEW i \in Analyzers, RemediationFails(i)
       PROVE  GuardInv'
  <2>1. Down /\ Born \subseteq Born' /\ UNCHANGED session
    BY <1>11 DEF RemediationFails, TypeOK, Born
  <2> QED BY <2>1, DownTells
<1>12. CASE Tick
  <2>1. Born' = Born /\ UNCHANGED session
    BY <1>12 DEF Tick, Born
  <2>2. HistoriesTell' /\ NewestSpared'
    BY <1>12, <2>1 DEF Tick, GuardInv, HistoriesTell, EntryTells, NewestSpared
  <2>3. RoundsTell'
    BY <1>12 DEF Tick, GuardInv, RoundsTell, CycleTells
  <2>4. since_remediation = Cooldown => since_remediation' = Cooldown
    BY <1>12, Policy, LowerType DEF Tick
  <2>5. \A i \in Analyzers : age[i] = Grace => age'[i] = Grace
    BY <1>12, Policy, LowerType DEF Tick
  <2>6. duplicate_victims(inventory)' = duplicate_victims(inventory)
    BY <1>12 DEF Tick, duplicate_victims
  <2>7. CycleTells'
    BY <1>12, <2>1, <2>4, <2>5, <2>6 DEF Tick, GuardInv, CycleTells, TypeOK
  <2> QED BY <2>2, <2>3, <2>7 DEF GuardInv
<1>13. ASSUME NEW i \in Analyzers, NEW s \in Sessions \cup {NoSession}, Spawn(i, s)
       PROVE  GuardInv'
  <2>1. Born \subseteq Born' /\ \A j \in Born : session'[j] = session[j]
    BY <1>13 DEF Spawn, TypeOK, Born
  <2> QED BY <1>13, <2>1, ProcessTells DEF Spawn
<1>14. ASSUME NEW i \in Analyzers, Exits(i) \/ Grow(i) \/ Shrink(i)
       PROVE  GuardInv'
  <2>1. Born \subseteq Born' /\ \A j \in Born : session'[j] = session[j]
    BY <1>14 DEF Exits, Grow, Shrink, TypeOK, Born
  <2> QED BY <1>14, <2>1, ProcessTells DEF Exits, Grow, Shrink
<1>15. CASE UNCHANGED vars
  <2>1. Born \subseteq Born' /\ \A j \in Born : session'[j] = session[j]
    BY <1>15 DEF vars, Born
  <2> QED BY <1>15, <2>1, ProcessTells DEF vars
<1> QED
  BY <1>1, <1>2, <1>3, <1>4, <1>5, <1>6, <1>7, <1>8, <1>9, <1>10, <1>11, <1>12,
     <1>13, <1>14, <1>15 DEF Next, DaemonStep, DaemonFault, ClientStep, ProcessStep

LEMMA Inductive == Spec => [](TypeOK /\ GuardInv)
<1>1. Init => GuardInv
  <2> SUFFICES ASSUME Init PROVE GuardInv
    OBVIOUS
  <2>1. HistoriesTell
    BY FreshTells DEF Init, HistoriesTell
  <2>2. RoundsTell /\ NewestSpared /\ CycleTells
    BY DEF Init, RoundsTell, NewestSpared, CycleTells, Born, duplicate_victims
  <2> QED BY <2>1, <2>2 DEF GuardInv
<1> QED BY <1>1, GuardStep, GuardTypeCorrect, PTL DEF Spec

(* memory_guard.rs, daemon.rs: the guard's histories, its clock and its     *)
(* candidates tell what it has seen and done in this run.                   *)
THEOREM GuardInvHolds == Spec => []GuardInv
BY Inductive, PTL

(* memory_guard.rs: whoever is about to be ended was over the limit in each *)
(* of the required samples since the last remediation, past its grace.      *)
THEOREM PatienceHolds == Spec => []Patience
<1>1. TypeOK /\ GuardInv => Patience
  <2> SUFFICES ASSUME TypeOK, GuardInv, NEW i \in candidates
               PROVE  /\ age[i] = Grace
                      /\ Len(recent[i]) = Required
                      /\ \A k \in 1..Required : recent[i][k]
    BY DEF Patience
  <2> DEFINE entry == histories[i]
             samples == recent[i]
  <2>1. i \in Analyzers /\ age[i] = Grace /\ entry.over_limit >= Required
    BY DEF TypeOK, GuardInv, CycleTells
  <2>2. /\ entry \in HistoryEntry \cup {NoHistory}
        /\ samples \in Seq(BOOLEAN)
        /\ EntryTells(entry, samples)
    BY <2>1 DEF TypeOK, GuardInv, HistoriesTell
  <2>3. entry.over_limit \in Nat /\ Len(samples) \in Nat
    BY <2>2, EntryType, LenProperties
  <2>4. Len(samples) = Required /\ entry.over_limit = Required
    BY <2>1, <2>2, <2>3, Policy DEF EntryTells
  <2>5. \A k \in 1..Required : samples[k]
    BY <2>2, <2>4, Policy DEF EntryTells
  <2> QED BY <2>1, <2>4, <2>5
<1> QED BY <1>1, Inductive, PTL

(* memory_guard.rs and daemon.rs: rounds of remediations are a cooldown     *)
(* apart in each run of the daemon.                                         *)
THEOREM CooldownKeptHolds == Spec => []CooldownKept
<1>1. GuardInv => CooldownKept
  BY DEF GuardInv, RoundsTell, CycleTells, CooldownKept
<1> QED BY <1>1, Inductive, PTL

(* daemon.rs: the session rule never ends the newest of a session.          *)
THEOREM NewestSparedHolds == Spec => []NewestSpared
<1>1. GuardInv => NewestSpared
  BY DEF GuardInv
<1> QED BY <1>1, Inductive, PTL

(* The guard and its rounds (memory_guard.rs, daemon.rs): typed, and inductively so. *)
THEOREM GuardIInvHolds == Spec => []GuardIInv
<1>1. TypeOK /\ GuardInv => GuardIInv
  BY DEF GuardIInv
<1> QED BY <1>1, GuardTypeCorrect, GuardInvHolds, PTL
-----------------------------------------------------------------------------
(* Every one that was over the limit in each of the required samples. *)
Persistent ==
    {i \in Analyzers : /\ histories[i].known
                       /\ Len(recent[i]) = Required
                       /\ \A k \in 1..Required : recent[i][k]}

(* The converse of Patience: outside a cooldown, a cycle overlooks none.    *)
Diligence ==
    stage = "guard" /\ ~ cooling =>
        \A i \in Persistent : i \in candidates \/ life[i] = "gone"

(* The round that has just read its samples has all of them as candidates. *)
LEMMA AllObserved ==
    ASSUME TypeOK, GuardInv, observe_inventory
    PROVE  Diligence'
<1> SUFFICES ASSUME ~ cooling, NEW i \in Analyzers, histories'[i].known,
                    Len(recent'[i]) = Required,
                    \A k \in 1..Required : recent'[i][k]
             PROVE  i \in candidates'
  BY DEF Diligence, Persistent, observe_inventory, guard
<1> DEFINE seen == (inventory \ excluded) \cap grown
           entry == histories'[i]
           samples == recent'[i]
<1>1. i \in seen
  BY DEF observe_inventory, NoHistory
<1>2. TypeOK' /\ HistoriesTell'
  BY ObserveType, ObserveTells DEF GuardInv
<1>3. /\ entry \in HistoryEntry \cup {NoHistory}
      /\ samples \in Seq(BOOLEAN)
      /\ EntryTells(entry, samples)
  BY <1>2 DEF TypeOK, HistoriesTell, EntryTells
<1>4. entry.over_limit \in Nat
  BY <1>3, EntryType
<1>5. entry.over_limit >= Required
  <2> SUFFICES ASSUME entry.over_limit < Required PROVE FALSE
    BY <1>4, Policy
  <2>1. Required - entry.over_limit \in 1..Required
    BY <1>4, Policy
  <2>2. ~ samples[Required - entry.over_limit]
    BY <1>3 DEF EntryTells
  <2> QED BY <2>1, <2>2
<1> QED BY <1>1, <1>5 DEF observe_inventory

LEMMA DiligenceStep ==
    ASSUME TypeOK, GuardInv, Diligence, [Next]_vars
    PROVE  Diligence'
<1> USE DEF processes, sample, rule, guard, history
<1>1. CASE observe_inventory
  BY <1>1, AllObserved
<1>2. CASE stage' # "guard"
  BY <1>2 DEF Diligence
<1>3. ASSUME NEW i \in Analyzers, EndCandidate(i) \/ CandidateHasExited(i)
      PROVE  Diligence'
  BY <1>3 DEF EndCandidate, CandidateHasExited, Diligence, Persistent, TypeOK
<1>4. ASSUME UNCHANGED <<stage, guard, recent>>,
             \A i \in Analyzers : life[i] = "gone" => life'[i] = "gone"
      PROVE  Diligence'
  BY <1>4 DEF Diligence, Persistent
<1>5. CASE Tick
  BY <1>5 DEF Tick, Diligence, Persistent
<1>6. ASSUME NEW i \in Analyzers, NEW s \in Sessions \cup {NoSession}, Spawn(i, s)
      PROVE  Diligence'
  <2>1. \A j \in Analyzers : life[j] = "gone" => life'[j] = "gone"
    BY <1>6 DEF Spawn, TypeOK
  <2> QED BY <1>4, <1>6, <2>1 DEF Spawn
<1>7. ASSUME NEW i \in Analyzers, Exits(i) \/ Grow(i) \/ Shrink(i)
      PROVE  Diligence'
  <2>1. \A j \in Analyzers : life[j] = "gone" => life'[j] = "gone"
    BY <1>7 DEF Exits, Grow, Shrink, TypeOK
  <2> QED BY <1>4, <1>7, <2>1 DEF Exits, Grow, Shrink
<1>8. CASE UNCHANGED vars
  <2>1. \A j \in Analyzers : life[j] = "gone" => life'[j] = "gone"
    BY <1>8 DEF vars
  <2> QED BY <1>4, <1>8, <2>1 DEF vars
<1>9. CASE Start \/ ClientStep \/ DaemonFault
  BY <1>2, <1>9 DEF Start, ClientStep, Accept, SampleAfterBatch, Sample,
                    DaemonFault, Crash, RemediationFails, Down
<1>10. CASE DaemonStep
  <2>1. CASE SampleAfterWait \/ NoDuplicates \/ FindDuplicates
    BY <1>2, <2>1 DEF SampleAfterWait, Sample, NoDuplicates, FindDuplicates
  <2>2. ASSUME NEW i \in Analyzers, SkipVictim(i) \/ EndVictim(i) \/ VictimHasExited(i)
        PROVE  Diligence'
    BY <1>2, <2>2 DEF SkipVictim, EndVictim, VictimHasExited
  <2>3. CASE NothingEnded \/ record_remediation
    BY <1>2, <2>3 DEF NothingEnded, record_remediation, EndCycle
  <2> QED BY <1>1, <1>3, <1>10, <2>1, <2>2, <2>3 DEF DaemonStep
<1> QED BY <1>5, <1>6, <1>7, <1>8, <1>9, <1>10 DEF Next, ProcessStep

(* memory_guard.rs: whoever was over the limit in each of the required      *)
(* samples is a candidate of the cycle or has gone, unless it cools down.   *)
THEOREM DiligenceHolds == Spec => []Diligence
<1>1. Init => Diligence
  BY DEF Init, Diligence
<1>2. TypeOK /\ GuardInv /\ Diligence /\ [Next]_vars => Diligence'
  BY DiligenceStep
<1> QED BY <1>1, <1>2, Inductive, PTL DEF Spec

-----------------------------------------------------------------------------
(* At most so many steps are left of the cycle, whatever the processes do. *)
StepsLeft ==
    CASE stage = "rule"    -> 2 * Cardinality(Analyzers) + 3
      [] stage = "replace" -> Cardinality(victims) + Cardinality(Analyzers) + 2
      [] stage = "guard"   -> Cardinality(candidates) + 1
      [] OTHER             -> 0

InCycle == stage \in {"rule", "replace", "guard"}

LEMMA StepsLeftIs ==
    /\ stage = "rule" => StepsLeft = 2 * Cardinality(Analyzers) + 3
    /\ stage = "replace" =>
         StepsLeft = Cardinality(victims) + Cardinality(Analyzers) + 2
    /\ stage = "guard" => StepsLeft = Cardinality(candidates) + 1
    /\ ~ InCycle => StepsLeft = 0
  BY DEF StepsLeft, InCycle

LEMMA StepsLeftNextIs ==
    /\ stage' = "rule" => StepsLeft' = 2 * Cardinality(Analyzers) + 3
    /\ stage' = "replace" =>
         StepsLeft' = Cardinality(victims') + Cardinality(Analyzers) + 2
    /\ stage' = "guard" => StepsLeft' = Cardinality(candidates') + 1
    /\ ~ InCycle' => StepsLeft' = 0
  BY DEF StepsLeft, InCycle

LEMMA Counted ==
    ASSUME IsFiniteSet(Analyzers), NEW S, S \subseteq Analyzers
    PROVE  /\ IsFiniteSet(S)
           /\ Cardinality(S) \in 0..Cardinality(Analyzers)
           /\ \A i \in S : Cardinality(S \ {i}) = Cardinality(S) - 1
<1>1. /\ IsFiniteSet(S)
      /\ Cardinality(S) \in Nat /\ Cardinality(Analyzers) \in Nat
      /\ Cardinality(S) <= Cardinality(Analyzers)
  BY FS_Subset, FS_CardinalityType
<1>2. \A i \in S : Cardinality(S \ {i}) = Cardinality(S) - 1
  BY <1>1, FS_RemoveElement
<1> QED BY <1>1, <1>2

LEMMA StepShortens ==
    ASSUME IsFiniteSet(Analyzers), TypeOK, TypeOK', InCycle, DaemonStep
    PROVE  StepsLeft' < StepsLeft
<1> USE DEF InCycle
<1> DEFINE N == Cardinality(Analyzers)
<1>1. /\ N \in Nat
      /\ Cardinality(victims) \in 0..N /\ Cardinality(victims') \in 0..N
      /\ Cardinality(candidates) \in 0..N /\ Cardinality(candidates') \in 0..N
      /\ victims = {} => Cardinality(victims) = 0
  BY Counted, FS_CardinalityType, FS_EmptySet DEF TypeOK
<1>2. CASE NoDuplicates \/ FindDuplicates
  <2>1. stage = "rule" /\ stage' = "replace"
    BY <1>2 DEF NoDuplicates, FindDuplicates
  <2> QED BY <1>1, <2>1, StepsLeftIs, StepsLeftNextIs
<1>3. ASSUME NEW i \in Analyzers, SkipVictim(i) \/ EndVictim(i) \/ VictimHasExited(i)
      PROVE  StepsLeft' < StepsLeft
  <2>1. /\ stage = "replace" /\ stage' = "replace"
        /\ i \in victims /\ victims' = victims \ {i}
    BY <1>3 DEF SkipVictim, EndVictim, VictimHasExited
  <2>2. Cardinality(victims') = Cardinality(victims) - 1
    BY <2>1, Counted DEF TypeOK
  <2> QED BY <1>1, <2>1, <2>2, StepsLeftIs, StepsLeftNextIs
<1>4. CASE observe_inventory
  <2>1. stage = "replace" /\ stage' = "guard"
    BY <1>4 DEF observe_inventory
  <2> QED BY <1>1, <2>1, StepsLeftIs, StepsLeftNextIs
<1>5. ASSUME NEW i \in Analyzers, EndCandidate(i) \/ CandidateHasExited(i)
      PROVE  StepsLeft' < StepsLeft
  <2>1. /\ stage = "guard" /\ stage' = "guard"
        /\ i \in candidates /\ candidates' = candidates \ {i}
    BY <1>5 DEF EndCandidate, CandidateHasExited
  <2>2. Cardinality(candidates') = Cardinality(candidates) - 1
    BY <2>1, Counted DEF TypeOK
  <2> QED BY <1>1, <2>1, <2>2, StepsLeftIs, StepsLeftNextIs
<1>6. CASE NothingEnded \/ record_remediation
  <2>1. stage = "guard" /\ stage' = "idle"
    BY <1>6 DEF NothingEnded, record_remediation, EndCycle
  <2> QED BY <1>1, <2>1, StepsLeftIs, StepsLeftNextIs
<1>7. ~ SampleAfterWait
  BY DEF SampleAfterWait
<1> QED BY <1>2, <1>3, <1>4, <1>5, <1>6, <1>7 DEF DaemonStep

LEMMA NothingLengthens ==
    ASSUME InCycle, Tick \/ ProcessStep
    PROVE  StepsLeft' = StepsLeft
<1>1. UNCHANGED <<stage, victims, candidates>>
  BY DEF Tick, ProcessStep, Spawn, Exits, Grow, Shrink, rule, guard
<1> QED BY <1>1 DEF StepsLeft

(* memory_guard.rs, daemon.rs: each step of a cycle brings its end nearer,  *)
(* and nothing that the processes do or the time that passes puts it off.   *)
THEOREM CycleShortens ==
    ASSUME IsFiniteSet(Analyzers)
    PROVE  Spec => [][InCycle => /\ DaemonStep => StepsLeft' < StepsLeft
                                 /\ Tick \/ ProcessStep => StepsLeft' = StepsLeft]_vars
<1>1. TypeOK /\ [Next]_vars /\ TypeOK' =>
        [InCycle => /\ DaemonStep => StepsLeft' < StepsLeft
                    /\ Tick \/ ProcessStep => StepsLeft' = StepsLeft]_vars
  BY StepShortens, NothingLengthens
<1> QED BY <1>1, GuardTypeCorrect, PTL DEF Spec
-----------------------------------------------------------------------------
(* A finite set of numbers has a greatest: one with the fewest above it. *)
LEMMA Greatest ==
    ASSUME NEW S, S \subseteq Nat, IsFiniteSet(S), S # {}
    PROVE  \E m \in S : \A j \in S : j <= m
<1> DEFINE Above(m) == {j \in S : m < j}
           Less == OpToRel(<, Nat)
           Counts == {Cardinality(Above(m)) : m \in S}
<1>1. \A m \in S : IsFiniteSet(Above(m)) /\ Cardinality(Above(m)) \in Nat
  BY FS_Subset, FS_CardinalityType
<1>2. Counts \subseteq Nat /\ Counts # {}
  BY <1>1
<1>3. PICK n \in Counts : \A k \in Counts : ~ (<<k, n>> \in Less)
  BY <1>2, NatLessThanWellFounded, WFMin, Zenon
<1>4. PICK m \in S : n = Cardinality(Above(m))
  OBVIOUS
<1>5. \A k \in Counts : ~ (k < n)
  BY <1>2, <1>3 DEF OpToRel
<1>6. ASSUME NEW j \in S, m < j PROVE FALSE
  <2>1. Above(j) \subseteq Above(m) /\ j \in Above(m) /\ j \notin Above(j)
    <3>1. m \in Nat /\ j \in Nat /\ m < j
      BY <1>4, <1>6
    <3>2. \A k \in S : j < k => m < k
      BY <3>1
    <3>3. ~ (j < j)
      BY <3>1
    <3> QED BY <3>1, <3>2, <3>3, Zenon
  <2>2. /\ Cardinality(Above(j)) <= Cardinality(Above(m))
        /\ Cardinality(Above(j)) # Cardinality(Above(m))
    <3> HIDE DEF Above
    <3> QED BY <1>1, <2>1, FS_Subset
  <2>3. Cardinality(Above(j)) \in Counts
    OBVIOUS
  <2> HIDE DEF Above, Counts
  <2> QED BY <1>1, <1>4, <1>5, <2>2, <2>3
<1> QED BY <1>6

(* duplicate_rust_analyzer_victims_by_session (daemon.rs): of each session  *)
(* in the inventory exactly one is spared, its newest.                      *)
THEOREM OneSparedPerSession ==
    ASSUME NEW S, S \subseteq Analyzers, IsFiniteSet(S),
           NEW i \in S, session[i] # NoSession
    PROVE  \E m \in S : /\ session[m] = session[i]
                        /\ m \notin duplicate_victims(S)
                        /\ \A j \in S : session[j] = session[i] =>
                              j <= m /\ (j # m => j \in duplicate_victims(S))
<1> DEFINE T == {j \in S : session[j] = session[i]}
<1>1. T \subseteq Nat /\ IsFiniteSet(T) /\ T # {}
  BY Policy, FS_Subset
<1>2. PICK m \in T : \A j \in T : j <= m
  BY <1>1, Greatest
<1>3. m \notin duplicate_victims(S)
  BY <1>1, <1>2 DEF duplicate_victims
<1>4. \A j \in T : j # m => j \in duplicate_victims(S)
  BY <1>1, <1>2 DEF duplicate_victims
<1> QED BY <1>2, <1>3, <1>4
=============================================================================
