------------------------------ MODULE McpProofs ------------------------------
(***************************************************************************)
(* What makes a process a leak candidate, for every policy and any number  *)
(* of processes and samples; and what the MCP server answers, for any      *)
(* number of calls at a time, of inventories and of evidence files.        *)
(***************************************************************************)
EXTENDS Mcp, SequenceTheorems, FiniteSetTheorems, TLAPS

(* The detector by itself: module LeakDetector. *)
LEMMA Policy ==
    /\ MaxRss \in Nat /\ MinimumRss \in Nat /\ MinimumGrowth \in Nat
    /\ Required \in Nat /\ MaxSamples \in Nat
BY PolicyAssumption

LEMMA SampledType ==
    ASSUME NEW entry \in HistoryEntry \cup {NoHistory}, NEW rss \in Nat
    PROVE  Sampled(entry, rss) \in HistoryEntry
<1>1. /\ Known(entry, rss) \in HistoryEntry
      /\ \A b, l, g \in Nat : History(b, l, g) \in HistoryEntry
  <2>1. \A b, l, g \in Nat : History(b, l, g) \in HistoryEntry
    BY DEF History, HistoryEntry
  <2>2. entry \in HistoryEntry \/ entry.known = FALSE
    BY DEF NoHistory
  <2>3. entry \in HistoryEntry => entry.known
    BY DEF HistoryEntry
  <2> QED BY <2>1, <2>2, <2>3 DEF Known
<1>2. /\ Known(entry, rss).baseline \in Nat
      /\ Known(entry, rss).growth + 1 \in Nat
  BY <1>1 DEF HistoryEntry
<1> QED BY <1>1, <1>2 DEF Sampled

LEMMA ObserveType ==
    ASSUME TypeOK, NEW inventory \in [Processes -> 0..MaxRss],
           observe_inventory(inventory)
    PROVE  TypeOK'
<1>1. \A p \in Processes : inventory[p] \in Nat
  BY Policy
<1>2. histories' \in [Processes -> HistoryEntry \cup {NoHistory}]
  BY <1>1, SampledType DEF TypeOK, observe_inventory
<1>3. samples' \in [Processes -> Seq(Nat)]
  <2>1. ASSUME NEW p \in Processes
        PROVE  Append(samples[p], inventory[p]) \in Seq(Nat)
    <3>1. inventory[p] \in Nat /\ samples[p] \in Seq(Nat)
      BY <1>1 DEF TypeOK
    <3> QED BY <3>1, AppendProperties
  <2>2. <<>> \in Seq(Nat)
    OBVIOUS
  <2> QED BY <2>1, <2>2 DEF observe_inventory
<1> QED BY <1>2, <1>3 DEF TypeOK, observe_inventory

LEMMA Product ==
    ASSUME NEW a \in Nat, NEW g \in Nat
    PROVE  a * g \in Nat /\ (a + 1) * g = a * g + g
OBVIOUS

LEMMA GrowthSum ==
    ASSUME NEW a \in Nat, NEW b \in Nat, NEW g \in Nat, a >= b
    PROVE  a * g >= b * g
<1>1. PICK d \in Nat : a = b + d
  <2>1. a - b \in Nat /\ a = b + (a - b)
    OBVIOUS
  <2> QED BY <2>1
<1>2. a * g = b * g + d * g
  BY <1>1
<1>3. d * g \in Nat /\ b * g \in Nat /\ a * g \in Nat
  OBVIOUS
<1> QED BY <1>2, <1>3

(* One more sample of a process, and the history that it leaves. *)
LEMMA SampleTells ==
    ASSUME TypeOK, NEW p \in Processes, NEW rss \in Nat,
           HistoryTells(p),
           histories'[p] = Sampled(histories[p], rss),
           samples'[p] = Append(samples[p], rss),
           p \in candidates' <=> histories'[p].growth >= Required
    PROVE  HistoryTells(p)'
<1>0. PICK n \in Nat : n = Seen(p)
  BY DEF TypeOK, Seen
<1> DEFINE e == histories[p]
           f == histories'[p]
<1>1. /\ Seen(p) = n /\ Seen(p)' = n + 1
      /\ Rss(p, n + 1)' = rss
      /\ \A i \in 1..n : Rss(p, i)' = Rss(p, i)
      /\ \A i \in 1..n : Rss(p, i) \in Nat
  <2>1. samples[p] \in Seq(Nat) /\ Len(samples[p]) = n
    BY <1>0 DEF TypeOK, Seen
  <2>2. rss \in Nat
    OBVIOUS
  <2>3. /\ Len(samples'[p]) = n + 1
        /\ samples'[p][n + 1] = rss
        /\ \A i \in 1..n : samples'[p][i] = samples[p][i]
    BY <2>1, <2>2, AppendProperties
  <2>4. \A i \in 1..n : samples[p][i] \in Nat
    BY <2>1, ElementOfSeq
  <2> QED BY <2>1, <2>3, <2>4 DEF Seen, Rss
<1>2. CASE n = 0
  <2>1. e = NoHistory
    BY <1>1, <1>2 DEF HistoryTells
  <2>2. /\ f.known /\ f.last = rss /\ f.baseline = rss
        /\ f.growth \in {0, 1} /\ (f.growth = 1 => MinimumGrowth = 0)
    BY <2>1, Policy DEF Sampled, Known, History, NoHistory
  <2>3. f.growth * MinimumGrowth = 0
    BY <2>2, Policy
  <2>4. RisesFrom(p, 1)' /\ Rss(p, 1)' = f.baseline
    BY <1>1, <1>2, <2>2 DEF RisesFrom
  <2> QED BY <1>1, <1>2, <2>2, <2>3, <2>4 DEF HistoryTells
<1>3. CASE n # 0
  <2>1. /\ e \in HistoryEntry /\ e.known
        /\ e.last = Rss(p, n)
        /\ e.last >= e.baseline + e.growth * MinimumGrowth
    <3>1. e \in HistoryEntry \/ e = NoHistory
      BY DEF TypeOK
    <3>2. NoHistory.known = FALSE
      BY DEF NoHistory
    <3> QED BY <1>1, <1>3, <3>1, <3>2 DEF HistoryTells
  <2>2. /\ e.baseline \in Nat /\ e.last \in Nat /\ e.growth \in Nat
        /\ e.growth * MinimumGrowth \in Nat
    <3>1. e.baseline \in Nat /\ e.last \in Nat /\ e.growth \in Nat
      BY <2>1 DEF HistoryEntry
    <3> QED BY <3>1, Product, Policy
  <2>3. PICK i \in 1..n : RisesFrom(p, i) /\ Rss(p, i) = e.baseline
    BY <1>1, <1>3 DEF HistoryTells
  <2>4. \A m \in 0 .. n - 1 :
          (\A j \in n - m + 1 .. n : Grew(p, j)) => e.growth >= m
    BY <1>1, <1>3 DEF HistoryTells
  <2>5. \A j \in 2..n : Grew(p, j)' <=> Grew(p, j)
    BY <1>1 DEF Grew
  <2>6. Grew(p, n + 1)' <=> rss >= e.last + MinimumGrowth
    BY <1>1, <1>3, <2>1 DEF Grew
  <2>7. ASSUME rss = e.last \/ rss >= e.last + MinimumGrowth
        PROVE  RisesFrom(p, i)' /\ Rss(p, i)' = e.baseline
    <3>1. Rss(p, i)' = e.baseline
      BY <1>1, <2>3
    <3>2. ASSUME NEW j \in i + 1 .. n + 1
          PROVE  \/ Rss(p, j)' = Rss(p, j - 1)'
                 \/ Rss(p, j)' >= Rss(p, j - 1)' + MinimumGrowth
      <4>1. CASE j = n + 1
        BY <4>1, <1>1, <1>3, <2>1, <2>7
      <4>2. CASE j # n + 1
        <5>1. j \in i + 1 .. n /\ j \in 1..n /\ j - 1 \in 1..n
          BY <4>2, <2>3, <1>1
        <5> QED BY <5>1, <1>1, <2>3 DEF RisesFrom
      <4> QED BY <4>1, <4>2
    <3> QED BY <3>1, <3>2, <1>1 DEF RisesFrom
  <2>8. CASE rss >= e.last + MinimumGrowth
    <3>1. /\ f.known /\ f.last = rss /\ f.baseline = e.baseline
          /\ f.growth = e.growth + 1
      BY <2>1, <2>8 DEF Sampled, Known, History, HistoryEntry
    <3>2. (e.growth + 1) * MinimumGrowth = e.growth * MinimumGrowth + MinimumGrowth
      BY <2>2, Product, Policy
    <3>3. f.last >= f.baseline + f.growth * MinimumGrowth
      <4> DEFINE product == e.growth * MinimumGrowth
      <4>1. product \in Nat /\ e.last >= e.baseline + product
        BY <2>1, <2>2
      <4>2. f.growth * MinimumGrowth = product + MinimumGrowth
        BY <3>1, <3>2
      <4> HIDE DEF product
      <4>3. rss >= e.baseline + (product + MinimumGrowth)
        BY <4>1, <2>2, <2>8, Policy
      <4> QED BY <3>1, <4>2, <4>3
    <3>4. ASSUME NEW m \in 0..n,
                 \A j \in n + 1 - m + 1 .. n + 1 : Grew(p, j)'
          PROVE  f.growth >= m
      <4>1. CASE m = 0
        BY <4>1, <3>1, <2>2
      <4>2. CASE m # 0
        <5>1. m - 1 \in 0 .. n - 1
          BY <4>2, <1>1
        <5>2. \A j \in n - (m - 1) + 1 .. n : Grew(p, j)
          BY <3>4, <4>2, <2>5, <1>1
        <5>3. e.growth >= m - 1
          BY <5>1, <5>2, <2>4
        <5> QED BY <5>3, <3>1, <2>2, <1>1
      <4> QED BY <4>1, <4>2
    <3> QED BY <1>1, <2>7, <2>8, <3>1, <3>3, <3>4 DEF HistoryTells
  <2>9. CASE rss = e.last /\ ~ rss >= e.last + MinimumGrowth
    <3>1. f = e
      BY <2>1, <2>9 DEF Sampled, Known
    <3>2. ASSUME NEW m \in 0..n,
                 \A j \in n + 1 - m + 1 .. n + 1 : Grew(p, j)'
          PROVE  f.growth >= m
      <4>0. ~ Grew(p, n + 1)'
        BY <2>6, <2>9
      <4>1. m = 0
        <5>1. m # 0 => n + 1 \in n + 1 - m + 1 .. n + 1
          BY <1>1
        <5> QED BY <5>1, <3>2, <4>0
      <4> QED BY <4>1, <3>1, <2>2
    <3> QED BY <1>1, <2>1, <2>7, <2>9, <3>1, <3>2 DEF HistoryTells
  <2>10. CASE rss # e.last /\ ~ rss >= e.last + MinimumGrowth
    <3>1. /\ f.known /\ f.last = rss /\ f.baseline = rss /\ f.growth = 0
      BY <2>1, <2>10 DEF Sampled, Known, History, HistoryEntry
    <3>2. RisesFrom(p, n + 1)' /\ Rss(p, n + 1)' = f.baseline
      BY <1>1, <3>1 DEF RisesFrom
    <3>3. ASSUME NEW m \in 0..n,
                 \A j \in n + 1 - m + 1 .. n + 1 : Grew(p, j)'
          PROVE  f.growth >= m
      <4>0. ~ Grew(p, n + 1)'
        BY <2>6, <2>10
      <4>1. m = 0
        <5>1. m # 0 => n + 1 \in n + 1 - m + 1 .. n + 1
          BY <1>1
        <5> QED BY <5>1, <3>3, <4>0
      <4> QED BY <4>1, <3>1
    <3>4. f.growth * MinimumGrowth = 0
      BY <3>1, Policy
    <3> QED BY <1>1, <3>1, <3>2, <3>3, <3>4 DEF HistoryTells
  <2> QED BY <2>8, <2>9, <2>10
<1> QED BY <1>2, <1>3

LEMMA ObserveTells ==
    ASSUME TypeOK, DetectorInv, NEW inventory \in [Processes -> 0..MaxRss],
           observe_inventory(inventory)
    PROVE  DetectorInv'
<1> SUFFICES ASSUME NEW p \in Processes PROVE HistoryTells(p)'
  BY DEF DetectorInv
<1>1. inventory[p] \in Nat /\ HistoryTells(p)
  BY Policy DEF DetectorInv
<1>2. CASE Eligible(inventory[p])
  <2>1. /\ histories'[p] = Sampled(histories[p], inventory[p])
        /\ samples'[p] = Append(samples[p], inventory[p])
        /\ p \in candidates' <=> histories'[p].growth >= Required
    BY <1>2 DEF observe_inventory
  <2> QED BY <1>1, <2>1, SampleTells
<1>3. CASE ~ Eligible(inventory[p])
  <2>1. histories'[p] = NoHistory /\ samples'[p] = <<>> /\ p \notin candidates'
    BY <1>3 DEF observe_inventory
  <2>2. Seen(p)' = 0
    BY <2>1 DEF Seen
  <2> QED BY <2>1, <2>2 DEF HistoryTells
<1> QED BY <1>2, <1>3

LEMMA FreshTells ==
    /\ Init => TypeOK /\ DetectorInv
    /\ Restart => TypeOK' /\ DetectorInv'
<1>0. <<>> \in Seq(Nat)
  OBVIOUS
<1>1. Init => TypeOK /\ DetectorInv
  BY <1>0 DEF Init, TypeOK, DetectorInv, HistoryTells, Seen
<1>2. Restart => TypeOK' /\ DetectorInv'
  BY <1>0 DEF Restart, TypeOK, DetectorInv, HistoryTells, Seen
<1> QED BY <1>1, <1>2

(* The step lemma, which the MCP server uses as well. *)
LEMMA DetectorStep ==
    ASSUME TypeOK, DetectorInv, [Next]_vars
    PROVE  TypeOK' /\ DetectorInv'
<1>1. CASE Sample
  BY <1>1, ObserveType, ObserveTells DEF Sample
<1>2. CASE Restart
  BY <1>2, FreshTells
<1>3. CASE UNCHANGED vars
  BY <1>3 DEF vars, TypeOK, DetectorInv, HistoryTells, Seen, RisesFrom, Rss, Grew
<1> QED BY <1>1, <1>2, <1>3 DEF Next

LEMMA Inductive == Spec => [](TypeOK /\ DetectorInv)
<1>1. TypeOK /\ DetectorInv /\ [Next]_vars => TypeOK' /\ DetectorInv'
  BY DetectorStep
<1> QED BY <1>1, FreshTells, PTL DEF Spec

LEMMA GrewFromInv == TypeOK /\ DetectorInv => CandidatesGrew
<1> SUFFICES ASSUME TypeOK, DetectorInv, NEW p \in candidates
             PROVE  \E i \in 1..Seen(p) :
                      /\ RisesFrom(p, i)
                      /\ Rss(p, i) = histories[p].baseline
                      /\ Rss(p, Seen(p)) >= Rss(p, i) + Required * MinimumGrowth
  BY DEF CandidatesGrew
<1> DEFINE e == histories[p]
<1>1. HistoryTells(p) /\ p \in Processes /\ Seen(p) # 0
  BY DEF DetectorInv, TypeOK, HistoryTells
<1>2. /\ e.last = Rss(p, Seen(p))
      /\ e.last >= e.baseline + e.growth * MinimumGrowth
      /\ e.growth >= Required
  BY <1>1 DEF HistoryTells
<1>3. PICK i \in 1..Seen(p) : RisesFrom(p, i) /\ Rss(p, i) = e.baseline
  BY <1>1 DEF HistoryTells
<1>4. e.growth \in Nat /\ e.baseline \in Nat /\ e.last \in Nat
  <2>1. e \in HistoryEntry \/ e = NoHistory
    BY <1>1 DEF TypeOK
  <2>2. CASE e \in HistoryEntry
    BY <2>2 DEF HistoryEntry
  <2>3. CASE e = NoHistory
    BY <2>3 DEF NoHistory
  <2> QED BY <2>1, <2>2, <2>3
<1>5. /\ e.growth * MinimumGrowth >= Required * MinimumGrowth
      /\ e.growth * MinimumGrowth \in Nat
      /\ Required * MinimumGrowth \in Nat
  BY <1>2, <1>4, GrowthSum, Product, Policy
<1>6. e.last >= e.baseline + Required * MinimumGrowth
  <2> DEFINE grown == e.growth * MinimumGrowth
             needed == Required * MinimumGrowth
  <2>1. grown \in Nat /\ needed \in Nat /\ grown >= needed
    BY <1>5
  <2>2. e.last >= e.baseline + grown
    BY <1>2
  <2> HIDE DEF grown, needed
  <2>3. e.last >= e.baseline + needed
    BY <2>1, <2>2, <1>4
  <2> QED BY <2>3 DEF needed
<1> QED BY <1>2, <1>3, <1>6

LEMMA FoundFromInv == TypeOK /\ DetectorInv => LeaksFound
<1> SUFFICES ASSUME TypeOK, DetectorInv, NEW p \in Processes,
                    Seen(p) > Required,
                    \A j \in Seen(p) - Required + 1 .. Seen(p) : Grew(p, j)
             PROVE  p \in candidates
  BY DEF LeaksFound
<1>1. Seen(p) \in Nat /\ Required \in Nat
  BY Policy DEF TypeOK, Seen
<1>2. Required \in 0 .. Seen(p) - 1 /\ Seen(p) # 0
  BY <1>1
<1>3. HistoryTells(p)
  BY DEF DetectorInv
<1>4. histories[p].growth >= Required
  BY <1>2, <1>3 DEF HistoryTells
<1> QED BY <1>2, <1>3, <1>4 DEF HistoryTells

(* leak.rs: each history tells the samples it was built from, although it   *)
(* keeps two of them and a count, for every policy.                         *)
THEOREM DetectorIInvHolds == Spec => []DetectorIInv
<1>1. TypeOK /\ DetectorInv => DetectorIInv
  BY DEF DetectorIInv
<1> QED BY <1>1, Inductive, PTL

(* leak.rs: a candidate has grown by the required multiple of the minimum   *)
(* since some sample, was sampled ever since, and never fell in between.    *)
THEOREM CandidatesGrewHolds == Spec => []CandidatesGrew
BY GrewFromInv, Inductive, PTL

(* leak.rs: a process that grows by the minimum the required number of      *)
(* times in a row is a candidate.                                           *)
THEOREM LeaksFoundHolds == Spec => []LeaksFound
BY FoundFromInv, Inductive, PTL

-----------------------------------------------------------------------------
(* The server: module Mcp. *)

(* Of the evidence, a step of a cleanup leaves what list_evidence may       *)
(* already have seen.                                                       *)
LEMMA PersistKeeps ==
    ASSUME DOMAIN files = Names, NEW c \in Callers, PersistStep(c)
    PROVE  /\ DOMAIN files' = Names
           /\ Present \subseteq Present'
           /\ has_dir => has_dir'
<1>1. CASE CreateDir(c)
  BY <1>1 DEF CreateDir, Present
<1>2. CASE OpenEvidence(c)
  <2>1. Empty # Absent
    BY DEF Empty, Absent
  <2>2. files' = [files EXCEPT ![NameOf(c)] = Empty] /\ has_dir' = has_dir
    BY <1>2 DEF OpenEvidence
  <2> QED BY <2>1, <2>2 DEF Present
<1>3. CASE WriteEvidence(c)
  <2> DEFINE text == Overwritten(files[NameOf(c)], writer[c].evidence,
                               Longer(files[NameOf(c)].text, writer[c].evidence))
  <2>1. \A t : Whole(t) # Absent /\ Mixed(t) # Absent
    <3>1. \A t : Whole(t).state = "whole" /\ Mixed(t).state = "mixed"
      BY DEF Whole, Mixed
    <3>2. Absent.state = "absent"
      BY DEF Absent
    <3> QED BY <3>1, <3>2
  <2>2. text # Absent
    BY <2>1 DEF Overwritten
  <2>3. files' = [files EXCEPT ![NameOf(c)] = text] /\ has_dir' = has_dir
    BY <1>3 DEF WriteEvidence
  <2> HIDE DEF text
  <2> QED BY <2>2, <2>3 DEF Present
<1>4. CASE WriteUnlinked(c) \/ FallBack(c)
  BY <1>4 DEF WriteUnlinked, FallBack, Present
<1> QED BY <1>1, <1>2, <1>3, <1>4 DEF PersistStep

(* What does not concern the detector leaves what it knows... *)
LEMMA DetectorUndisturbed ==
    ASSUME McpIInv,
           call' \in [Callers -> CallTypes],
           \A d \in Callers : Scanning(d)' <=> Scanning(d),
           \A d \in Callers : Scanning(d) => call'[d].at = call[d].at,
           UNCHANGED <<truth, observed, overtaken, histories, candidates, samples>>,
           DOMAIN files' = Names,
           \A d \in Callers : ListingFollows(d)'
    PROVE  McpIInv'
<1>1. DetectorIInv' /\ CallTypes' = CallTypes
  BY DEF McpIInv, DetectorIInv, TypeOK, DetectorInv, HistoryTells, Seen, RisesFrom,
         Rss, Grew, CallTypes
<1>2. SamplesInOrder'
  <2>1. CASE overtaken
    BY <2>1 DEF SamplesInOrder
  <2>2. CASE ~ overtaken
    <3>1. \A i \in observed + 1 .. Len(truth) :
             \E d \in Callers : Scanning(d)' /\ call'[d].at = i
      BY <2>2 DEF McpIInv, SamplesInOrder
    <3>2. \A d \in Callers : Scanning(d)' => call'[d].at > observed
      BY <2>2 DEF McpIInv, SamplesInOrder
    <3>3. \A p \in Processes :
             /\ Seen(p)' <= observed
             /\ \A j \in 1..Seen(p)' :
                   Rss(p, j)' = truth[observed - Seen(p)' + j][p]
      BY <2>2 DEF McpIInv, SamplesInOrder, Seen, Rss
    <3> QED BY <3>1, <3>2, <3>3 DEF SamplesInOrder
  <2> QED BY <2>1, <2>2
<1>3. \A d, e \in Callers :
         Scanning(d)' /\ Scanning(e)' /\ call'[d].at = call'[e].at => d = e
  BY DEF McpIInv
<1> QED BY <1>1, <1>2, <1>3 DEF McpIInv

(* ... as do calls that begin or end without an inventory. *)
LEMMA CallChanges ==
    ASSUME McpIInv, NEW c \in Callers, NEW now \in CallTypes,
           call' = [call EXCEPT ![c] = now],
           now.stage # "scan", ~ Scanning(c),
           UNCHANGED <<truth, observed, overtaken, histories, candidates, samples,
                       has_dir, files>>,
           ListingFollows(c)'
    PROVE  McpIInv'
<1>1. /\ call' \in [Callers -> CallTypes]
      /\ call'[c] = now
      /\ \A d \in Callers : d # c => call'[d] = call[d]
  BY DEF McpIInv
<1>2. \A d \in Callers : Scanning(d)' <=> Scanning(d)
  BY <1>1 DEF Scanning
<1>3. Present' = Present
  BY DEF Present
<1>4. \A d \in Callers : ListingFollows(d)'
  BY <1>1, <1>3 DEF McpIInv, ListingFollows
<1>5. \A d \in Callers : Scanning(d) => call'[d].at = call[d].at
  BY <1>1
<1>6. DOMAIN files' = Names
  BY DEF McpIInv
<1> QED BY <1>1, <1>2, <1>4, <1>5, <1>6, DetectorUndisturbed

(* Cleanups may only add files under a call that lists them. *)
LEMMA CleanupKeeps ==
    ASSUME McpIInv, NEW c \in Callers, cleanup(c) \/ CleanupStep(c)
    PROVE  McpIInv'
<1>1. UNCHANGED <<call, truth, observed, overtaken, histories, candidates, samples>>
  BY DEF cleanup, CleanupStep, call_vars
<1>2. /\ DOMAIN files' = Names
      /\ Present \subseteq Present'
      /\ has_dir => has_dir'
  <2>1. CASE cleanup(c)
    BY <2>1 DEF cleanup, BeginRunOnce, Present, McpIInv
  <2>2. CASE CleanupStep(c)
    BY <2>2, PersistKeeps DEF CleanupStep, McpIInv
  <2> QED BY <2>1, <2>2
<1>3. \A d \in Callers : ListingFollows(d)'
  BY <1>1, <1>2 DEF McpIInv, ListingFollows
<1>4. call' \in [Callers -> CallTypes]
  BY <1>1 DEF McpIInv
<1> QED BY <1>1, <1>2, <1>3, <1>4, DetectorUndisturbed DEF Scanning

LEMMA ListTypes ==
    ASSUME NEW s \in {"read_dir", "metadata"}, NEW t \in SUBSET Names,
           NEW h \in SUBSET Names, NEW k \in SUBSET Names, NEW l \in BOOLEAN
    PROVE  [stage |-> s, todo |-> t, shown |-> h, kept |-> k, lost |-> l] \in CallTypes
BY DEF CallTypes

(* A call in the midst of a listing. *)
LEMMA Midst ==
    ASSUME McpIInv, NEW c \in Callers, Listing(c)
    PROVE  /\ call[c] \in [stage : {"read_dir", "metadata"}, todo : SUBSET Names,
                            shown : SUBSET Names, kept : SUBSET Names, lost : BOOLEAN]
           /\ ~ Scanning(c)
           /\ Ready \in CallTypes
           /\ Ready.stage = "ready"
BY DEF McpIInv, Listing, Scanning, CallTypes, Ready

LEMMA AnswerKeeps ==
    ASSUME McpIInv, NEW c \in Callers, Listing(c),
           NEW ok, NEW shown, Answer(ok, shown, c),
           UNCHANGED <<truth, observed, overtaken, histories, candidates, samples,
                       has_dir, files>>
    PROVE  McpIInv'
<1>1. call' = [call EXCEPT ![c] = Ready]
  BY DEF Answer
<1>2. call'[c].stage = "ready"
  BY <1>1, Midst DEF McpIInv
<1> QED BY <1>1, <1>2, Midst, CallChanges DEF ListingFollows
LEMMA ListKeeps ==
    ASSUME McpIInv, NEW c \in Callers,
           list_evidence(c) \/ ReadDir(c) \/ Metadata(c) \/ ListingDone(c)
    PROVE  McpIInv'
<1>1. UNCHANGED <<truth, observed, overtaken, histories, candidates, samples,
                  has_dir, files>>
  BY DEF list_evidence, ReadDir, Metadata, ListingDone, evidence_vars
<1>2. Present \subseteq Names /\ Present' = Present
  BY <1>1 DEF Present
<1>3. CASE list_evidence(c)
  <2>1. ~ Scanning(c) /\ Ready \in CallTypes /\ Ready.stage = "ready"
    BY <1>3 DEF list_evidence, Free, Ready, Scanning, CallTypes
  <2>2. CASE has_dir
    <3> DEFINE now == [stage |-> "read_dir", todo |-> {}, shown |-> {},
                       kept |-> Present, lost |-> FALSE]
    <3>1. call' = [call EXCEPT ![c] = now]
      BY <1>3, <2>2 DEF list_evidence
    <3>2. now \in CallTypes
      BY <1>2, ListTypes
    <3>3. now.stage = "read_dir" /\ now.kept = Present
      OBVIOUS
    <3>4. call'[c] = now
      BY <3>1 DEF McpIInv
    <3> HIDE DEF now
    <3>5. ListingFollows(c)'
      BY <1>1, <1>2, <2>2, <3>3, <3>4 DEF ListingFollows
    <3> QED BY <1>1, <2>1, <3>1, <3>2, <3>3, <3>5, CallChanges
  <2>3. CASE ~ has_dir
    <3>1. call' = [call EXCEPT ![c] = Ready]
      BY <1>3, <2>3 DEF list_evidence
    <3>2. call'[c] = Ready
      BY <3>1 DEF McpIInv
    <3>3. ListingFollows(c)'
      BY <2>1, <3>2 DEF ListingFollows
    <3> QED BY <1>1, <2>1, <3>1, <3>3, CallChanges
  <2> QED BY <2>2, <2>3
<1>4. CASE ReadDir(c)
  <2>1. Listing(c) /\ call[c].stage = "read_dir"
    BY <1>4 DEF ReadDir, Listing
  <2>2. CASE has_dir
    <3> DEFINE now == Looking(Present, {}, c)
    <3>1. call' = [call EXCEPT ![c] = now]
      BY <1>4, <2>2 DEF ReadDir
    <3>2. call[c].kept \in SUBSET Names /\ call[c].lost \in BOOLEAN
      BY <2>1, Midst
    <3>3. now \in CallTypes
      BY <3>2, <1>2, ListTypes DEF Looking
    <3>4. /\ call'[c] = now /\ now.stage = "metadata"
          /\ now.todo = Present /\ now.kept = call[c].kept
      BY <3>1 DEF McpIInv, Looking
    <3>5. call[c].kept \subseteq Present
      BY <2>1 DEF McpIInv, ListingFollows
    <3> HIDE DEF now
    <3>6. ListingFollows(c)'
      BY <1>2, <3>4, <3>5 DEF ListingFollows
    <3> QED BY <1>1, <2>1, <3>1, <3>3, <3>4, <3>6, Midst, CallChanges
  <2>3. CASE ~ has_dir
    BY <1>1, <1>4, <2>1, <2>3, AnswerKeeps DEF ReadDir
  <2> QED BY <2>2, <2>3
<1>5. CASE Metadata(c)
  <2>1. Listing(c) /\ call[c].stage = "metadata"
    BY <1>5 DEF Metadata, Listing
  <2>2. PICK n \in call[c].todo :
          IF n \in Present
          THEN /\ call' = [call EXCEPT ![c] = Looking(call[c].todo \ {n},
                                                      call[c].shown \cup {n}, c)]
               /\ listing' = NoAnswer
          ELSE Answer(FALSE, {}, c)
    BY <1>5 DEF Metadata
  <2>3. CASE n \in Present
    <3> DEFINE now == Looking(call[c].todo \ {n}, call[c].shown \cup {n}, c)
    <3>1. call' = [call EXCEPT ![c] = now]
      BY <2>2, <2>3
    <3>2. /\ call[c].shown \cup {n} \in SUBSET Names
          /\ call[c].todo \ {n} \in SUBSET Names
          /\ call[c].kept \in SUBSET Names
          /\ call[c].lost \in BOOLEAN
      BY <2>1, <2>3, <1>2, Midst
    <3>3. now \in CallTypes
      BY <3>2, ListTypes DEF Looking
    <3>4. /\ call'[c] = now /\ now.stage = "metadata"
          /\ now.todo = call[c].todo \ {n}
          /\ now.shown = call[c].shown \cup {n}
          /\ now.kept = call[c].kept /\ now.lost = call[c].lost
      BY <3>1 DEF McpIInv, Looking
    <3>5. /\ call[c].kept \subseteq call[c].shown \cup call[c].todo
          /\ call[c].lost \/ call[c].todo \subseteq Present
      BY <2>1 DEF McpIInv, ListingFollows
    <3> HIDE DEF now
    <3>6. ListingFollows(c)'
      BY <1>2, <3>4, <3>5 DEF ListingFollows
    <3> QED BY <1>1, <2>1, <3>1, <3>3, <3>4, <3>6, Midst, CallChanges
  <2>4. CASE n \notin Present
    BY <1>1, <2>1, <2>2, <2>4, AnswerKeeps
  <2> QED BY <2>3, <2>4
<1>6. CASE ListingDone(c)
  <2>1. Listing(c)
    BY <1>6 DEF ListingDone, Listing
  <2> QED BY <1>1, <1>6, <2>1, AnswerKeeps DEF ListingDone
<1> QED BY <1>3, <1>4, <1>5, <1>6

(* What the user removes is no longer expected of any listing. *)
LEMMA UserKeeps ==
    ASSUME McpIInv, UserRemoves \/ UserRemovesDir
    PROVE  McpIInv'
<1>1. UNCHANGED <<truth, observed, overtaken, histories, candidates, samples>>
  BY DEF UserRemoves, UserRemovesDir
<1>2. PICK n : /\ call' = Bereft(n)
               /\ DOMAIN files' = Names
               /\ Present \ {n} \subseteq Present'
  <2>1. CASE UserRemoves
    <3>1. PICK n \in Names : RemoveEvidence(n) /\ call' = Bereft(n)
      BY <2>1 DEF UserRemoves
    <3>2. files' = [files EXCEPT ![n] = Absent]
      BY <3>1 DEF RemoveEvidence
    <3> QED BY <3>1, <3>2 DEF McpIInv, Present
  <2>2. CASE UserRemovesDir
    <3>1. call' = Bereft(<<>>) /\ files' = files
      BY <2>2 DEF UserRemovesDir, RemoveDir
    <3> QED BY <3>1 DEF McpIInv, Present
  <2> QED BY <2>1, <2>2
<1>3. ASSUME NEW d \in Callers
      PROVE  /\ call'[d] \in CallTypes
             /\ Scanning(d)' <=> Scanning(d)
             /\ Scanning(d) => call'[d].at = call[d].at
             /\ ListingFollows(d)'
  <2>1. CASE Listing(d)
    <3>1. call'[d] = [call[d] EXCEPT !.kept = @ \ {n}, !.lost = TRUE]
      BY <1>2, <2>1 DEF Bereft
    <3>2. /\ call'[d] = [stage |-> call[d].stage, todo |-> call[d].todo,
                         shown |-> call[d].shown, kept |-> call[d].kept \ {n},
                         lost |-> TRUE]
          /\ call[d].stage \in {"read_dir", "metadata"}
          /\ call[d].todo \in SUBSET Names /\ call[d].shown \in SUBSET Names
          /\ call[d].kept \ {n} \in SUBSET Names
      BY <2>1, <3>1, Midst
    <3>3. call'[d] \in CallTypes
      BY <3>2, ListTypes
    <3>4. ~ Scanning(d) /\ ~ Scanning(d)'
      BY <2>1, <3>2, Midst DEF Scanning
    <3>5. /\ call'[d].stage = call[d].stage
          /\ call'[d].kept = call[d].kept \ {n}
          /\ call'[d].lost
          /\ call'[d].shown = call[d].shown
          /\ call'[d].todo = call[d].todo
      BY <3>2
    <3>6. ListingFollows(d)'
      BY <1>2, <3>5 DEF McpIInv, ListingFollows
    <3> QED BY <3>3, <3>4, <3>6
  <2>2. CASE ~ Listing(d)
    <3>1. call'[d] = call[d]
      BY <1>2, <2>2 DEF Bereft
    <3> QED BY <2>2, <3>1 DEF McpIInv, Scanning, Listing, ListingFollows
  <2> QED BY <2>1, <2>2
<1>4. call' \in [Callers -> CallTypes]
  <2>1. call' = [d \in Callers |-> call'[d]]
    BY <1>2 DEF Bereft
  <2> QED BY <1>3, <2>1
<1> QED BY <1>1, <1>2, <1>3, <1>4, DetectorUndisturbed
-----------------------------------------------------------------------------
(* An inventory is taken: it is the last, and its call holds it alone. *)
LEMMA ScanKeeps ==
    ASSUME McpIInv, NEW c \in Callers, scan_leaks(c)
    PROVE  McpIInv'
<1>1. PICK inventory \in Inventories :
         /\ truth' = Append(truth, inventory)
         /\ call' = [call EXCEPT ![c] = [stage |-> "scan", at |-> Len(truth) + 1]]
  BY DEF scan_leaks
<1>2. /\ call[c] = Ready
      /\ UNCHANGED <<observed, overtaken, files, has_dir, histories, candidates,
                     samples>>
  BY DEF scan_leaks, Free, evidence_vars
<1>3. PICK n \in Nat : n = Len(truth) /\ observed \in 0..n
  BY DEF McpIInv
<1>4. /\ truth' \in Seq(Inventories)
      /\ Len(truth') = n + 1
      /\ \A i \in 1..n : truth'[i] = truth[i]
  BY <1>1, <1>3, AppendProperties DEF McpIInv
<1>5. /\ call'[c] = [stage |-> "scan", at |-> n + 1]
      /\ \A d \in Callers : d # c => call'[d] = call[d]
  BY <1>1, <1>3 DEF McpIInv
<1>6. CallTypes \subseteq CallTypes' /\ call'[c] \in CallTypes'
  <2>1. 1..n \subseteq 1..(n + 1) /\ n + 1 \in 1..(n + 1)
    OBVIOUS
  <2> QED BY <2>1, <1>2, <1>3, <1>4, <1>5 DEF CallTypes
<1>7. call' \in [Callers -> CallTypes']
  BY <1>1, <1>5, <1>6 DEF McpIInv
<1>8. /\ Scanning(c)' /\ call'[c].at = n + 1 /\ ~ Scanning(c)
      /\ \A d \in Callers : d # c => (Scanning(d)' <=> Scanning(d))
  BY <1>2, <1>5 DEF Scanning, Ready
<1>9. \A d \in Callers : Scanning(d) => call[d].at \in 1..n
  BY <1>3 DEF McpIInv, CallTypes, Scanning, Ready
<1>10. \A d, e \in Callers :
          Scanning(d)' /\ Scanning(e)' /\ call'[d].at = call'[e].at => d = e
  <2> SUFFICES ASSUME NEW d \in Callers, NEW e \in Callers, d # e,
                      Scanning(d)', Scanning(e)'
               PROVE  call'[d].at # call'[e].at
    OBVIOUS
  <2>1. CASE d # c /\ e # c
    BY <2>1, <1>5, <1>8 DEF McpIInv
  <2>2. CASE d = c
    BY <2>2, <1>5, <1>8, <1>9
  <2>3. CASE e = c
    BY <2>3, <1>5, <1>8, <1>9
  <2> QED BY <2>1, <2>2, <2>3
<1>11. SamplesInOrder'
  <2>1. CASE overtaken
    BY <2>1, <1>2 DEF SamplesInOrder
  <2>2. CASE ~ overtaken
    <3>1. ASSUME NEW i \in observed + 1 .. n + 1
          PROVE  \E d \in Callers : Scanning(d)' /\ call'[d].at = i
      <4>1. CASE i = n + 1
        BY <4>1, <1>8
      <4>2. CASE i # n + 1
        <5>1. i \in observed + 1 .. Len(truth)
          BY <4>2, <1>3
        <5>2. PICK d \in Callers : Scanning(d) /\ call[d].at = i
          BY <5>1, <2>2 DEF McpIInv, SamplesInOrder
        <5> QED BY <5>2, <1>5, <1>8
      <4> QED BY <4>1, <4>2
    <3>2. ASSUME NEW d \in Callers, Scanning(d)' PROVE call'[d].at > observed
      <4>1. CASE d = c
        BY <4>1, <1>8, <1>3
      <4>2. CASE d # c
        BY <3>2, <4>2, <1>5, <1>8, <2>2 DEF McpIInv, SamplesInOrder
      <4> QED BY <4>1, <4>2
    <3>3. ASSUME NEW p \in Processes
          PROVE  /\ Seen(p)' <= observed
                 /\ \A j \in 1..Seen(p)' :
                       Rss(p, j)' = truth'[observed - Seen(p)' + j][p]
      <4>1. /\ Seen(p) <= observed /\ Seen(p) \in Nat
            /\ \A j \in 1..Seen(p) :
                  Rss(p, j) = truth[observed - Seen(p) + j][p]
        BY <2>2 DEF McpIInv, SamplesInOrder, DetectorIInv, TypeOK, Seen
      <4>2. Seen(p)' = Seen(p) /\ \A j : Rss(p, j)' = Rss(p, j)
        BY <1>2 DEF Seen, Rss
      <4>3. \A j \in 1..Seen(p) : observed - Seen(p) + j \in 1..n
        BY <4>1, <1>3
      <4> QED BY <4>1, <4>2, <4>3, <1>4
    <3> QED BY <3>1, <3>2, <3>3, <1>2, <1>4 DEF SamplesInOrder
  <2> QED BY <2>1, <2>2
<1>12. \A d \in Callers : ListingFollows(d)'
  <2>1. Present' = Present
    BY <1>2 DEF Present
  <2> QED BY <2>1, <1>2, <1>5 DEF McpIInv, ListingFollows
<1>13. DetectorIInv'
  BY <1>2 DEF McpIInv, DetectorIInv, TypeOK, DetectorInv, HistoryTells, Seen,
              RisesFrom, Rss, Grew
<1> QED BY <1>2, <1>3, <1>4, <1>7, <1>10, <1>11, <1>12, <1>13 DEF McpIInv

(* The mutex is had: if no call is overtaken, the next inventory is         *)
(* observed.                                                                *)
LEMMA NextInOrder ==
    ASSUME McpIInv, NEW c \in Callers, Scanning(c), ~ overtaken, ~ Overtakes(c)
    PROVE  call[c].at = observed + 1
<1>1. call[c].at \in 1..Len(truth) /\ Len(truth) \in Nat /\ observed \in Nat
  BY DEF McpIInv, CallTypes, Scanning, Ready
<1>2. call[c].at > observed
  BY DEF McpIInv, SamplesInOrder
<1>3. SUFFICES ASSUME observed + 1 # call[c].at PROVE FALSE
  BY <1>1
<1>4. observed + 1 \in observed + 1 .. Len(truth) /\ observed + 1 < call[c].at
  BY <1>1, <1>2, <1>3
<1>5. PICK d \in Callers : Scanning(d) /\ call[d].at = observed + 1
  BY <1>4 DEF McpIInv, SamplesInOrder
<1> QED BY <1>4, <1>5 DEF Overtakes

LEMMA ObserveKeeps ==
    ASSUME McpIInv, NEW c \in Callers, build_scan_leaks_output(c)
    PROVE  McpIInv'
<1> DEFINE at == call[c].at
<1>1. /\ Scanning(c)
      /\ observe_inventory(truth[at])
      /\ call' = [call EXCEPT ![c] = Ready]
      /\ observed' = at
      /\ overtaken' = (overtaken \/ Overtakes(c))
      /\ UNCHANGED <<truth, has_dir, files>>
  BY DEF build_scan_leaks_output, evidence_vars
<1>2. /\ at \in 1..Len(truth) /\ Len(truth) \in Nat /\ observed \in 0..Len(truth)
      /\ truth[at] \in Inventories
  <2>1. at \in 1..Len(truth)
    BY <1>1 DEF McpIInv, CallTypes, Scanning, Ready
  <2> QED BY <2>1, ElementOfSeq DEF McpIInv
<1>3. DetectorIInv'
  <2>1. Sample
    BY <1>1, <1>2 DEF Sample, Inventories
  <2> QED BY <2>1, DetectorStep DEF McpIInv, DetectorIInv, Next
<1>4. /\ call'[c] = Ready /\ Ready \in CallTypes' /\ CallTypes' = CallTypes
      /\ \A d \in Callers : d # c => call'[d] = call[d]
      /\ call' \in [Callers -> CallTypes']
  BY <1>1 DEF McpIInv, CallTypes
<1>5. /\ ~ Scanning(c)'
      /\ \A d \in Callers : d # c => (Scanning(d)' <=> Scanning(d))
  BY <1>4 DEF Scanning, Ready
<1>6. \A d, e \in Callers :
         Scanning(d)' /\ Scanning(e)' /\ call'[d].at = call'[e].at => d = e
  BY <1>4, <1>5 DEF McpIInv
<1>7. \A d \in Callers : ListingFollows(d)'
  <2>1. Present' = Present
    BY <1>1 DEF Present
  <2> QED BY <2>1, <1>1, <1>4 DEF McpIInv, ListingFollows, Ready
<1>8. SamplesInOrder'
  <2>1. CASE overtaken \/ Overtakes(c)
    BY <2>1, <1>1 DEF SamplesInOrder
  <2>2. CASE ~ overtaken /\ ~ Overtakes(c)
    <3>0. at = observed + 1 /\ observed \in Nat /\ at \in Nat
      BY <2>2, <1>1, <1>2, NextInOrder
    <3>1. ASSUME NEW i \in at + 1 .. Len(truth)
          PROVE  \E d \in Callers : Scanning(d)' /\ call'[d].at = i
      <4>1. i \in observed + 1 .. Len(truth) /\ i # at
        BY <3>0, <1>2
      <4>2. PICK d \in Callers : Scanning(d) /\ call[d].at = i
        BY <4>1, <2>2 DEF McpIInv, SamplesInOrder
      <4> QED BY <4>1, <4>2, <1>4, <1>5
    <3>2. ASSUME NEW d \in Callers, Scanning(d)' PROVE call'[d].at > at
      <4>1. d # c /\ Scanning(d) /\ call'[d] = call[d]
        BY <3>2, <1>4, <1>5
      <4>2. call[d].at > observed /\ call[d].at # at /\ call[d].at \in Nat
        BY <4>1, <1>1, <2>2 DEF McpIInv, SamplesInOrder, CallTypes, Scanning, Ready
      <4> QED BY <4>1, <4>2, <3>0
    <3>3. ASSUME NEW p \in Processes
          PROVE  /\ Seen(p)' <= at
                 /\ \A j \in 1..Seen(p)' :
                       Rss(p, j)' = truth[at - Seen(p)' + j][p]
      <4>1. PICK n \in Nat : n = Seen(p)
        BY DEF McpIInv, DetectorIInv, TypeOK, Seen
      <4>2. /\ n <= observed
            /\ \A j \in 1..n : Rss(p, j) = truth[observed - n + j][p]
        BY <4>1, <2>2 DEF McpIInv, SamplesInOrder
      <4>3. samples' = [q \in Processes |->
                           IF Eligible(truth[at][q])
                           THEN Append(samples[q], truth[at][q]) ELSE <<>>]
        BY <1>1 DEF observe_inventory
      <4>4. CASE Eligible(truth[at][p])
        <5>1. samples'[p] = Append(samples[p], truth[at][p])
          BY <4>3, <4>4
        <5>2. samples[p] \in Seq(Nat) /\ truth[at][p] \in Nat
          BY <1>2, Policy DEF McpIInv, DetectorIInv, TypeOK, Inventories
        <5>3. /\ Seen(p)' = n + 1
              /\ Rss(p, n + 1)' = truth[at][p]
              /\ \A j \in 1..n : Rss(p, j)' = Rss(p, j)
          BY <5>1, <5>2, <4>1, AppendProperties DEF Seen, Rss
        <5>4. ASSUME NEW j \in 1..n + 1
              PROVE  Rss(p, j)' = truth[at - (n + 1) + j][p]
          <6>1. CASE j = n + 1
            <7>1. at - (n + 1) + j = at
              BY <6>1, <3>0
            <7> QED BY <6>1, <7>1, <5>3
          <6>2. CASE j # n + 1
            <7>1. j \in 1..n /\ at - (n + 1) + j = observed - n + j
              BY <6>2, <3>0
            <7> QED BY <7>1, <5>3, <4>2
          <6> QED BY <6>1, <6>2
        <5> QED BY <5>3, <5>4, <4>2, <3>0
      <4>5. CASE ~ Eligible(truth[at][p])
        <5>1. Seen(p)' = 0
          BY <4>3, <4>5 DEF Seen
        <5> QED BY <5>1, <3>0
      <4> QED BY <4>4, <4>5
    <3> QED BY <3>1, <3>2, <3>3, <1>1 DEF SamplesInOrder
  <2> QED BY <2>1, <2>2
<1>9. overtaken' \in BOOLEAN
  BY <1>1 DEF McpIInv, Overtakes
<1>10. observed' \in 0..Len(truth')
  BY <1>1, <1>2
<1> QED BY <1>1, <1>3, <1>4, <1>6, <1>7, <1>8, <1>9, <1>10 DEF McpIInv
LEMMA RestartKeeps ==
    ASSUME McpIInv, ServerRestart
    PROVE  McpIInv'
<1>1. /\ Restart
      /\ call' = [c \in Callers |-> Ready]
      /\ truth' = <<>> /\ observed' = 0 /\ overtaken' = FALSE
      /\ files' = files
  BY DEF ServerRestart
<1>2. DetectorIInv'
  BY <1>1, FreshTells DEF DetectorIInv
<1>3. \A c \in Callers : ~ Scanning(c)' /\ ListingFollows(c)'
  BY <1>1 DEF Scanning, ListingFollows, Ready
<1>4. Len(truth') = 0 /\ truth' \in Seq(Inventories)
  BY <1>1
<1>5. SamplesInOrder'
  <2>1. \A p \in Processes : Seen(p)' = 0
    BY <1>1 DEF Restart, Seen
  <2> QED BY <1>1, <1>3, <1>4, <2>1 DEF SamplesInOrder
<1>6. call' \in [Callers -> CallTypes']
  BY <1>1 DEF CallTypes
<1>7. DOMAIN files' = Names
  BY <1>1 DEF McpIInv
<1>8. observed' \in 0..Len(truth') /\ overtaken' \in BOOLEAN
  <2>1. overtaken' \in BOOLEAN
    BY <1>1, Zenon
  <2>2. observed' = 0 /\ Len(truth') = 0
    BY <1>1, <1>4
  <2> QED BY <2>1, <2>2
<1> QED BY <1>2, <1>3, <1>4, <1>5, <1>6, <1>7, <1>8 DEF McpIInv

LEMMA McpInitHolds == McpInit => McpIInv /\ ListingTrue
<1> SUFFICES ASSUME McpInit PROVE McpIInv /\ ListingTrue
  OBVIOUS
<1>1. /\ Init
      /\ call = [c \in Callers |-> Ready]
      /\ truth = <<>> /\ observed = 0 /\ overtaken = FALSE
      /\ files = [n \in Names |-> Absent]
      /\ listing = NoAnswer
  BY DEF McpInit, EvidenceInit
<1>2. DetectorIInv
  BY <1>1, FreshTells DEF DetectorIInv
<1>3. \A c \in Callers : ~ Scanning(c) /\ ListingFollows(c)
  BY <1>1 DEF Scanning, ListingFollows, Ready
<1>4. Len(truth) = 0 /\ truth \in Seq(Inventories)
  BY <1>1
<1>5. SamplesInOrder
  <2>1. \A p \in Processes : Seen(p) = 0
    BY <1>1 DEF Init, Seen
  <2> QED BY <1>1, <1>3, <1>4, <2>1 DEF SamplesInOrder
<1>6. call \in [Callers -> CallTypes]
  BY <1>1 DEF CallTypes
<1>7. DOMAIN files = Names
  BY <1>1
<1>8. observed \in 0..Len(truth) /\ overtaken \in BOOLEAN
  <2>1. overtaken \in BOOLEAN
    BY <1>1, Zenon
  <2>2. observed = 0 /\ Len(truth) = 0
    BY <1>1, <1>4
  <2> QED BY <2>1, <2>2
<1>9. ListingTrue
  BY <1>1 DEF ListingTrue, NoAnswer
<1> QED BY <1>2, <1>3, <1>4, <1>5, <1>6, <1>7, <1>8, <1>9 DEF McpIInv

LEMMA McpStep ==
    ASSUME McpIInv, [McpNext]_mcp_vars
    PROVE  McpIInv'
<1>1. ASSUME NEW c \in Callers, CallStep(c) PROVE McpIInv'
  BY <1>1, ScanKeeps, ObserveKeeps, CleanupKeeps, ListKeeps DEF CallStep
<1>2. CASE UNCHANGED mcp_vars
  <2>1. /\ UNCHANGED <<call, truth, observed, overtaken, histories, candidates,
                       samples, has_dir, files>>
    BY <1>2 DEF mcp_vars, call_vars, evidence_vars
  <2>2. \A d \in Callers : ListingFollows(d)'
    BY <2>1 DEF McpIInv, ListingFollows, Present
  <2> QED BY <2>1, <2>2, DetectorUndisturbed DEF McpIInv, Scanning
<1> QED BY <1>1, <1>2, RestartKeeps, UserKeeps DEF McpNext

(* mcp.rs: the detector behind the mutex, the calls that wait for it and    *)
(* the listings, inductively, for any number of calls.                      *)
THEOREM McpIInvHolds == McpSpec => []McpIInv
BY McpInitHolds, McpStep, PTL DEF McpSpec

(* The server's detector is the one of leak.rs, whatever its clients do at  *)
(* the same time: every step is an observation, a restart, or none.         *)
THEOREM ServerDetects == McpSpec => Spec
<1>1. McpInit => Init
  BY DEF McpInit
<1>2. ASSUME McpIInv, [McpNext]_mcp_vars PROVE [Next]_vars
  <2>1. ASSUME NEW c \in Callers, CallStep(c) PROVE [Next]_vars
    <3>1. CASE build_scan_leaks_output(c)
      <4>1. call[c].at \in 1..Len(truth)
        BY <1>2, <3>1
           DEF build_scan_leaks_output, McpIInv, CallTypes, Scanning, Ready
      <4>2. truth[call[c].at] \in Inventories
        BY <1>2, <4>1, ElementOfSeq DEF McpIInv
      <4> QED BY <3>1, <4>2 DEF build_scan_leaks_output, Next, Sample, Inventories
    <3>2. CASE ~ build_scan_leaks_output(c)
      BY <2>1, <3>2 DEF CallStep, scan_leaks, cleanup, CleanupStep, list_evidence,
                        ReadDir, Metadata, ListingDone, vars
    <3> QED BY <3>1, <3>2
  <2>2. CASE ServerRestart
    BY <2>2 DEF ServerRestart, Next
  <2>3. CASE UserRemoves \/ UserRemovesDir \/ UNCHANGED mcp_vars
    BY <2>3 DEF UserRemoves, UserRemovesDir, mcp_vars, vars
  <2> QED BY <1>2, <2>1, <2>2, <2>3 DEF McpNext
<1> QED BY <1>1, <1>2, McpIInvHolds, PTL DEF McpSpec, Spec

(* scan_leaks: no leak is missed. *)
THEOREM ServerFindsLeaks == McpSpec => []LeaksFound
BY ServerDetects, LeaksFoundHolds, PTL

(* scan_leaks: what is reported grew from one inventory to the next, unless *)
(* a call has overtaken another.                                            *)
THEOREM ReportedGrowthHolds == McpSpec => []ReportedGrowth
<1>1. McpIInv => ReportedGrowth
  <2> SUFFICES ASSUME McpIInv, NEW p \in candidates, ~ overtaken
               PROVE  \E i \in 1..observed : RoseFrom(p, i)
    BY DEF ReportedGrowth
  <2>1. p \in Processes /\ CandidatesGrew
    BY GrewFromInv DEF McpIInv, DetectorIInv, TypeOK
  <2>2. PICK n \in Nat : n = Seen(p)
    BY <2>1 DEF McpIInv, DetectorIInv, TypeOK, Seen
  <2>3. PICK i \in 1..n : /\ RisesFrom(p, i)
                          /\ Rss(p, n) >= Rss(p, i) + Required * MinimumGrowth
    BY <2>1, <2>2 DEF CandidatesGrew
  <2>4. /\ observed \in Nat /\ n <= observed
        /\ \A j \in 1..n : Rss(p, j) = truth[observed - n + j][p]
    BY <2>1, <2>2 DEF McpIInv, SamplesInOrder
  <2> DEFINE from == observed - n + i
  <2>5. from \in 1..observed /\ observed = observed - n + n /\ n \in 1..n
    BY <2>4
  <2>6. truth[observed][p] >= truth[from][p] + Required * MinimumGrowth
    <3>1. Rss(p, n) = truth[observed][p] /\ Rss(p, i) = truth[from][p]
      BY <2>4, <2>5
    <3> QED BY <3>1, <2>3
  <2>7. ASSUME NEW k \in from + 1 .. observed
        PROVE  \/ truth[k][p] = truth[k - 1][p]
               \/ truth[k][p] >= truth[k - 1][p] + MinimumGrowth
    <3>1. PICK j \in i + 1 .. n : k = observed - n + j
      <4>1. k - observed + n \in i + 1 .. n /\ k = observed - n + (k - observed + n)
        BY <2>4
      <4> QED BY <4>1
    <3>2. j \in 1..n /\ j - 1 \in 1..n /\ k - 1 = observed - n + (j - 1)
      BY <3>1, <2>4
    <3>3. Rss(p, j) = truth[k][p] /\ Rss(p, j - 1) = truth[k - 1][p]
      BY <3>1, <3>2, <2>4
    <3>4. Rss(p, j) = Rss(p, j - 1) \/ Rss(p, j) >= Rss(p, j - 1) + MinimumGrowth
      BY <2>2, <2>3 DEF RisesFrom
    <3> QED BY <3>3, <3>4
  <2> QED BY <2>5, <2>6, <2>7 DEF RoseFrom
<1> QED BY <1>1, McpIInvHolds, PTL

(* list_evidence: an answer shows all that stayed, and only a removal       *)
(* prevents one.                                                            *)
THEOREM ListingTrueHolds == McpSpec => []ListingTrue
<1>1. ASSUME McpIInv, ListingTrue, [McpNext]_mcp_vars PROVE ListingTrue'
  <2>1. ASSUME NEW c \in Callers, ReadDir(c), listing' # NoAnswer PROVE ListingTrue'
    <3>1. ~ has_dir /\ call[c].stage = "read_dir" /\ Answer(FALSE, {}, c)
      BY <2>1 DEF ReadDir
    <3>2. call[c].lost
      BY <1>1, <3>1 DEF McpIInv, ListingFollows
    <3> QED BY <3>1, <3>2 DEF Answer, ListingTrue
  <2>2. ASSUME NEW c \in Callers, Metadata(c), listing' # NoAnswer PROVE ListingTrue'
    <3>1. PICK n \in call[c].todo : n \notin Present /\ Answer(FALSE, {}, c)
      BY <2>2 DEF Metadata
    <3>2. call[c].lost
      BY <1>1, <2>2, <3>1 DEF McpIInv, ListingFollows, Metadata
    <3> QED BY <3>1, <3>2 DEF Answer, ListingTrue
  <2>3. ASSUME NEW c \in Callers, ListingDone(c) PROVE ListingTrue'
    <3>1. /\ call[c].todo = {} /\ Answer(TRUE, call[c].shown, c)
          /\ call[c].kept \subseteq call[c].shown \cup call[c].todo
      BY <1>1, <2>3 DEF ListingDone, McpIInv, ListingFollows
    <3> QED BY <3>1 DEF Answer, ListingTrue
  <2>4. CASE listing' = NoAnswer
    BY <2>4 DEF ListingTrue, NoAnswer
  <2>5. ASSUME NEW c \in Callers, CallStep(c), listing' # NoAnswer
        PROVE  ReadDir(c) \/ Metadata(c) \/ ListingDone(c)
    BY <2>5 DEF CallStep, scan_leaks, build_scan_leaks_output, cleanup, CleanupStep,
                list_evidence
  <2>6. ServerRestart \/ UserRemoves \/ UserRemovesDir => listing' = NoAnswer
    BY DEF ServerRestart, UserRemoves, UserRemovesDir
  <2>7. CASE UNCHANGED mcp_vars
    BY <1>1, <2>7 DEF mcp_vars, ListingTrue
  <2> QED BY <1>1, <2>1, <2>2, <2>3, <2>4, <2>5, <2>6, <2>7 DEF McpNext
<1> QED BY <1>1, McpInitHolds, McpIInvHolds, PTL DEF McpSpec
-----------------------------------------------------------------------------
(* What one pass of the policy decides: module RunOnce. *)

(* Both of the windows that a caller hands in are eligible. *)
LEMMA TwoEligible ==
    ASSUME NEW config \in RunOnceConfigs
    PROVE  LET signals == default_signal_windows(config) IN
           Cardinality({s \in signals : signal_is_eligible(config, s)}) = 2
<1> DEFINE Window(n) == [name |-> n,
                         breached_samples |-> config.breach_required_samples,
                         window_samples |-> config.breach_window_samples]
           signals == default_signal_windows(config)
<1>1. signals = {Window("rss_slope")} \cup {Window("orphan_count")}
  BY DEF default_signal_windows
<1>2. {s \in signals : signal_is_eligible(config, s)} = signals
  <2> SUFFICES ASSUME NEW s \in signals PROVE signal_is_eligible(config, s)
    OBVIOUS
  <2>1. /\ config.breach_required_samples \in Nat
        /\ config.breach_window_samples \in Nat
    BY DEF RunOnceConfigs
  <2>2. /\ s.window_samples = config.breach_window_samples
        /\ s.breached_samples = config.breach_required_samples
    BY DEF default_signal_windows
  <2> QED BY <2>1, <2>2 DEF signal_is_eligible
<1>3. Window("orphan_count") \notin {Window("rss_slope")}
  <2>1. /\ Window("orphan_count").name = "orphan_count"
        /\ Window("rss_slope").name = "rss_slope"
    OBVIOUS
  <2> QED BY <2>1
<1>4. /\ IsFiniteSet({Window("rss_slope")})
      /\ Cardinality({Window("rss_slope")}) = 1
  BY FS_Singleton
<1>5. Cardinality(signals) = 2
  <2> HIDE DEF Window, signals
  <2> QED BY <1>1, <1>3, <1>4, FS_AddElement
<1> QED BY <1>2, <1>5

(* Without a history no action is recent, whatever the time and the window. *)
LEMMA NothingRecent ==
    ASSUME NEW target, NEW now, NEW window
    PROVE  count_recent_actions(target, <<>>, now, window) = 0
<1>1. 1..Len(<<>>) = {}
  BY EmptySeq
<1> QED BY <1>1, FS_EmptySet DEF count_recent_actions

(* runtime.rs, mcp.rs, cli.rs: with what the tool and the command hand in,  *)
(* the thresholds decide nothing, and a budget only whether it is zero: one *)
(* of a single action an hour lets every call of that hour through.         *)
THEOREM BudgetsAreSwitches ==
    ASSUME NEW config \in RunOnceConfigs, NEW target, NEW now \in Nat
    PROVE  LET decision == decide(config, target, default_signal_windows(config),
                                  <<>>, now)
           IN  /\ decision.proposed <=> config.signal_quorum <= 2
               /\ decision.executed <=> /\ config.signal_quorum <= 2
                                        /\ config.mode = "enforce"
                                        /\ config.per_target_per_hour > 0
                                        /\ config.per_day > 0
<1> DEFINE blocked == in_cooldown_or_budget_block(config, target, <<>>, now)
           few == Cardinality({s \in default_signal_windows(config) :
                                  signal_is_eligible(config, s)}) < config.signal_quorum
           decision == decide(config, target, default_signal_windows(config),
                              <<>>, now)
<1>1. /\ config.signal_quorum \in Nat
      /\ config.per_target_per_hour \in Nat
      /\ config.per_day \in Nat
      /\ config.mode \in {"observe", "enforce"}
  BY DEF RunOnceConfigs, Modes
<1>2. few <=> ~ (config.signal_quorum <= 2)
  BY <1>1, TwoEligible
<1>3. blocked <=> ~ (config.per_target_per_hour > 0 /\ config.per_day > 0)
  BY <1>1, NothingRecent DEF in_cooldown_or_budget_block
<1>4. /\ decision.proposed <=> ~ few
      /\ decision.executed <=> ~ few /\ config.mode # "observe" /\ ~ blocked
  <2>1. CASE few
    BY <2>1 DEF decide, Decision
  <2>2. CASE ~ few /\ config.mode = "observe"
    BY <2>2 DEF decide, Decision
  <2>3. CASE ~ few /\ config.mode # "observe" /\ blocked
    BY <2>3 DEF decide, Decision
  <2>4. CASE ~ few /\ config.mode # "observe" /\ ~ blocked
    BY <2>4 DEF decide, Decision
  <2> QED BY <2>1, <2>2, <2>3, <2>4
<1> QED BY <1>1, <1>2, <1>3, <1>4
=============================================================================
