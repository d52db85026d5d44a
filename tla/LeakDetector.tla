---------------------------- MODULE LeakDetector ----------------------------
(***************************************************************************)
(* The leak detector (leak.rs): one sample of the memory of each process   *)
(* per cycle of the daemon, and a process that keeps growing is a          *)
(* candidate for remediation.  A process is known by its pid and the time  *)
(* it started; the history of one that is not sampled is dropped.          *)
(***************************************************************************)
EXTENDS Naturals, Sequences

CONSTANTS
    Processes,      \* LeakKeys: pids with the start times of their processes
    MaxRss,         \* bound: memory a process may have
    MinimumRss,     \* leak_detection.minimum_rss_bytes
    MinimumGrowth,  \* leak_detection.minimum_growth_bytes_per_sample
    Required,       \* leak_detection.required_consecutive_growth_samples
    MaxSamples      \* bound: samples of a process without a gap

ASSUME PolicyAssumption ==
    {MaxRss, MinimumRss, MinimumGrowth, Required, MaxSamples} \subseteq Nat

VARIABLES
    histories,   \* LeakDetector::histories
    candidates,  \* what the last observe_inventory answered
    samples      \* history: what each process was seen with, without a gap

vars == <<histories, candidates, samples>>

HistoryEntry ==
    [known : {TRUE}, baseline : Nat, last : Nat, growth : Nat]

History(baseline, last, growth) ==
    [known |-> TRUE, baseline |-> baseline, last |-> last, growth |-> growth]

NoHistory == [known |-> FALSE, baseline |-> 0, last |-> 0, growth |-> 0]

Init ==
    /\ histories = [p \in Processes |-> NoHistory]
    /\ candidates = {}
    /\ samples = [p \in Processes |-> <<>>]

-----------------------------------------------------------------------------
(* is_eligible_sample: what is small, is not there or fails the ownership   *)
(* policy is not seen.  Here a process that is not shown has no memory.     *)
Eligible(rss) == rss > 0 /\ rss >= MinimumRss

(* Faulty: the history of a new process is built and not inserted. *)
KnownNotInserted(entry, rss) ==
    IF entry.known THEN entry
    ELSE [NoHistory EXCEPT !.baseline = rss, !.last = rss]

Known(entry, rss) ==
    IF entry.known THEN entry
    ELSE History(rss, rss, 0)

(* Faulty: memory that was given back still counts as growth later. *)
SampledKeepsBaseline(entry, rss) ==
    LET e == Known(entry, rss) IN
    IF rss >= e.last + MinimumGrowth
    THEN History(e.baseline, rss, e.growth + 1)
    ELSE IF rss # e.last THEN History(e.baseline, rss, e.growth) ELSE e

(* Faulty: growth by exactly the minimum is not growth. *)
SampledStrictly(entry, rss) ==
    LET e == Known(entry, rss) IN
    IF rss > e.last + MinimumGrowth
    THEN History(e.baseline, rss, e.growth + 1)
    ELSE IF rss # e.last THEN History(rss, rss, 0) ELSE e

(* Growth is counted, memory that stayed the same is passed over, and       *)
(* anything else begins a new history.  sample_count is growth + 1.         *)
Sampled(entry, rss) ==
    LET e == Known(entry, rss) IN
    IF rss >= e.last + MinimumGrowth
    THEN History(e.baseline, rss, e.growth + 1)
    ELSE IF rss # e.last THEN History(rss, rss, 0) ELSE e

(* Faulty: a process that is not seen in one cycle keeps its history. *)
RetainAll(inventory) ==
    /\ \A p \in Processes : Len(samples[p]) < MaxSamples
    /\ histories' = [p \in Processes |->
                        IF Eligible(inventory[p])
                        THEN Sampled(histories[p], inventory[p]) ELSE histories[p]]
    /\ candidates' = {p \in Processes : /\ Eligible(inventory[p])
                                        /\ histories'[p].growth >= Required}
    /\ samples' = [p \in Processes |->
                      IF Eligible(inventory[p])
                      THEN Append(samples[p], inventory[p]) ELSE <<>>]

observe_inventory(inventory) ==
    /\ \A p \in Processes : Len(samples[p]) < MaxSamples
    /\ histories' = [p \in Processes |->
                        IF Eligible(inventory[p])
                        THEN Sampled(histories[p], inventory[p]) ELSE NoHistory]
    /\ candidates' = {p \in Processes : /\ Eligible(inventory[p])
                                        /\ histories'[p].growth >= Required}
    /\ samples' = [p \in Processes |->
                      IF Eligible(inventory[p])
                      THEN Append(samples[p], inventory[p]) ELSE <<>>]

(* Every cycle of the daemon samples, whether it waited for the whole of    *)
(* reconciliation_interval_secs or a batch of events came at once.          *)
Sample == \E inventory \in [Processes -> 0..MaxRss] : observe_inventory(inventory)

(* The daemon ends, and another one begins with no histories. *)
Restart ==
    /\ histories' = [p \in Processes |-> NoHistory]
    /\ candidates' = {}
    /\ samples' = [p \in Processes |-> <<>>]

Next == Sample \/ Restart

Spec == Init /\ [][Next]_vars

-----------------------------------------------------------------------------
(* The types of the histories and samples. *)
TypeOK ==
    /\ histories \in [Processes -> HistoryEntry \cup {NoHistory}]
    /\ candidates \subseteq Processes
    /\ samples \in [Processes -> Seq(Nat)]

Rss(p, i) == samples[p][i]

Seen(p) == Len(samples[p])

(* From sample i on the memory never fell, nor grew by less than counts. *)
RisesFrom(p, i) ==
    \A j \in i + 1 .. Seen(p) :
        Rss(p, j) = Rss(p, j - 1) \/ Rss(p, j) >= Rss(p, j - 1) + MinimumGrowth

(* leak.rs, with the daemon that ends the candidates: a process is one only *)
(* if, sampled in every cycle since some baseline and never falling, it has *)
(* grown by Required times the minimum; and that growth is what is reported.*)
CandidatesGrew ==
    \A p \in candidates : \E i \in 1..Seen(p) :
        /\ RisesFrom(p, i)
        /\ Rss(p, i) = histories[p].baseline
        /\ Rss(p, Seen(p)) >= Rss(p, i) + Required * MinimumGrowth

Grew(p, j) == Rss(p, j) >= Rss(p, j - 1) + MinimumGrowth

(* leak.rs: no process grows by the minimum from each sample to the next    *)
(* without becoming a candidate after the required number of times, however *)
(* it behaved before.                                                       *)
LeaksFound ==
    \A p \in Processes :
        /\ Seen(p) > Required
        /\ \A j \in Seen(p) - Required + 1 .. Seen(p) : Grew(p, j)
        => p \in candidates

(* Why: each history tells the samples it was built from. *)
HistoryTells(p) ==
    IF Seen(p) = 0 THEN histories[p] = NoHistory /\ p \notin candidates
    ELSE /\ histories[p].known
         /\ histories[p].last = Rss(p, Seen(p))
         /\ histories[p].last >= histories[p].baseline
                                   + histories[p].growth * MinimumGrowth
         /\ \E i \in 1..Seen(p) :
               RisesFrom(p, i) /\ Rss(p, i) = histories[p].baseline
         /\ \A m \in 0 .. Seen(p) - 1 :
               (\A j \in Seen(p) - m + 1 .. Seen(p) : Grew(p, j))
                 => histories[p].growth >= m
         /\ p \in candidates <=> histories[p].growth >= Required

DetectorInv == \A p \in Processes : HistoryTells(p)

(* The inductive invariant, with the types it needs.                        *)
DetectorIInv == TypeOK /\ DetectorInv
=============================================================================
