----------------------------- MODULE MemoryGuard -----------------------------
(***************************************************************************)
(* The daemon's care of rust-analyzers: each session keeps its newest      *)
(* only (enforce_single_rust_analyzer_per_session, daemon.rs), and one     *)
(* that stays over a memory limit is ended (RustAnalyzerMemoryGuard,       *)
(* memory_guard.rs).  Both go by the inventory of the cycle, while         *)
(* processes start, exit and grow.  Times are told as time passed since,   *)
(* up to the threshold that they are compared with.  How a process is      *)
(* ended is the subject of module Remediation.                             *)
(***************************************************************************)
EXTENDS Naturals, Sequences

CONSTANTS
    Analyzers,  \* rust-analyzers, numbered by start time, then by pid
    Sessions,
    NoSession,  \* of a process whose session is unresolved or ambiguous
    Required,   \* required_consecutive_samples
    Grace,      \* startup_grace_secs
    Cooldown,   \* cooldown_secs
    MaxFaults   \* bound: crashes and failing calls

ASSUME GuardAssumption ==
    /\ Analyzers \subseteq Nat
    /\ {Required, Grace, Cooldown, MaxFaults} \subseteq Nat
    /\ NoSession \notin Sessions

VARIABLES
    \* the processes
    life,        \* "unborn", "running" or "gone"
    age,         \* time since each started
    over,        \* those with max_rss_bytes or more
    session,     \* the session that each is associated with
    \* the daemon's memory
    stage,       \* "down", "idle", "read", "rule", "replace", "guard"
    inventory,   \* the rust-analyzers in the inventory of the cycle
    hot,         \* those of them that are over the limit
    grown,       \* those of them that are past the startup grace
    fresh,       \* the second inventory, of the session rule
    victims,     \* older ones of a session, not yet dealt with
    excluded,    \* those that the memory guard does not get to see
    histories,   \* RustAnalyzerMemoryGuard::histories
    since_remediation,  \* time since last_remediation_unix_secs
    since_sample,       \* time since the cycle read its clock
    cooling,     \* cooldown_active
    candidates,  \* candidates of the memory guard, not yet dealt with
    remediated,  \* remediations > 0
    \* history
    recent,      \* the last samples of each that the guard has seen
    since_round, \* time since the clock of the last cycle that ended one
    ruled,       \* ended by the session rule
    \* bound
    faults

processes == <<life, age, over, session>>
sample    == <<inventory, hot, grown>>
rule      == <<fresh, victims, excluded>>
guard     == <<histories, since_remediation, cooling, candidates, remediated>>
history   == <<recent, since_round, ruled>>
vars      == <<processes, stage, sample, rule, guard, since_sample, history,
               faults>>

(* consecutive_over_limit_samples is only compared with Required. *)
HistoryEntry == [known : {TRUE}, over_limit : 0..Required]

History(n) == [known |-> TRUE, over_limit |-> n]

NoHistory == [known |-> FALSE, over_limit |-> 0]

Running == {i \in Analyzers : life[i] = "running"}
Born    == {i \in Analyzers : life[i] # "unborn"}

(* A guard without a remediation is one whose cooldown is over. *)
NewGuard ==
    /\ histories' = [i \in Analyzers |-> NoHistory]
    /\ since_remediation' = Cooldown
    /\ cooling' = FALSE
    /\ candidates' = {}
    /\ remediated' = FALSE
    /\ recent' = [i \in Analyzers |-> <<>>]
    /\ since_round' = Cooldown

Init ==
    /\ life = [i \in Analyzers |-> "unborn"]
    /\ age = [i \in Analyzers |-> 0]
    /\ over = {}
    /\ session = [i \in Analyzers |-> NoSession]
    /\ stage = "down"
    /\ inventory = {}
    /\ hot = {}
    /\ grown = {}
    /\ fresh = {}
    /\ victims = {}
    /\ excluded = {}
    /\ histories = [i \in Analyzers |-> NoHistory]
    /\ since_remediation = Cooldown
    /\ since_sample = 0
    /\ cooling = FALSE
    /\ candidates = {}
    /\ remediated = FALSE
    /\ recent = [i \in Analyzers |-> <<>>]
    /\ since_round = Cooldown
    /\ ruled = {}
    /\ faults = 0

-----------------------------------------------------------------------------
(* The daemon. *)

Start ==
    /\ stage = "down"
    /\ stage' = "idle"
    /\ UNCHANGED <<processes, sample, rule, guard, since_sample, history,
                   faults>>

(* An error of any part of the cycle, or the end of the process. *)
Down ==
    /\ faults < MaxFaults
    /\ faults' = faults + 1
    /\ stage' = "down"
    /\ inventory' = {}
    /\ hot' = {}
    /\ grown' = {}
    /\ fresh' = {}
    /\ victims' = {}
    /\ excluded' = {}
    /\ since_sample' = 0
    /\ NewGuard
    /\ UNCHANGED ruled

Crash == stage # "down" /\ Down /\ UNCHANGED processes

Sample ==
    /\ stage' = "rule"
    /\ inventory' = Running
    /\ hot' = Running \cap over
    /\ grown' = {i \in Running : age[i] = Grace}
    /\ since_sample' = 0
    /\ cooling' = (since_remediation < Cooldown)
    /\ UNCHANGED <<processes, rule, histories, since_remediation,
                   candidates, remediated, history, faults>>

SampleAfterWait == stage = "idle" /\ Sample

(* A client that connects is waited for without a timeout. *)
Accept ==
    /\ stage = "idle"
    /\ stage' = "read"
    /\ UNCHANGED <<processes, sample, rule, guard, since_sample, history,
                   faults>>

SampleAfterBatch == stage = "read" /\ Sample

-----------------------------------------------------------------------------
(* enforce_single_rust_analyzer_per_session *)

(* Faulty: sorted the other way round, so the oldest is kept. *)
NewerOfSession(S) ==
    {i \in S : /\ session[i] # NoSession
               /\ \E j \in S : session[j] = session[i] /\ j < i}

(* duplicate_rust_analyzer_victims_by_session *)
duplicate_victims(S) ==
    {i \in S : /\ session[i] # NoSession
               /\ \E j \in S : session[j] = session[i] /\ i < j}

NoDuplicates ==
    /\ stage = "rule"
    /\ duplicate_victims(inventory) = {}
    /\ stage' = "replace"
    /\ UNCHANGED <<processes, sample, rule, guard, since_sample, history,
                   faults>>

FindDuplicates ==
    /\ stage = "rule"
    /\ duplicate_victims(inventory) # {}
    /\ stage' = "replace"
    /\ victims' = duplicate_victims(inventory)
    /\ fresh' = Running
    /\ UNCHANGED <<processes, sample, excluded, guard, since_sample,
                   history, faults>>

(* A victim that is not in the second inventory. *)
SkipVictim(i) ==
    /\ stage = "replace"
    /\ i \in victims \ fresh
    /\ victims' = victims \ {i}
    /\ excluded' = excluded \cup {i}
    /\ UNCHANGED <<processes, stage, sample, fresh, guard, since_sample,
                   history, faults>>

EndVictim(i) ==
    /\ stage = "replace"
    /\ i \in victims \cap fresh
    /\ life[i] = "running"
    /\ life' = [life EXCEPT ![i] = "gone"]
    /\ victims' = victims \ {i}
    /\ excluded' = excluded \cup {i}
    /\ ruled' = ruled \cup {i}
    /\ UNCHANGED <<age, over, session, stage, sample, fresh, guard,
                   since_sample, recent, since_round, faults>>

(* AlreadyExited: the memory guard still gets to see it. *)
VictimHasExited(i) ==
    /\ stage = "replace"
    /\ i \in victims \cap fresh
    /\ life[i] = "gone"
    /\ victims' = victims \ {i}
    /\ UNCHANGED <<processes, stage, sample, fresh, excluded, guard,
                   since_sample, history, faults>>

-----------------------------------------------------------------------------
(* RustAnalyzerMemoryGuard::observe_inventory *)

Lower(a, b) == IF a < b THEN a ELSE b

(* Faulty: a sample below the limit does not reset the count. *)
ObservedKeepsCount(entry, is_hot) ==
    IF is_hot THEN History(Lower(entry.over_limit + 1, Required))
    ELSE History(entry.over_limit)

(* Faulty: the entry of a new process is built and not inserted. *)
ObservedNotInserted(entry, is_hot) ==
    [entry EXCEPT !.over_limit = IF is_hot THEN Lower(@ + 1, Required) ELSE 0]

Observed(entry, is_hot) ==
    IF is_hot THEN History(Lower(entry.over_limit + 1, Required))
    ELSE History(0)

Push(samples, is_hot) ==
    LET more == Append(samples, is_hot) IN
    IF Len(more) > Required THEN Tail(more) ELSE more

observe_inventory ==
    LET seen == (inventory \ excluded) \cap grown IN
    /\ stage = "replace"
    /\ victims = {}
    /\ stage' = "guard"
    /\ histories' = [i \in Analyzers |->
                        IF i \in seen THEN Observed(histories[i], i \in hot)
                        ELSE NoHistory]
    /\ recent' = [i \in Analyzers |->
                     IF i \in seen THEN Push(recent[i], i \in hot) ELSE <<>>]
    /\ candidates' = {i \in seen : /\ ~ cooling
                                   /\ histories'[i].over_limit >= Required}
    /\ fresh' = {}
    /\ excluded' = {}
    /\ UNCHANGED <<processes, sample, victims, since_remediation, cooling,
                   remediated, since_sample, since_round, ruled, faults>>

(* run_rust_analyzer_memory_guard_with_inventory, in enforce mode *)

EndCandidate(i) ==
    /\ stage = "guard"
    /\ i \in candidates
    /\ life[i] = "running"
    /\ life' = [life EXCEPT ![i] = "gone"]
    /\ candidates' = candidates \ {i}
    /\ remediated' = TRUE
    /\ since_round' = since_sample
    /\ UNCHANGED <<age, over, session, stage, sample, rule, histories,
                   since_remediation, cooling, since_sample, recent, ruled,
                   faults>>

CandidateHasExited(i) ==
    /\ stage = "guard"
    /\ i \in candidates
    /\ life[i] = "gone"
    /\ candidates' = candidates \ {i}
    /\ UNCHANGED <<processes, stage, sample, rule, histories,
                   since_remediation, cooling, remediated, since_sample,
                   history, faults>>

(* A victim or candidate that exits under the signal is an error, which     *)
(* also loses what the guard has yet to record.                             *)
RemediationFails(i) ==
    /\ \/ stage = "replace" /\ i \in victims \cap fresh
       \/ stage = "guard" /\ i \in candidates
    /\ life[i] = "running"
    /\ life' = [life EXCEPT ![i] = "gone"]
    /\ Down
    /\ UNCHANGED <<age, over, session>>

EndCycle ==
    /\ stage = "guard"
    /\ candidates = {}
    /\ stage' = "idle"
    /\ inventory' = {}
    /\ hot' = {}
    /\ grown' = {}
    /\ since_sample' = 0
    /\ cooling' = FALSE
    /\ remediated' = FALSE
    /\ UNCHANGED <<processes, rule, candidates, since_round, ruled, faults>>

(* Faulty: a remediation is recorded whether there was one or not. *)
RecordAlways ==
    /\ EndCycle
    /\ since_remediation' = since_sample
    /\ histories' = [i \in Analyzers |-> NoHistory]
    /\ recent' = [i \in Analyzers |-> <<>>]

NothingEnded ==
    /\ EndCycle
    /\ ~ remediated
    /\ UNCHANGED <<histories, since_remediation, recent>>

(* Faulty: the histories outlive the remediation. *)
RecordOnly ==
    /\ EndCycle
    /\ remediated
    /\ since_remediation' = since_sample
    /\ recent' = [i \in Analyzers |-> <<>>]
    /\ UNCHANGED histories

(* Faulty: no cooldown begins. *)
RecordNothing ==
    /\ EndCycle
    /\ remediated
    /\ histories' = [i \in Analyzers |-> NoHistory]
    /\ recent' = [i \in Analyzers |-> <<>>]
    /\ UNCHANGED since_remediation

(* The cooldown counts from the clock that the cycle began with. *)
record_remediation ==
    /\ EndCycle
    /\ remediated
    /\ since_remediation' = since_sample
    /\ histories' = [i \in Analyzers |-> NoHistory]
    /\ recent' = [i \in Analyzers |-> <<>>]

-----------------------------------------------------------------------------
(* The processes, and the time. *)

Spawn(i, s) ==
    /\ life[i] = "unborn"
    /\ \A j \in Born : i < j => age[j] = 0
    /\ life' = [life EXCEPT ![i] = "running"]
    /\ session' = [session EXCEPT ![i] = s]
    /\ UNCHANGED <<age, over, stage, sample, rule, guard, since_sample,
                   history, faults>>

(* By itself, or ended by another part of the daemon or by someone else. *)
Exits(i) ==
    /\ life[i] = "running"
    /\ life' = [life EXCEPT ![i] = "gone"]
    /\ UNCHANGED <<age, over, session, stage, sample, rule, guard,
                   since_sample, history, faults>>

Grow(i) ==
    /\ life[i] = "running"
    /\ i \notin over
    /\ over' = over \cup {i}
    /\ UNCHANGED <<life, age, session, stage, sample, rule, guard,
                   since_sample, history, faults>>

Shrink(i) ==
    /\ life[i] = "running"
    /\ i \in over
    /\ over' = over \ {i}
    /\ UNCHANGED <<life, age, session, stage, sample, rule, guard,
                   since_sample, history, faults>>

Tick ==
    /\ age' = [i \in Analyzers |->
                  IF i \in Born THEN Lower(age[i] + 1, Grace) ELSE age[i]]
    /\ since_sample' = IF stage \in {"rule", "replace", "guard"}
                       THEN Lower(since_sample + 1, Cooldown) ELSE since_sample
    /\ since_remediation' = Lower(since_remediation + 1, Cooldown)
    /\ since_round' = Lower(since_round + 1, Cooldown)
    /\ UNCHANGED <<life, over, session, stage, sample, rule, histories,
                   cooling, candidates, remediated, recent, ruled, faults>>

-----------------------------------------------------------------------------
DaemonStep ==
    \/ SampleAfterWait
    \/ NoDuplicates
    \/ FindDuplicates
    \/ \E i \in Analyzers : \/ SkipVictim(i)
                            \/ EndVictim(i)
                            \/ VictimHasExited(i)
                            \/ EndCandidate(i)
                            \/ CandidateHasExited(i)
    \/ observe_inventory
    \/ NothingEnded
    \/ record_remediation

DaemonFault == Crash \/ \E i \in Analyzers : RemediationFails(i)

ClientStep == Accept \/ SampleAfterBatch

ProcessStep ==
    \E i \in Analyzers :
        \/ \E s \in Sessions \cup {NoSession} : Spawn(i, s)
        \/ Exits(i) \/ Grow(i) \/ Shrink(i)

Next == Start \/ DaemonStep \/ DaemonFault \/ ClientStep \/ Tick \/ ProcessStep

Spec == Init /\ [][Next]_vars

(* A daemon that runs keeps stepping, time passes, and someone restarts the *)
(* daemon.  Clients and processes owe nothing.                              *)
FairSpec == Spec /\ WF_vars(DaemonStep) /\ WF_vars(Tick) /\ WF_vars(Start)

-----------------------------------------------------------------------------
Stages == {"down", "idle", "read", "rule", "replace", "guard"}

(* The types of the processes' and the daemon's state. *)
TypeOK ==
    /\ life \in [Analyzers -> {"unborn", "running", "gone"}]
    /\ age \in [Analyzers -> 0..Grace]
    /\ over \subseteq Analyzers
    /\ session \in [Analyzers -> Sessions \cup {NoSession}]
    /\ stage \in Stages
    /\ inventory \subseteq Analyzers
    /\ hot \subseteq inventory
    /\ grown \subseteq inventory
    /\ fresh \subseteq Analyzers
    /\ victims \subseteq Analyzers
    /\ excluded \subseteq Analyzers
    /\ histories \in [Analyzers -> HistoryEntry \cup {NoHistory}]
    /\ since_remediation \in 0..Cooldown
    /\ since_sample \in 0..Cooldown
    /\ cooling \in BOOLEAN
    /\ candidates \subseteq Analyzers
    /\ remediated \in BOOLEAN
    /\ recent \in [Analyzers -> Seq(BOOLEAN)]
    /\ since_round \in 0..Cooldown
    /\ ruled \subseteq Analyzers
    /\ faults \in 0..MaxFaults

(* memory_guard.rs: whoever the guard is about to end was over the limit in *)
(* each of the last required samples, taken in successive cycles past its   *)
(* startup grace, all of them after the last remediation.                   *)
Patience ==
    \A i \in candidates :
        /\ age[i] = Grace
        /\ Len(recent[i]) = Required
        /\ \A k \in 1..Required : recent[i][k]

(* memory_guard.rs and daemon.rs: in one run of the daemon, rounds of       *)
(* remediations are a cooldown apart, counted from the clock of the cycle.  *)
CooldownKept ==
    candidates # {} /\ ~ remediated => since_round = Cooldown

(* daemon.rs: the session rule never ends the newest rust-analyzer that its *)
(* session has had, however old the inventory it goes by is.                *)
NewestSpared ==
    \A i \in ruled : \E j \in Born : session[j] = session[i] /\ i < j

(* Why: the entry of each is the end of what was sampled of it. *)
EntryTells(entry, samples) ==
    LET n == Len(samples) IN
    /\ n <= Required
    /\ ~ entry.known => n = 0
    /\ entry.over_limit <= n
    /\ \A k \in 1..n : n - entry.over_limit < k => samples[k]
    /\ entry.over_limit < n => ~ samples[n - entry.over_limit]

HistoriesTell == \A i \in Analyzers : EntryTells(histories[i], recent[i])

RoundsTell ==
    since_round = IF remediated THEN since_sample ELSE since_remediation

CycleTells ==
    /\ inventory \cup ruled \subseteq Born
    /\ \A i \in grown : age[i] = Grace
    /\ victims \subseteq duplicate_victims(inventory)
    /\ candidates \subseteq grown
    /\ stage # "replace" => victims = {}
    /\ stage # "guard" => candidates = {} /\ ~ remediated
    /\ stage \in {"rule", "replace"} /\ ~ cooling => since_remediation = Cooldown
    /\ candidates # {} => /\ since_remediation = Cooldown
                          /\ \A i \in candidates :
                                histories[i].over_limit >= Required

(* The guard's memory, its clock and its candidates tell what it has seen   *)
(* and done in this run.                                                    *)
GuardInv == HistoriesTell /\ RoundsTell /\ CycleTells /\ NewestSpared

(* The inductive invariant, with the types it needs.                        *)
GuardIInv == TypeOK /\ GuardInv

(* A rust-analyzer does not stay over the limit for ever: it shrinks, exits *)
(* or is ended, whatever the others do to the cooldown, unless a client     *)
(* keeps the daemon waiting.                                                *)
HogsEnded ==
    \/ <>[](stage = "read")
    \/ \A i \in Analyzers : []<> ~ (life[i] = "running" /\ i \in over)
=============================================================================
