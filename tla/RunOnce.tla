------------------------------- MODULE RunOnce -------------------------------
(***************************************************************************)
(* One pass of the policy (runtime.rs, policy.rs) and the evidence of it   *)
(* (evidence.rs), shared by the cleanup tool of the MCP server and the     *)
(* command run-once: a decision, and a file that records it.  Callers run  *)
(* at the same time and write to one directory; Mcp and Commands compose   *)
(* this module with what else their callers do.                            *)
(***************************************************************************)
EXTENDS SharedFile, Naturals, Sequences, FiniteSets

CONSTANTS
    Callers,    \* calls of the cleanup tool, or run-once commands
    TargetOf,   \* what each writes about: "mcp-target" or "cli-target"
    Seconds     \* the seconds in which they may run

VARIABLES
    has_dir,    \* does the evidence directory exist?
    files,      \* what is in each evidence file
    writer      \* how far each caller is

evidence_vars == <<has_dir, files, writer>>

Modes == {"observe", "enforce"}

(* What run_once reads of GuardianConfig: mode, sampling and budgets. *)
RunOnceConfigs ==
    [mode : Modes, signal_quorum : Nat,
     breach_required_samples : Nat, breach_window_samples : Nat,
     per_target_per_hour : Nat, per_day : Nat]

ASSUME RunOnceAssumption ==
    /\ Seconds \subseteq Nat
    /\ TargetOf \in [Callers -> {"mcp-target", "cli-target"}]

(* The windows that both callers hand in are breached by construction: they *)
(* are the thresholds of the configuration themselves.                      *)
default_signal_windows(config) ==
    {[name |-> n,
      breached_samples |-> config.breach_required_samples,
      window_samples |-> config.breach_window_samples] :
        n \in {"rss_slope", "orphan_count"}}

signal_is_eligible(config, signal) ==
    /\ signal.window_samples >= config.breach_window_samples
    /\ signal.breached_samples >= config.breach_required_samples

Hour == 60 * 60
Day  == 24 * Hour

(* An action in the future does not count. *)
count_recent_actions(target, history, now, window) ==
    Cardinality({i \in 1..Len(history) :
                    /\ history[i].target = target
                    /\ history[i].executed_at <= now
                    /\ now - history[i].executed_at <= window})

(* Of both callers the history is empty: only a budget of zero blocks. *)
in_cooldown_or_budget_block(config, target, history, now) ==
    \/ count_recent_actions(target, history, now, Hour) >= config.per_target_per_hour
    \/ count_recent_actions(target, history, now, Day) >= config.per_day

Decision(proposed, executed, rationale) ==
    [proposed |-> proposed, executed |-> executed, rationale |-> rationale]

decide(config, target, signals, history, now) ==
    LET eligible == {s \in signals : signal_is_eligible(config, s)} IN
    IF Cardinality(eligible) < config.signal_quorum
    THEN Decision(FALSE, FALSE, "signal_quorum_not_met")
    ELSE IF config.mode = "observe"
    THEN Decision(TRUE, FALSE, "observe_mode_records_without_action")
    ELSE IF in_cooldown_or_budget_block(config, target, history, now)
    THEN Decision(TRUE, FALSE, "cooldown_or_budget_active")
    ELSE Decision(TRUE, TRUE, "step1_warn_throttle")

-----------------------------------------------------------------------------
(* The file of a decision is named by the second and the target alone, so   *)
(* that the next cleanup of the same second writes the same file.           *)
pre_action_file_name(evidence) == <<evidence.at, evidence.target>>

build_pre_action_evidence(config, target, now) ==
    [at |-> now, target |-> target,
     rationale |-> decide(config, target, default_signal_windows(config),
                          <<>>, now).rationale,
     signals |-> default_signal_windows(config)]

Names == Seconds \X {TargetOf[c] : c \in Callers}

(* Texts of different decisions differ in length by their rationale. *)
Rationales == {"step1_warn_throttle", "cooldown_or_budget_active",
               "observe_mode_records_without_action"}

LengthOf(rationale) ==
    CASE rationale = "step1_warn_throttle" -> 1
      [] rationale = "cooldown_or_budget_active" -> 2
      [] rationale = "observe_mode_records_without_action" -> 3

Longer(e, f) == LengthOf(e.rationale) > LengthOf(f.rationale)

Idle == [stage |-> "idle"]

Writing(c) == writer[c].stage # "idle"

NameOf(c) == pre_action_file_name(writer[c].evidence)

EvidenceInit ==
    /\ has_dir = FALSE
    /\ files = [n \in Names |-> Absent]
    /\ writer = [c \in Callers |-> Idle]

-----------------------------------------------------------------------------
(* run_once decides with the time at which it was called; without a         *)
(* proposal there is no evidence, and the answer is at once.                *)
BeginRunOnce(c, config, now) ==
    LET decision == decide(config, TargetOf[c], default_signal_windows(config),
                           <<>>, now)
    IN  /\ ~ Writing(c)
        /\ writer' = [writer EXCEPT ![c] =
              IF decision.proposed
              THEN [stage |-> "create_dir",
                    evidence |-> build_pre_action_evidence(config, TargetOf[c], now)]
              ELSE Idle]
        /\ UNCHANGED <<has_dir, files>>

Goto(c, stage) == writer' = [writer EXCEPT ![c].stage = stage]

(* persist_pre_action, and what each of its steps leaves behind. *)
CreateDir(c) ==
    /\ writer[c].stage = "create_dir"
    /\ has_dir' = TRUE
    /\ Goto(c, "open")
    /\ UNCHANGED files

(* Faulty: the file is opened without being emptied. *)
OpenKeepsContent(c) ==
    /\ writer[c].stage = "open"
    /\ has_dir
    /\ files' = [files EXCEPT ![NameOf(c)] = IF @ = Absent THEN Empty ELSE @]
    /\ Goto(c, "write")
    /\ UNCHANGED has_dir

OpenEvidence(c) ==
    /\ writer[c].stage = "open"
    /\ has_dir
    /\ files' = [files EXCEPT ![NameOf(c)] = Empty]
    /\ Goto(c, "write")
    /\ UNCHANGED has_dir

WriteEvidence(c) ==
    /\ writer[c].stage = "write"
    /\ files' = [files EXCEPT ![NameOf(c)] =
                    Overwritten(@, writer[c].evidence,
                                Longer(@.text, writer[c].evidence))]
    /\ writer' = [writer EXCEPT ![c] = Idle]
    /\ UNCHANGED has_dir

(* The file was removed while it was open: nobody will see what is written, *)
(* but the caller answers with its path.                                    *)
WriteUnlinked(c) ==
    /\ writer[c].stage = "unlinked"
    /\ writer' = [writer EXCEPT ![c] = Idle]
    /\ UNCHANGED <<has_dir, files>>

(* persist_pre_action_with_fallback: an error of any step is an answer      *)
(* without a path.  The action that was decided is reported all the same.   *)
FallBack(c) ==
    /\ Writing(c)
    /\ writer' = [writer EXCEPT ![c] = Idle]
    /\ UNCHANGED <<has_dir, files>>

(* Nobody but the user ever removes evidence. *)
RemoveEvidence(n) ==
    /\ files[n] # Absent
    /\ files' = [files EXCEPT ![n] = Absent]
    /\ writer' = [c \in Callers |->
                     IF writer[c].stage = "write" /\ NameOf(c) = n
                     THEN [writer[c] EXCEPT !.stage = "unlinked"] ELSE writer[c]]
    /\ UNCHANGED has_dir

RemoveDir ==
    /\ has_dir
    /\ \A n \in Names : files[n] = Absent
    /\ has_dir' = FALSE
    /\ UNCHANGED <<files, writer>>

PersistStep(c) ==
    \/ CreateDir(c) \/ OpenEvidence(c) \/ WriteEvidence(c) \/ WriteUnlinked(c)
    \/ FallBack(c)

UserStep == RemoveDir \/ \E n \in Names : RemoveEvidence(n)

=============================================================================
