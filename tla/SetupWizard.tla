---------------------------- MODULE SetupWizard ----------------------------
(***************************************************************************)
(* The questions of `cancerbroker setup` about the rust-analyzer memory    *)
(* guard: the full-screen wizard (SetupWizardState, setup_tui.rs), whose   *)
(* user moves back and forth, and the line prompts (setup_ui.rs) that take *)
(* its place where no screen can be had.  A digit or Backspace only edits  *)
(* the text of an input, which is looked at when it is confirmed: the user *)
(* may confirm any number, and any other text is refused.                  *)
(***************************************************************************)
EXTENDS Naturals, Sequences

CONSTANTS
    Ram,   \* detected_ram_gb, or 0
    Typed  \* the numbers that the user may type, by field

Fields == {"memory_cap_gb", "required_consecutive_samples",
           "startup_grace_secs", "cooldown_secs"}

ASSUME WizardAssumption ==
    /\ Ram \in Nat
    /\ Typed \in [Fields -> SUBSET Nat]

Answers == [enabled : BOOLEAN, memory_cap_gb : Nat,
            required_consecutive_samples : Nat, startup_grace_secs : Nat,
            cooldown_secs : Nat]

VARIABLES
    step_index,  \* of the wizard, from 1
    answers

wizard == <<step_index, answers>>

GuardDefaults(cap, samples, grace, cooldown) ==
    [enabled |-> TRUE, memory_cap_gb |-> cap,
     required_consecutive_samples |-> samples,
     startup_grace_secs |-> grace, cooldown_secs |-> cooldown]

(* recommended_memory_defaults *)
recommended ==
    IF Ram = 0       THEN GuardDefaults(1, 3, 300, 1800)
    ELSE IF Ram <= 8  THEN GuardDefaults(1, 2, 120, 600)
    ELSE IF Ram <= 16 THEN GuardDefaults(2, 2, 180, 900)
    ELSE IF Ram <= 32 THEN GuardDefaults(4, 3, 300, 1200)
    ELSE GuardDefaults(6, 3, 300, 1800)

visible_steps(enabled) ==
    IF enabled
    THEN <<"enable", "memory_cap_gb", "required_consecutive_samples",
           "startup_grace_secs", "cooldown_secs", "review">>
    ELSE <<"enable", "review">>

current_step == visible_steps(answers.enabled)[step_index]

(* Faulty: the cooldown is not compared with the startup grace. *)
AcceptsAnyCooldown(f, value, grace) ==
    /\ f \in {"memory_cap_gb", "required_consecutive_samples"} => value >= 1
    /\ f = "memory_cap_gb" /\ Ram # 0 => value <= Ram

(* parse_u64, parse_usize, and the check of the cooldown *)
accepts(f, value, grace) ==
    /\ f \in {"memory_cap_gb", "required_consecutive_samples"} => value >= 1
    /\ f = "memory_cap_gb" /\ Ram # 0 => value <= Ram
    /\ f = "cooldown_secs" => value >= grace

-----------------------------------------------------------------------------
(* SetupWizardState::new *)
OpenWizard(defaults) ==
    /\ step_index' = 1
    /\ answers' = defaults

move_next ==
    step_index' = IF step_index < Len(visible_steps(answers.enabled))
                  THEN step_index + 1 ELSE step_index

(* Faulty: the first step has a previous one too. *)
MovePreviousFromAny ==
    /\ step_index' = step_index - 1
    /\ UNCHANGED answers

(* Up, or Backspace where there is no input *)
MovePrevious ==
    /\ step_index > 1
    /\ step_index' = step_index - 1
    /\ UNCHANGED answers

(* toggle_enabled, and the keys y and n *)
AnswerEnabled ==
    /\ current_step = "enable"
    /\ answers' = [answers EXCEPT !.enabled = ~ @]
    /\ UNCHANGED step_index

(* Enter; what is not accepted changes nothing but a message. *)
ConfirmEnabled ==
    /\ current_step = "enable"
    /\ move_next
    /\ UNCHANGED answers

ConfirmField ==
    /\ current_step \in Fields
    /\ \E value \in Typed[current_step] \cup {answers[current_step]} :
           /\ accepts(current_step, value, answers.startup_grace_secs)
           /\ answers' = [answers EXCEPT ![current_step] = value]
    /\ move_next

WizardStep ==
    \/ MovePrevious
    \/ AnswerEnabled
    \/ ConfirmEnabled
    \/ ConfirmField

(* run_setup_wizard: every prompt takes a default unchecked, and repeats    *)
(* until a number is accepted.  After "no" there are no further prompts.    *)
prompted(defaults) ==
    LET given(f, grace) ==
            {defaults[f]} \cup {value \in Typed[f] : accepts(f, value, grace)}
        disabled == [defaults EXCEPT !.enabled = FALSE]
        enabled  ==
            {a \in [enabled : {TRUE},
                    memory_cap_gb : given("memory_cap_gb", 0),
                    required_consecutive_samples :
                        given("required_consecutive_samples", 0),
                    startup_grace_secs : given("startup_grace_secs", 0),
                    cooldown_secs : given("cooldown_secs", 0)] :
                 a.cooldown_secs \in
                     given("cooldown_secs", a.startup_grace_secs)}
    IN  enabled \cup {disabled}

-----------------------------------------------------------------------------
WizardTypeOK ==
    /\ answers \in Answers
    /\ step_index \in 1 .. Len(visible_steps(answers.enabled))

(* What the answer to a question must be when the user is through with it. *)
Settled(f) ==
    /\ f = "memory_cap_gb" => /\ answers[f] >= 1
                              /\ Ram # 0 => answers[f] <= Ram
    /\ f = "required_consecutive_samples" => answers[f] >= 1
    /\ f = "cooldown_secs" => answers[f] >= answers.startup_grace_secs

(* Of an enabled guard, all answers before the current step are settled.  A *)
(* grace that is raised afterwards, or a guard that is disabled and enabled *)
(* again, leads past the cooldown again (confirm and toggle_enabled,        *)
(* setup_tui.rs).                                                           *)
AnswersSettled ==
    answers.enabled =>
        /\ step_index > 2 => Settled("memory_cap_gb")
        /\ step_index > 3 => Settled("required_consecutive_samples")
        /\ step_index > 5 => Settled("cooldown_secs")
=============================================================================
