---------------------------- MODULE SetupProofs ----------------------------
(***************************************************************************)
(* Proofs about Setup for any machine, any numbers that the user may type, *)
(* any edits of the files and any number of faults.                        *)
(***************************************************************************)
EXTENDS Setup, TLAPS

(* The tables of defaults are answers. *)
LEMMA RecommendedType == recommended \in Answers
  BY DEF recommended, GuardDefaults, Answers

(* The guard that load_config finds is a whole section. *)
LEMMA LoadedType ==
  ASSUME NEW file \in GuardianFiles
  PROVE  loaded(file) \in GuardSections
  <1>1. default_section \in GuardSections
    BY DEF default_section, GuardSections
  <1>2. file.guard \in GuardSections \cup {NoSection}
    BY DEF GuardianFiles
  <1>3. NoSection.present = FALSE
    BY DEF NoSection
  <1>4. CASE file.guard = NoSection
    BY <1>1, <1>3, <1>4 DEF loaded
  <1>5. CASE file.guard \in GuardSections
    BY <1>1, <1>5 DEF loaded
  <1> QED
    BY <1>2, <1>4, <1>5

(* Rounding up to GiB gives a number. *)
LEMMA DisplayType ==
  ASSUME NEW mib \in Nat
  PROVE  bytes_to_display_gb(mib) \in Nat
  BY DEF bytes_to_display_gb

LEMMA DefaultsType ==
  ASSUME guardian \in GuardianFiles
  PROVE  /\ build_wizard_defaults \in Answers
         /\ default_same_uid_only \in BOOLEAN
  <1>1. loaded(guardian) \in GuardSections
    BY LoadedType
  <1>2. bytes_to_display_gb(loaded(guardian).rss) \in Nat
    BY <1>1, DisplayType DEF GuardSections
  <1>3. build_wizard_defaults \in Answers
    <2>1. CASE guardian.state = "absent"
      BY <2>1, RecommendedType DEF build_wizard_defaults
    <2>2. CASE guardian.state # "absent"
      BY <1>1, <1>2, <2>2 DEF build_wizard_defaults, GuardSections, Answers
    <2> QED
      BY <2>1, <2>2
  <1>4. default_same_uid_only \in BOOLEAN
    <2>1. CASE guardian.state = "absent"
      BY <2>1 DEF default_same_uid_only, default_section
    <2>2. CASE guardian.state # "absent"
      <3>1. loaded(guardian).same_uid_only \in BOOLEAN
        BY <1>1 DEF GuardSections
      <3> QED
        BY <2>2, <3>1, Zenon DEF default_same_uid_only
    <2> QED
      BY <2>1, <2>2
  <1> QED
    BY <1>3, <1>4

LEMMA SectionType ==
  ASSUME NEW a \in Answers, NEW uid \in BOOLEAN
  PROVE  section(a, uid) \in GuardSections
  BY DEF section, Answers, GuardSections

LEMMA PromptedType ==
  ASSUME NEW a \in Answers
  PROVE  prompted(a) \subseteq Answers
  <1>1. /\ Typed["memory_cap_gb"] \subseteq Nat
        /\ Typed["required_consecutive_samples"] \subseteq Nat
        /\ Typed["startup_grace_secs"] \subseteq Nat
        /\ Typed["cooldown_secs"] \subseteq Nat
    BY WizardAssumption DEF WizardAssumption, Fields
  <1>2. [a EXCEPT !.enabled = FALSE] \in Answers
    BY DEF Answers
  <1>3. /\ a["memory_cap_gb"] \in Nat
        /\ a["required_consecutive_samples"] \in Nat
        /\ a["startup_grace_secs"] \in Nat
        /\ a["cooldown_secs"] \in Nat
    BY DEF Answers
  <1> QED
    BY <1>1, <1>2, <1>3 DEF prompted, Answers

-----------------------------------------------------------------------------
(* The steps of the wizard. *)

LEMMA Steps ==
  ASSUME WizardTypeOK
  PROVE  /\ step_index \in 1..6
         /\ ~ answers.enabled => step_index \in 1..2
         /\ current_step \in Fields =>
               /\ answers.enabled
               /\ step_index \in 2..5
         /\ answers.enabled =>
               /\ current_step = "enable" => step_index = 1
               /\ current_step = "memory_cap_gb" <=> step_index = 2
               /\ current_step = "required_consecutive_samples"
                      <=> step_index = 3
               /\ current_step = "startup_grace_secs" <=> step_index = 4
               /\ current_step = "cooldown_secs" <=> step_index = 5
               /\ current_step = "review" <=> step_index = 6
         /\ current_step = "enable" => step_index = 1
         /\ Len(visible_steps(answers.enabled)) =
               IF answers.enabled THEN 6 ELSE 2
  <1>1. answers.enabled \in BOOLEAN
    BY DEF WizardTypeOK, Answers
  <1>2. CASE answers.enabled
    <2>1. step_index \in 1..6
      BY <1>2 DEF WizardTypeOK, visible_steps
    <2>2. step_index = 1 \/ step_index = 2 \/ step_index = 3 \/ step_index = 4
          \/ step_index = 5 \/ step_index = 6
      BY <2>1
    <2> QED
      BY <1>2, <2>1, <2>2 DEF visible_steps, current_step, Fields
  <1>3. CASE ~ answers.enabled
    <2>1. step_index \in 1..2
      BY <1>3 DEF WizardTypeOK, visible_steps
    <2>2. step_index = 1 \/ step_index = 2
      BY <2>1
    <2> QED
      BY <1>3, <2>1, <2>2 DEF visible_steps, current_step, Fields
  <1> QED
    BY <1>1, <1>2, <1>3

-----------------------------------------------------------------------------
(* Type correctness. *)

LEMMA OpencodeType ==
  ASSUME NEW state \in {"absent", "broken", "whole"}, NEW edit \in EditNumbers,
         NEW mcp \in McpSections, state = "absent" => edit = 0
  PROVE  Opencode(state, edit, mcp) \in OpencodeFiles
  BY DEF Opencode, OpencodeFiles

LEMMA GuardianType ==
  ASSUME NEW state \in {"absent", "broken", "misfit", "whole"},
         NEW edit \in EditNumbers,
         NEW guard \in GuardSections \cup {NoSection},
         state = "absent" => edit = 0 /\ ~ guard.present
  PROVE  Guardian(state, edit, guard) \in GuardianFiles
  BY DEF Guardian, GuardianFiles

LEMMA BoundsType ==
  /\ MaxDialogs \in Nat
  /\ MaxEdits \in Nat
  /\ MaxFaults \in Nat
  /\ 0 \in EditNumbers
  BY SetupAssumption DEF SetupAssumption, EditNumbers

LEMMA EmptyFilesType ==
  /\ NoMcp \in McpSections
  /\ NoOpencode \in OpencodeFiles
  /\ BrokenOpencode \in OpencodeFiles
  /\ NoGuardian \in GuardianFiles
  /\ BrokenGuardian \in GuardianFiles
  /\ EmptyGuardian \in GuardianFiles
  <1>1. NoMcp \in McpSections
    BY DEF NoMcp, McpSections
  <1>2. NoOpencode \in OpencodeFiles /\ BrokenOpencode \in OpencodeFiles
    BY <1>1, BoundsType, OpencodeType DEF NoOpencode, BrokenOpencode
  <1>3. /\ NoGuardian \in GuardianFiles
        /\ BrokenGuardian \in GuardianFiles
        /\ EmptyGuardian \in GuardianFiles
    BY BoundsType, GuardianType
    DEF NoGuardian, BrokenGuardian, EmptyGuardian, NoSection
  <1> QED
    BY <1>1, <1>2, <1>3

LEMMA OpenWizardType ==
  ASSUME NEW a \in Answers, OpenWizard(a)
  PROVE  WizardTypeOK'
  <1>1. step_index' = 1 /\ answers' = a
    BY DEF OpenWizard
  <1>2. Len(visible_steps(answers'.enabled)) \in Nat
        /\ 1 <= Len(visible_steps(answers'.enabled))
    <2>1. CASE a.enabled
      BY <1>1, <2>1 DEF visible_steps
    <2>2. CASE ~ a.enabled
      BY <1>1, <2>2 DEF visible_steps
    <2> QED
      BY <2>1, <2>2
  <1> QED
    BY <1>1, <1>2 DEF WizardTypeOK

(* What the end of a command leaves has its type. *)
LEMMA ExitType ==
  ASSUME Exit
  PROVE  /\ WizardTypeOK'
         /\ step_index' = 1
         /\ opencode_root' \in OpencodeFiles
         /\ guardian_root' \in GuardianFiles
         /\ stage' = "off"
         /\ command' = "install"
         /\ same_uid_only' \in BOOLEAN
  <1>1. WizardTypeOK'
    BY RecommendedType, OpenWizardType DEF Exit
  <1> QED
    BY <1>1, EmptyFilesType DEF Exit, OpenWizard

LEMMA WizardStepType ==
  ASSUME WizardTypeOK, WizardStep
  PROVE  WizardTypeOK'
  <1> USE Steps
  <1>1. answers \in Answers /\ answers.enabled \in BOOLEAN
    BY DEF WizardTypeOK, Answers
  <1>2. step_index \in Nat
    OBVIOUS
  <1>3. CASE MovePrevious
    BY <1>1, <1>2, <1>3 DEF MovePrevious, WizardTypeOK
  <1>4. CASE AnswerEnabled
    <2>1. answers' \in Answers
      BY <1>1, <1>4 DEF AnswerEnabled, Answers
    <2>2. step_index' = 1
      BY <1>4 DEF AnswerEnabled
    <2>3. 1 \in 1 .. Len(visible_steps(answers'.enabled))
      <3>1. CASE answers'.enabled
        BY <3>1 DEF visible_steps
      <3>2. CASE ~ answers'.enabled
        BY <3>2 DEF visible_steps
      <3> QED
        BY <3>1, <3>2
    <2> QED
      BY <2>1, <2>2, <2>3 DEF WizardTypeOK
  <1>5. CASE ConfirmEnabled
    BY <1>1, <1>2, <1>5 DEF ConfirmEnabled, move_next, WizardTypeOK
  <1>6. CASE ConfirmField
    <2>1. answers.enabled /\ current_step \in Fields
      BY <1>6 DEF ConfirmField
    <2>2. PICK value \in Typed[current_step] \cup {answers[current_step]} :
              answers' = [answers EXCEPT ![current_step] = value]
      BY <1>6 DEF ConfirmField
    <2>3. Typed[current_step] \subseteq Nat
      BY <2>1, WizardAssumption DEF WizardAssumption
    <2>4. answers' \in Answers /\ answers'.enabled
      <3>1. CASE current_step = "memory_cap_gb"
        BY <1>1, <2>1, <2>2, <2>3, <3>1 DEF Answers
      <3>2. CASE current_step = "required_consecutive_samples"
        BY <1>1, <2>1, <2>2, <2>3, <3>2 DEF Answers
      <3>3. CASE current_step = "startup_grace_secs"
        BY <1>1, <2>1, <2>2, <2>3, <3>3 DEF Answers
      <3>4. CASE current_step = "cooldown_secs"
        BY <1>1, <2>1, <2>2, <2>3, <3>4 DEF Answers
      <3> QED
        BY <2>1, <3>1, <3>2, <3>3, <3>4 DEF Fields
    <2>5. step_index' \in 1..6
      <3>1. Len(visible_steps(answers.enabled)) = 6
        BY <2>1
      <3>2. step_index' = IF step_index < Len(visible_steps(answers.enabled))
                          THEN step_index + 1 ELSE step_index
        BY <1>6 DEF ConfirmField, move_next
      <3> QED
        BY <1>2, <3>1, <3>2
    <2>6. Len(visible_steps(answers'.enabled)) = 6
      BY <2>4 DEF visible_steps
    <2> QED
      BY <2>4, <2>5, <2>6 DEF WizardTypeOK
  <1> QED
    BY <1>3, <1>4, <1>5, <1>6 DEF WizardStep

LEMMA RootTypes ==
  ASSUME TypeOK
  PROVE  /\ updated_opencode \in OpencodeFiles
         /\ updated_guardian \in GuardianFiles
  <1>1. opencode.edit \in EditNumbers /\ guardian.edit \in EditNumbers
    BY DEF TypeOK, OpencodeFiles, GuardianFiles
  <1>2. updated_mcp \in McpSections
    BY DEF updated_mcp, McpSections
  <1>3. section(answers, same_uid_only) \in GuardSections
    BY SectionType DEF TypeOK, WizardTypeOK
  <1>4. guardian \in GuardianFiles
    BY DEF TypeOK
  <1>5. updated_opencode \in OpencodeFiles
    BY <1>1, <1>2, OpencodeType DEF updated_opencode
  <1>6. Guardian("whole", guardian.edit, section(answers, same_uid_only))
            \in GuardianFiles
    BY <1>1, <1>3, GuardianType
  <1> QED
    BY <1>4, <1>5, <1>6 DEF updated_guardian

(* AfterOpencode goes on with the install or ends the command. *)
LEMMA AfterOpencodeType ==
  ASSUME TypeOK, AfterOpencode, stage # "wizard"
  PROVE  /\ WizardTypeOK'
         /\ step_index' = 1
         /\ opencode_root' \in OpencodeFiles
         /\ guardian_root' \in GuardianFiles
         /\ stage' \in {"off", "guardian"}
         /\ command' = "install"
         /\ same_uid_only' \in BOOLEAN
  <1>1. CASE command = "install" /\ stage' = "guardian"
             /\ opencode_root' = NoOpencode
             /\ UNCHANGED <<wizard, inputs, guardian_root>>
    <2>1. /\ step_index' = step_index
          /\ answers' = answers
          /\ command' = command
          /\ same_uid_only' = same_uid_only
      BY <1>1 DEF wizard, inputs
    <2>2. step_index' = 1 \/ stage = "wizard"
      BY <2>1 DEF TypeOK
    <2> QED
      BY <1>1, <2>1, <2>2, EmptyFilesType DEF TypeOK, WizardTypeOK
  <1>2. CASE Exit
    BY <1>2, ExitType
  <1> QED
    BY <1>1, <1>2 DEF AfterOpencode

(* Files, documents and answers have their types at every step (setup.rs).  *)
THEOREM SetupTypeCorrect == Spec => []TypeOK
  <1>1. Init => TypeOK
    <2> SUFFICES ASSUME Init PROVE TypeOK
      OBVIOUS
    <2>1. WizardTypeOK
      <3>1. step_index = 1 /\ answers = recommended
        BY DEF Init
      <3>2. recommended.enabled
        BY DEF recommended, GuardDefaults
      <3>3. Len(visible_steps(recommended.enabled)) = 6
        BY <3>2 DEF visible_steps
      <3> QED
        BY <3>1, <3>3, RecommendedType DEF WizardTypeOK
    <2>2. latest \in [Files -> EditNumbers] /\ exposed \subseteq Files
      BY BoundsType DEF Init
    <2>3. /\ dialogs \in 0..MaxDialogs
          /\ edits \in EditNumbers
          /\ faults \in 0..MaxFaults
      BY BoundsType DEF Init
    <2>4. /\ same_uid_only \in BOOLEAN
          /\ undisturbed \in BOOLEAN
          /\ installed \in BOOLEAN
      BY DEF Init
    <2> QED
      BY <2>1, <2>2, <2>3, <2>4, EmptyFilesType DEF Init, TypeOK
  <1>2. TypeOK /\ [Next]_vars => TypeOK'
    <2> SUFFICES ASSUME TypeOK, [Next]_vars PROVE TypeOK'
      OBVIOUS
    <2> USE BoundsType
    <2>1. CASE StartInstall
      <3>1. build_wizard_defaults \in Answers /\ default_same_uid_only \in BOOLEAN
        BY DefaultsType DEF TypeOK
      <3>2. WizardTypeOK'
        BY <2>1, <3>1, OpenWizardType DEF StartInstall
      <3>3. dialogs' \in 0..MaxDialogs /\ installed' \in BOOLEAN
            /\ stage' \in {"wizard", "prompts", "opencode"}
        <4> dialogs \in 0..MaxDialogs /\ installed \in BOOLEAN
          BY DEF TypeOK
        <4>1. CASE stage' = "opencode" /\ UNCHANGED <<installed, dialogs>>
          <5>1. dialogs' = dialogs /\ installed' = installed
            BY <4>1
          <5>2. installed' \in BOOLEAN
            BY <5>1, Zenon
          <5> QED
            BY <4>1, <5>1, <5>2
        <4>2. CASE /\ dialogs < MaxDialogs
                   /\ dialogs' = dialogs + 1
                   /\ stage' \in {"wizard", "prompts"}
                   /\ installed' = FALSE
          <5>1. dialogs' \in 0..MaxDialogs
            BY <4>2
          <5>2. installed' \in BOOLEAN
            BY <4>2
          <5> QED
            BY <4>2, <5>1, <5>2
        <4>3. \/ stage' = "opencode" /\ UNCHANGED <<installed, dialogs>>
              \/ /\ dialogs < MaxDialogs
                 /\ dialogs' = dialogs + 1
                 /\ stage' \in {"wizard", "prompts"}
                 /\ installed' = FALSE
          BY <2>1, Zenon DEF StartInstall
        <4> QED
          BY <4>1, <4>2, <4>3
      <3>4. step_index' = 1
        BY <2>1 DEF StartInstall, OpenWizard
      <3> QED
        BY <2>1, <3>1, <3>2, <3>3, <3>4 DEF StartInstall, TypeOK, files, roots
    <2>2. CASE StartMcpOnly
      BY <2>2 DEF StartMcpOnly, TypeOK, WizardTypeOK, files, wizard, roots, bounds
    <2>3. CASE StartUninstall
      BY <2>3 DEF StartUninstall, TypeOK, WizardTypeOK, files, wizard, roots, bounds
    <2>4. CASE UseWizard
      <3>1. WizardTypeOK'
        BY <2>4, WizardStepType DEF UseWizard, TypeOK
      <3> QED
        BY <2>4, <3>1
        DEF UseWizard, TypeOK, files, inputs, roots, history, bounds
    <2>5. CASE ConfirmReview
      <3>1. answers' = answers /\ step_index' = 1
        BY <2>5 DEF ConfirmReview
      <3>2. WizardTypeOK' /\ step_index' = 1
        <4>1. CASE answers.enabled
          BY <3>1, <4>1 DEF WizardTypeOK, visible_steps, TypeOK
        <4>2. CASE ~ answers.enabled
          BY <3>1, <4>2 DEF WizardTypeOK, visible_steps, TypeOK
        <4> QED
          BY <4>1, <4>2
      <3> QED
        BY <2>5, <3>2
        DEF ConfirmReview, TypeOK, files, inputs, roots, history, bounds
    <2>6. CASE Cancel
      BY <2>6, ExitType DEF Cancel, TypeOK, files, history, bounds
    <2>7. CASE run_setup_wizard
      <3>1. answers' \in Answers
        BY <2>7, PromptedType DEF run_setup_wizard, TypeOK, WizardTypeOK
      <3>2. WizardTypeOK' /\ step_index' = 1
        <4>1. step_index' = 1
          BY <2>7 DEF run_setup_wizard, TypeOK
        <4>2. CASE answers'.enabled
          BY <3>1, <4>1, <4>2 DEF WizardTypeOK, visible_steps
        <4>3. CASE ~ answers'.enabled
          BY <3>1, <4>1, <4>3 DEF WizardTypeOK, visible_steps
        <4> QED
          BY <4>1, <4>2, <4>3
      <3> QED
        BY <2>7, <3>1, <3>2
        DEF run_setup_wizard, TypeOK, files, inputs, roots, history, bounds
    <2>8. CASE read_opencode_config
      BY <2>8, RootTypes
      DEF read_opencode_config, TypeOK, WizardTypeOK, files, wizard, inputs,
          history, bounds
    <2>9. CASE RefuseOpencode
      BY <2>9, ExitType DEF RefuseOpencode, TypeOK, files, history, bounds
    <2>10. CASE LeaveOpencode
      BY <2>10, AfterOpencodeType
      DEF LeaveOpencode, TypeOK, files, history, bounds
    <2>11. CASE BackUpOpencode
      BY <2>11
      DEF BackUpOpencode, TypeOK, WizardTypeOK, wizard, inputs, roots, history,
          bounds
    <2>12. CASE write_opencode_config
      BY <2>12, AfterOpencodeType
      DEF write_opencode_config, TypeOK, history, bounds
    <2>13. CASE read_guardian_config_document
      BY <2>13, RootTypes
      DEF read_guardian_config_document, TypeOK, WizardTypeOK, files, wizard,
          inputs, history, bounds
    <2>14. CASE RefuseGuardian
      BY <2>14, ExitType DEF RefuseGuardian, TypeOK, files, history, bounds
    <2>15. CASE BackUpGuardian
      <3>1. CASE Exit
        BY <2>15, <3>1, ExitType DEF BackUpGuardian, TypeOK, history, bounds
      <3>2. CASE stage' = "guardian_write" /\ UNCHANGED <<wizard, inputs, roots>>
        BY <2>15, <3>2
        DEF BackUpGuardian, TypeOK, WizardTypeOK, wizard, inputs, roots,
            history, bounds
      <3> QED
        BY <2>15, <3>1, <3>2 DEF BackUpGuardian
    <2>16. CASE write_guardian_config_document
      BY <2>16, ExitType DEF write_guardian_config_document, TypeOK, bounds
    <2>17. CASE Failure
      <3>1. /\ Fault
            /\ opencode' \in OpencodeFiles
            /\ opencode_backup' \in OpencodeFiles
            /\ guardian' \in GuardianFiles
            /\ guardian_backup' \in GuardianFiles
            /\ exposed' \subseteq Files
        BY <2>17, EmptyFilesType
        DEF Failure, Interrupt, CutOpencodeBackup, CutOpencodeWrite,
            CutGuardianBackup, CutGuardianWrite, files, TypeOK, Files
      <3>2. faults' \in 0..MaxFaults
        BY <3>1 DEF Fault, TypeOK
      <3> QED
        BY <3>1, <3>2, ExitType DEF Fault, TypeOK
    <2>18. CASE EditOpencode \/ EditGuardian
      <3>1. PICK f \in Files, edit \in {0, edits + 1}, overwritten \in BOOLEAN :
                Edit(f, edit, overwritten)
        <4>1. CASE \E overwritten \in BOOLEAN :
                       Edit("opencode", edits + 1, overwritten)
          BY <4>1 DEF Files
        <4>2. CASE Edit("opencode", 0, FALSE)
          BY <4>2 DEF Files
        <4>3. CASE \E overwritten \in BOOLEAN :
                       Edit("guardian", edits + 1, overwritten)
          BY <4>3 DEF Files
        <4>4. CASE Edit("guardian", 0, FALSE)
          BY <4>4 DEF Files
        <4>5. /\ (stage \in {"opencode_backup", "opencode_write"}) \in BOOLEAN
              /\ (stage \in {"guardian_backup", "guardian_write"}) \in BOOLEAN
          OBVIOUS
        <4> QED
          BY <2>18, <4>1, <4>2, <4>3, <4>4, <4>5, Zenon
          DEF EditOpencode, EditGuardian
      <3>2. /\ edits' \in EditNumbers
            /\ edits + 1 \in EditNumbers
        BY <3>1 DEF Edit, TypeOK, EditNumbers
      <3>3. latest' \in [Files -> EditNumbers] /\ exposed' \subseteq Files
        BY <3>1, <3>2 DEF Edit, TypeOK
      <3>4. /\ opencode' \in OpencodeFiles
            /\ opencode_backup' \in OpencodeFiles
            /\ guardian' \in GuardianFiles
            /\ guardian_backup' \in GuardianFiles
        <4>1. EditedMcp \subseteq McpSections
          BY SetupAssumption DEF SetupAssumption
        <4>2. EditedGuards \subseteq GuardSections \cup {NoSection}
          BY SetupAssumption DEF SetupAssumption
        <4>3. CASE EditOpencode
          BY <4>1, <4>3, <3>2, EmptyFilesType, OpencodeType
          DEF EditOpencode, TypeOK
        <4>4. CASE EditGuardian
          <5>1. \/ guardian' = NoGuardian
                \/ \E guard \in EditedGuards :
                       guardian' = Guardian("whole", edits + 1, guard)
                \/ \E state \in {"broken", "misfit"} :
                       guardian' = Guardian(state, edits + 1, NoSection)
            BY <4>4 DEF EditGuardian
          <5>2. guardian' \in GuardianFiles
            BY <4>2, <5>1, <3>2, EmptyFilesType, GuardianType
          <5> QED
            BY <4>4, <5>2 DEF EditGuardian, TypeOK
        <4> QED
          BY <2>18, <4>3, <4>4
      <3> QED
        BY <3>1, <3>2, <3>3, <3>4
        DEF Edit, TypeOK, WizardTypeOK, wizard, inputs, roots
    <2>19. CASE UNCHANGED vars
      BY <2>19
      DEF TypeOK, WizardTypeOK, vars, files, wizard, inputs, roots, history,
          bounds
    <2> QED
      BY <2>1, <2>2, <2>3, <2>4, <2>5, <2>6, <2>7, <2>8, <2>9, <2>10, <2>11,
         <2>12, <2>13, <2>14, <2>15, <2>16, <2>17, <2>18, <2>19
      DEF Next, Install
  <1> QED
    BY <1>1, <1>2, PTL DEF Spec

-----------------------------------------------------------------------------
(* The wizard never gets past an answer that is not settled. *)

LEMMA WizardStepSettles ==
  ASSUME WizardTypeOK, AnswersSettled, WizardStep
  PROVE  AnswersSettled'
  <1> USE Steps
  <1>1. answers \in Answers /\ step_index \in Nat
    BY DEF WizardTypeOK
  <1>2. CASE MovePrevious
    BY <1>1, <1>2 DEF MovePrevious, AnswersSettled, Settled
  <1>3. CASE AnswerEnabled
    BY <1>1, <1>3 DEF AnswerEnabled, AnswersSettled
  <1>4. CASE ConfirmEnabled
    <2>1. step_index = 1 /\ step_index' \in {1, 2}
      BY <1>1, <1>4 DEF ConfirmEnabled, move_next
    <2> QED
      BY <2>1 DEF AnswersSettled
  <1>5. CASE ConfirmField
    <2>1. answers.enabled /\ current_step \in Fields
      BY <1>5 DEF ConfirmField
    <2>2. PICK value \in Typed[current_step] \cup {answers[current_step]} :
              /\ accepts(current_step, value, answers.startup_grace_secs)
              /\ answers' = [answers EXCEPT ![current_step] = value]
      BY <1>5 DEF ConfirmField
    <2>3. step_index' = step_index + 1
      <3>1. Len(visible_steps(answers.enabled)) = 6
        BY <2>1
      <3>2. step_index \in 2..5
        BY <2>1
      <3>3. step_index' = IF step_index < Len(visible_steps(answers.enabled))
                          THEN step_index + 1 ELSE step_index
        BY <1>5 DEF ConfirmField, move_next
      <3> QED
        BY <3>1, <3>2, <3>3
    <2>4. Typed[current_step] \subseteq Nat
      BY <2>1, WizardAssumption DEF WizardAssumption
    <2>5. CASE current_step = "memory_cap_gb"
      <3>1. step_index = 2
        BY <2>1, <2>5
      <3>2. Settled("memory_cap_gb")'
        BY <1>1, <2>2, <2>4, <2>5 DEF accepts, Settled, Answers
      <3> QED
        BY <2>3, <3>1, <3>2 DEF AnswersSettled
    <2>6. CASE current_step = "required_consecutive_samples"
      <3>1. step_index = 3
        BY <2>1, <2>6
      <3>2. Settled("memory_cap_gb")'
        BY <1>1, <2>1, <2>2, <2>6, <3>1
        DEF AnswersSettled, Settled, Answers
      <3>3. Settled("required_consecutive_samples")'
        BY <1>1, <2>2, <2>4, <2>6 DEF accepts, Settled, Answers
      <3> QED
        BY <2>3, <3>1, <3>2, <3>3 DEF AnswersSettled
    <2>7. CASE current_step = "startup_grace_secs"
      <3>1. step_index = 4
        BY <2>1, <2>7
      <3>2. /\ Settled("memory_cap_gb")'
            /\ Settled("required_consecutive_samples")'
        BY <1>1, <2>1, <2>2, <2>7, <3>1
        DEF AnswersSettled, Settled, Answers
      <3> QED
        BY <2>3, <3>1, <3>2 DEF AnswersSettled
    <2>8. CASE current_step = "cooldown_secs"
      <3>1. step_index = 5
        BY <2>1, <2>8
      <3>2. /\ Settled("memory_cap_gb")'
            /\ Settled("required_consecutive_samples")'
        BY <1>1, <2>1, <2>2, <2>8, <3>1
        DEF AnswersSettled, Settled, Answers
      <3>3. Settled("cooldown_secs")'
        BY <1>1, <2>2, <2>4, <2>8 DEF accepts, Settled, Answers
      <3> QED
        BY <3>2, <3>3 DEF AnswersSettled
    <2> QED
      BY <2>1, <2>5, <2>6, <2>7, <2>8 DEF Fields
  <1> QED
    BY <1>2, <1>3, <1>4, <1>5 DEF WizardStep

LEMMA AnswersStaySettled ==
  ASSUME TypeOK, stage = "wizard" => AnswersSettled, [Next]_vars
  PROVE  stage' = "wizard" => AnswersSettled'
  <1> SUFFICES ASSUME stage' = "wizard" PROVE AnswersSettled'
    OBVIOUS
  <1>1. CASE StartInstall
    BY <1>1 DEF StartInstall, OpenWizard, AnswersSettled
  <1>2. CASE UseWizard
    BY <1>2, WizardStepSettles DEF UseWizard, TypeOK
  <1>3. CASE UNCHANGED <<wizard, stage>>
    BY <1>3 DEF wizard, AnswersSettled, Settled
  <1>4. ~ StartInstall /\ ~ UseWizard => UNCHANGED <<wizard, stage>>
    BY Zenon
    DEF Next, Install, Failure, StartMcpOnly, StartUninstall, ConfirmReview,
        Cancel, run_setup_wizard, read_opencode_config, RefuseOpencode,
        LeaveOpencode, BackUpOpencode, write_opencode_config, AfterOpencode,
        read_guardian_config_document, RefuseGuardian, BackUpGuardian,
        write_guardian_config_document, Interrupt, CutOpencodeBackup,
        CutOpencodeWrite, CutGuardianBackup, CutGuardianWrite, Fault, Exit,
        EditOpencode, EditGuardian, Edit, vars
  <1> QED
    BY <1>1, <1>2, <1>3, <1>4

-----------------------------------------------------------------------------
(* The owner's part of a file is carried from step to step. *)

OpencodeKept ==
    OwnerPartKept("opencode", opencode, opencode_backup, opencode_root,
                  "opencode_backup", "opencode_write")

GuardianKept ==
    OwnerPartKept("guardian", guardian, guardian_backup, guardian_root,
                  "guardian_backup", "guardian_write")

LEMMA OpencodeStaysKept ==
  ASSUME TypeOK, OpencodeKept, [Next]_vars
  PROVE  OpencodeKept'
  <1> DEFINE Busy == {"opencode_backup", "opencode_write"}
  <1> USE DEF OpencodeKept, OwnerPartKept
  <1>1. /\ opencode \in OpencodeFiles
        /\ latest["opencode"] \in EditNumbers
        /\ latest \in [Files -> EditNumbers]
        /\ edits \in EditNumbers
    BY DEF TypeOK, Files
  <1>2. ASSUME UNCHANGED <<opencode, opencode_backup, latest>>,
               "opencode" \in exposed => "opencode" \in exposed',
               stage' \notin Busy
        PROVE  OpencodeKept'
    BY <1>2
  <1>3. CASE \/ StartInstall \/ StartMcpOnly \/ StartUninstall \/ ConfirmReview
             \/ Cancel \/ run_setup_wizard \/ RefuseOpencode
             \/ read_guardian_config_document \/ RefuseGuardian
             \/ BackUpGuardian \/ write_guardian_config_document
    BY <1>2, <1>3
    DEF StartInstall, StartMcpOnly, StartUninstall, ConfirmReview, Cancel,
        run_setup_wizard, RefuseOpencode, read_guardian_config_document,
        RefuseGuardian, BackUpGuardian, write_guardian_config_document, Exit,
        files, history
  <1>4. CASE LeaveOpencode
    BY <1>2, <1>4 DEF LeaveOpencode, AfterOpencode, Exit, files, history
  <1>5. CASE UseWizard
    BY <1>2, <1>5 DEF UseWizard, files, history
  <1>6. CASE read_opencode_config
    BY <1>1, <1>6
    DEF read_opencode_config, updated_opencode, Opencode, files, history
  <1>7. CASE BackUpOpencode
    <2>1. opencode.edit = 0 \/ opencode_backup' = opencode
      BY <1>7 DEF BackUpOpencode, TypeOK, OpencodeFiles
    <2> QED
      BY <1>7, <2>1 DEF BackUpOpencode, roots, history
  <1>8. CASE write_opencode_config
    BY <1>8 DEF write_opencode_config, AfterOpencode, Exit, history
  <1>9. CASE Failure
    BY <1>9
    DEF Failure, Fault, Interrupt, CutOpencodeBackup, CutOpencodeWrite,
        CutGuardianBackup, CutGuardianWrite, Exit, files, BrokenOpencode,
        Opencode
  <1>10. CASE EditOpencode
    BY <1>1, <1>10 DEF EditOpencode, Edit, NoOpencode, Opencode, Files, roots
  <1>11. CASE EditGuardian
    BY <1>1, <1>11 DEF EditGuardian, Edit, Files, roots
  <1>12. CASE UNCHANGED vars
    BY <1>12 DEF vars, files, roots, history
  <1> QED
    BY <1>3, <1>4, <1>5, <1>6, <1>7, <1>8, <1>9, <1>10, <1>11, <1>12
    DEF Next, Install

LEMMA GuardianStaysKept ==
  ASSUME TypeOK, GuardianKept, [Next]_vars
  PROVE  GuardianKept'
  <1> DEFINE Busy == {"guardian_backup", "guardian_write"}
  <1> USE DEF GuardianKept, OwnerPartKept
  <1>1. /\ guardian \in GuardianFiles
        /\ latest["guardian"] \in EditNumbers
        /\ latest \in [Files -> EditNumbers]
        /\ edits \in EditNumbers
    BY DEF TypeOK, Files
  <1>2. ASSUME UNCHANGED <<guardian, guardian_backup, latest>>,
               "guardian" \in exposed => "guardian" \in exposed',
               stage' \notin Busy
        PROVE  GuardianKept'
    BY <1>2
  <1>3. CASE \/ StartInstall \/ StartMcpOnly \/ StartUninstall \/ ConfirmReview
             \/ Cancel \/ run_setup_wizard \/ read_opencode_config
             \/ RefuseOpencode \/ BackUpOpencode \/ RefuseGuardian
    BY <1>2, <1>3
    DEF StartInstall, StartMcpOnly, StartUninstall, ConfirmReview, Cancel,
        run_setup_wizard, read_opencode_config, RefuseOpencode,
        BackUpOpencode, RefuseGuardian, Exit, files, history
  <1>4. CASE LeaveOpencode \/ write_opencode_config
    BY <1>2, <1>4
    DEF LeaveOpencode, write_opencode_config, AfterOpencode, Exit, files,
        history
  <1>5. CASE UseWizard
    BY <1>2, <1>5 DEF UseWizard, files, history
  <1>6. CASE read_guardian_config_document
    BY <1>1, <1>6
    DEF read_guardian_config_document, updated_guardian, Guardian, files,
        history
  <1>7. CASE BackUpGuardian
    <2>1. guardian.edit = 0 \/ guardian_backup' = guardian
      BY <1>7 DEF BackUpGuardian, TypeOK, GuardianFiles
    <2> QED
      BY <1>7, <2>1 DEF BackUpGuardian, Exit, roots, history
  <1>8. CASE write_guardian_config_document
    BY <1>8 DEF write_guardian_config_document, Exit
  <1>9. CASE Failure
    BY <1>9
    DEF Failure, Fault, Interrupt, CutOpencodeBackup, CutOpencodeWrite,
        CutGuardianBackup, CutGuardianWrite, Exit, files, BrokenGuardian,
        EmptyGuardian, Guardian
  <1>10. CASE EditGuardian
    BY <1>1, <1>10 DEF EditGuardian, Edit, NoGuardian, Guardian, Files, roots
  <1>11. CASE EditOpencode
    BY <1>1, <1>11 DEF EditOpencode, Edit, Files, roots
  <1>12. CASE UNCHANGED vars
    BY <1>12 DEF vars, files, roots, history
  <1> QED
    BY <1>3, <1>4, <1>5, <1>6, <1>7, <1>8, <1>9, <1>10, <1>11, <1>12
    DEF Next, Install

-----------------------------------------------------------------------------
(* The answers of the wizard are settled up to its current step, and each   *)
(* file and its backup carry the owner's last edit, at every step of any    *)
(* commands (setup.rs, setup_tui.rs).                                       *)
THEOREM SetupInvHolds == Spec => []SetupInv
  <1>1. Init => SetupInv
    BY DEF Init, SetupInv, OwnerPartKept, Files
  <1>2. TypeOK /\ SetupInv /\ [Next]_vars => SetupInv'
    <2> SUFFICES ASSUME TypeOK, SetupInv, [Next]_vars PROVE SetupInv'
      OBVIOUS
    <2>1. (stage = "wizard" => AnswersSettled)'
      BY AnswersStaySettled DEF SetupInv
    <2>2. OpencodeKept'
      BY OpencodeStaysKept DEF SetupInv, OpencodeKept
    <2>3. GuardianKept'
      BY GuardianStaysKept DEF SetupInv, GuardianKept
    <2> QED
      BY <2>1, <2>2, <2>3 DEF SetupInv, OpencodeKept, GuardianKept
  <1> QED
    BY <1>1, <1>2, SetupTypeCorrect, PTL DEF Spec

(* An enabled guard comes to review with acceptable answers only            *)
(* (SetupWizardState::confirm, setup_tui.rs).                               *)
THEOREM ReviewSettledHolds == Spec => []ReviewSettled
  <1>1. TypeOK /\ SetupInv => ReviewSettled
    <2> SUFFICES ASSUME TypeOK, SetupInv, stage = "wizard",
                        current_step = "review", answers.enabled,
                        NEW f \in Fields
                 PROVE  Settled(f)
      BY DEF ReviewSettled
    <2>1. step_index = 6
      BY Steps DEF TypeOK
    <2>2. /\ Settled("memory_cap_gb")
          /\ Settled("required_consecutive_samples")
          /\ Settled("cooldown_secs")
      BY <2>1 DEF SetupInv, AnswersSettled
    <2>3. Settled("startup_grace_secs")
      BY DEF Settled
    <2> QED
      BY <2>2, <2>3 DEF Fields
  <1> QED
    BY <1>1, SetupTypeCorrect, SetupInvHolds, PTL

(* The owner's part of opencode.json is in the file or in the backup        *)
(* (write_opencode_config_if_changed, setup.rs).                            *)
THEOREM OpencodeRecoverableHolds == Spec => []OpencodeRecoverable
  <1>1. SetupInv => OpencodeRecoverable
    BY DEF SetupInv, OwnerPartKept, OpencodeRecoverable
  <1> QED
    BY <1>1, SetupInvHolds, PTL

(* The owner's part of config.toml is in the file or in the backup          *)
(* (install_with_answers, setup.rs).                                        *)
THEOREM GuardianRecoverableHolds == Spec => []GuardianRecoverable
  <1>1. SetupInv => GuardianRecoverable
    BY DEF SetupInv, OwnerPartKept, GuardianRecoverable
  <1> QED
    BY <1>1, SetupInvHolds, PTL
-----------------------------------------------------------------------------
(* The uid setting that an install is about to write is the one that it     *)
(* found, until someone edits the file.                                     *)
UidCarried ==
    undisturbed =>
        /\ stage \notin {"off", "guardian_write"} /\ command = "install" =>
               same_uid_only = default_same_uid_only
        /\ stage \in {"guardian", "guardian_backup", "guardian_write"} =>
               command = "install"
        /\ stage = "guardian_backup" /\ guardian_root.state = "whole" =>
               guardian_root.guard.same_uid_only = same_uid_only
        /\ stage = "guardian_write" =>
               guardian_root.guard.same_uid_only = default_same_uid_only

LEMMA UidStaysCarried ==
  ASSUME UidCarried, [Next]_vars
  PROVE  UidCarried'
  <1> USE DEF UidCarried
  <1>1. CASE StartInstall
    <2>1. default_same_uid_only' = default_same_uid_only
      BY <1>1, Zenon
      DEF StartInstall, files, default_same_uid_only, loaded, default_section
    <2> QED
      BY <1>1, <2>1 DEF StartInstall
  <1>2. CASE \/ RefuseOpencode \/ RefuseGuardian \/ Cancel
             \/ write_guardian_config_document
    BY <1>2
    DEF RefuseOpencode, RefuseGuardian, Cancel, Exit,
        write_guardian_config_document
  <1>3. CASE Failure \/ EditOpencode \/ EditGuardian
    BY <1>3
    DEF Failure, Interrupt, CutOpencodeBackup, CutOpencodeWrite,
        CutGuardianBackup, CutGuardianWrite, Fault, EditOpencode,
        EditGuardian, Edit
  <1>4. ASSUME UNCHANGED guardian
        PROVE  default_same_uid_only' = default_same_uid_only
    BY <1>4, Zenon DEF default_same_uid_only, loaded, default_section
  <1>5. CASE StartMcpOnly \/ StartUninstall
    BY <1>5 DEF StartMcpOnly, StartUninstall
  <1>6. CASE \/ UseWizard \/ ConfirmReview \/ run_setup_wizard
             \/ read_opencode_config \/ BackUpOpencode
    BY <1>4, <1>6
    DEF UseWizard, ConfirmReview, run_setup_wizard, read_opencode_config,
        BackUpOpencode, files, inputs, history
  <1>7. CASE LeaveOpencode \/ write_opencode_config
    BY <1>4, <1>7
    DEF LeaveOpencode, write_opencode_config, AfterOpencode, Exit, files,
        inputs, history
  <1>8. CASE read_guardian_config_document
    <2>1. guardian_root'.state = "whole" =>
              guardian_root'.guard.same_uid_only = same_uid_only
      BY <1>8
      DEF read_guardian_config_document, updated_guardian, Guardian, section
    <2> QED
      BY <1>4, <1>8, <2>1
      DEF read_guardian_config_document, files, inputs, history
  <1>9. CASE BackUpGuardian
    BY <1>4, <1>9 DEF BackUpGuardian, Exit, inputs, roots, history
  <1>10. CASE UNCHANGED vars
    BY <1>4, <1>10 DEF vars, files, inputs, roots, history
  <1> QED
    BY <1>1, <1>2, <1>3, <1>5, <1>6, <1>7, <1>8, <1>9, <1>10
    DEF Next, Install

(* No command changes the uid setting of a guard section under its owner    *)
(* (default_same_uid_only, setup.rs).                                       *)
THEOREM UidKeptHolds == Spec => UidKept
  <1>1. Init => UidCarried
    BY DEF Init, UidCarried
  <1>2. UidCarried /\ [Next]_vars => UidCarried'
    BY UidStaysCarried
  <1> DEFINE Kept ==
          /\ undisturbed /\ undisturbed'
          /\ guardian.guard.present /\ guardian'.guard.present
          => guardian'.guard.same_uid_only = guardian.guard.same_uid_only
  <1>3. TypeOK /\ UidCarried /\ [Next]_vars => [Kept]_vars
    <2> SUFFICES ASSUME TypeOK, UidCarried, [Next]_vars,
                        undisturbed, undisturbed', guardian.guard.present
                 PROVE  guardian'.guard.same_uid_only
                            = guardian.guard.same_uid_only
      OBVIOUS
    <2>1. CASE write_guardian_config_document
      <3>1. guardian' = guardian_root /\ stage = "guardian_write"
        BY <2>1 DEF write_guardian_config_document
      <3>2. guardian.state # "absent" => default_same_uid_only
                                        = guardian.guard.same_uid_only
        BY DEF default_same_uid_only, loaded
      <3> QED
        BY <3>1, <3>2 DEF UidCarried, TypeOK, GuardianFiles
    <2>2. CASE UNCHANGED guardian
      BY <2>2
    <2>3. write_guardian_config_document \/ UNCHANGED guardian
      BY Zenon
      DEF Next, Install, Failure, StartInstall, StartMcpOnly, StartUninstall,
          UseWizard, ConfirmReview, Cancel, run_setup_wizard,
          read_opencode_config, RefuseOpencode, LeaveOpencode, BackUpOpencode,
          write_opencode_config, read_guardian_config_document,
          RefuseGuardian, BackUpGuardian, Interrupt, CutOpencodeBackup,
          CutOpencodeWrite, CutGuardianBackup, CutGuardianWrite, Fault,
          EditOpencode, EditGuardian, Edit, files, vars
    <2> QED
      BY <2>1, <2>2, <2>3
  <1>4. Spec => []TypeOK
    BY SetupTypeCorrect
  <1> QED
    BY <1>1, <1>2, <1>3, <1>4, PTL DEF Spec, UidKept

(* Setup and its files (setup.rs, setup_tui.rs): typed, and inductively so. *)
THEOREM SetupIInvHolds == Spec => []SetupIInv
<1>1. TypeOK /\ SetupInv => SetupIInv
  BY DEF SetupIInv
<1> QED BY <1>1, SetupTypeCorrect, SetupInvHolds, PTL

(* setup.rs: the owner's part of both files is in the file or its backup.   *)
THEOREM OwnerRecoverableHolds == Spec => []OwnerRecoverable
<1>1. OpencodeRecoverable /\ GuardianRecoverable => OwnerRecoverable
  BY DEF OwnerRecoverable
<1> QED BY <1>1, OpencodeRecoverableHolds, GuardianRecoverableHolds, PTL
-----------------------------------------------------------------------------
(* An install that runs again finds what it would write. *)

(* Our entry, in the layout that setup gives the file. *)
Ours(file) ==
    /\ file.state = "whole"
    /\ file.mcp = [entry |-> "ours", canonical |-> TRUE]

(* A guard section whose limit is read as the GiB that it was written from. *)
WholeGib(file) ==
    /\ file.state = "whole"
    /\ file.guard.present
    /\ bytes_to_display_gb(file.guard.rss) * 1024 = file.guard.rss

(* What the command in hand holds at each of its steps. *)
CommandCarries ==
    /\ answers.memory_cap_gb >= 1
    /\ stage \in {"off", "wizard", "prompts", "guardian", "guardian_backup",
                  "guardian_write"} => command = "install"
    /\ stage \in {"opencode_backup", "opencode_write"}
       /\ command # "uninstall" => Ours(opencode_root)
    /\ undisturbed /\ stage \in {"guardian", "guardian_backup",
                                 "guardian_write"} => Ours(opencode)
    /\ stage = "guardian_backup" /\ guardian_root.state = "whole" =>
           WholeGib(guardian_root)
    /\ stage = "guardian_write" => WholeGib(guardian_root)

(* Once installed, the files are what the command in hand would write. *)
InstallCarries ==
    installed =>
        /\ Ours(opencode)
        /\ WholeGib(guardian)
        /\ stage \notin {"wizard", "prompts", "opencode_write"}
        /\ command # "uninstall"
        /\ stage # "off" /\ command = "install" =>
               /\ answers = build_wizard_defaults
               /\ same_uid_only = default_same_uid_only
        /\ stage = "opencode_backup" => opencode_root = opencode
        /\ stage \in {"guardian_backup", "guardian_write"} =>
               guardian_root = guardian

SameIInv == CommandCarries /\ InstallCarries

(* A limit written from a number of GiB is read as that number. *)
LEMMA GibReadBack ==
  ASSUME NEW cap \in Nat, cap >= 1
  PROVE  bytes_to_display_gb(cap * 1024) = cap
  <1>1. cap * 1024 # 0 /\ (cap * 1024 + 1023) \div 1024 = cap
    OBVIOUS
  <1> QED
    BY <1>1 DEF bytes_to_display_gb

LEMMA SectionIsWholeGib ==
  ASSUME NEW a \in Answers, a.memory_cap_gb >= 1, NEW uid, NEW edit
  PROVE  WholeGib(Guardian("whole", edit, section(a, uid)))
  <1>1. a.memory_cap_gb \in Nat
    BY DEF Answers
  <1>2. bytes_to_display_gb(a.memory_cap_gb * 1024) = a.memory_cap_gb
    BY <1>1, GibReadBack
  <1> QED
    BY <1>2 DEF WholeGib, Guardian, section

(* The defaults are never less than a GiB. *)
LEMMA DefaultsPositive ==
  ASSUME guardian \in GuardianFiles
  PROVE  build_wizard_defaults.memory_cap_gb >= 1
  <1>1. recommended.memory_cap_gb >= 1
    BY DEF recommended, GuardDefaults
  <1>2. loaded(guardian).rss \in Nat
    BY LoadedType DEF GuardSections
  <1>3. bytes_to_display_gb(loaded(guardian).rss) >= 1
    BY <1>2 DEF bytes_to_display_gb
  <1> QED
    BY <1>1, <1>3 DEF build_wizard_defaults

(* The section that an install without questions writes is the one it read. *)
LEMMA SectionReadBack ==
  ASSUME guardian \in GuardianFiles, WholeGib(guardian)
  PROVE  Guardian("whole", guardian.edit,
                  section(build_wizard_defaults, default_same_uid_only))
             = guardian
  <1>1. guardian.guard \in GuardSections
    BY DEF GuardianFiles, WholeGib, NoSection
  <1>2. loaded(guardian) = guardian.guard /\ guardian.state = "whole"
    BY DEF loaded, WholeGib
  <1>3. section(build_wizard_defaults, default_same_uid_only)
            = guardian.guard
    <2>1. default_same_uid_only = guardian.guard.same_uid_only
      BY <1>2, Zenon DEF default_same_uid_only
    <2>2. build_wizard_defaults =
              [enabled |-> guardian.guard.enabled,
               memory_cap_gb |-> bytes_to_display_gb(guardian.guard.rss),
               required_consecutive_samples |->
                   guardian.guard.required_consecutive_samples,
               startup_grace_secs |-> guardian.guard.startup_grace_secs,
               cooldown_secs |-> guardian.guard.cooldown_secs]
      BY <1>2 DEF build_wizard_defaults
    <2> QED
      BY <1>1, <2>1, <2>2 DEF section, WholeGib, GuardSections
  <1> QED
    BY <1>2, <1>3 DEF Guardian, GuardianFiles

LEMMA EntryReadBack ==
  ASSUME opencode \in OpencodeFiles, Ours(opencode), command # "uninstall"
  PROVE  updated_opencode = opencode
  BY DEF Ours, updated_opencode, updated_mcp, Opencode, OpencodeFiles

LEMMA PromptedPositive ==
  ASSUME NEW a \in Answers, a.memory_cap_gb >= 1, NEW b \in prompted(a)
  PROVE  b.memory_cap_gb >= 1
  <1>1. CASE b = [a EXCEPT !.enabled = FALSE]
    BY <1>1 DEF Answers
  <1>2. CASE b # [a EXCEPT !.enabled = FALSE]
    <2>1. b.memory_cap_gb \in {a["memory_cap_gb"]} \cup
              {value \in Typed["memory_cap_gb"] :
                   accepts("memory_cap_gb", value, 0)}
      BY <1>2 DEF prompted
    <2> QED
      BY <2>1 DEF accepts
  <1> QED
    BY <1>1, <1>2

(* The wizard accepts no cap below a GiB. *)
LEMMA WizardStepPositive ==
  ASSUME WizardTypeOK, answers.memory_cap_gb >= 1, WizardStep
  PROVE  answers'.memory_cap_gb >= 1
  <1>1. answers \in Answers
    BY DEF WizardTypeOK
  <1>2. CASE MovePrevious \/ ConfirmEnabled
    BY <1>2 DEF MovePrevious, ConfirmEnabled
  <1>3. CASE AnswerEnabled
    BY <1>1, <1>3 DEF AnswerEnabled, Answers
  <1>4. CASE ConfirmField
    BY <1>1, <1>4 DEF ConfirmField, accepts, Answers
  <1> QED
    BY <1>2, <1>3, <1>4 DEF WizardStep

LEMMA AnswersStayPositive ==
  ASSUME TypeOK, answers.memory_cap_gb >= 1, [Next]_vars
  PROVE  answers'.memory_cap_gb >= 1
  <1>1. recommended.memory_cap_gb >= 1
    BY DEF recommended, GuardDefaults
  <1>2. CASE StartInstall
    BY <1>2, DefaultsPositive DEF StartInstall, OpenWizard, TypeOK
  <1>3. CASE UseWizard
    BY <1>3, WizardStepPositive DEF UseWizard, TypeOK
  <1>4. CASE run_setup_wizard
    BY <1>4, PromptedPositive DEF run_setup_wizard, TypeOK, WizardTypeOK
  <1>5. CASE Exit
    BY <1>1, <1>5 DEF Exit, OpenWizard
  <1>6. CASE UNCHANGED answers
    BY <1>6
  <1>7. ~ StartInstall /\ ~ UseWizard /\ ~ run_setup_wizard /\ ~ Exit =>
            UNCHANGED answers
    BY Zenon
    DEF Next, Install, Failure, StartMcpOnly, StartUninstall, ConfirmReview,
        Cancel, read_opencode_config, RefuseOpencode,
        LeaveOpencode, BackUpOpencode, write_opencode_config, AfterOpencode,
        read_guardian_config_document, RefuseGuardian, BackUpGuardian,
        write_guardian_config_document, Interrupt, CutOpencodeBackup,
        CutOpencodeWrite, CutGuardianBackup, CutGuardianWrite, Fault,
        EditOpencode, EditGuardian, Edit, vars, wizard
  <1> QED
    BY <1>2, <1>3, <1>4, <1>5, <1>6, <1>7

LEMMA CommandStaysCarried ==
  ASSUME TypeOK, CommandCarries, [Next]_vars
  PROVE  CommandCarries'
  <1> USE DEF CommandCarries, Ours, WholeGib, bytes_to_display_gb
  <1>1. answers'.memory_cap_gb >= 1
    BY AnswersStayPositive
  <1>2. CASE StartInstall
    BY <1>1, <1>2 DEF StartInstall
  <1>3. CASE StartMcpOnly \/ StartUninstall
    BY <1>1, <1>3 DEF StartMcpOnly, StartUninstall
  <1>4. CASE Exit
    BY <1>1, <1>4 DEF Exit
  <1>5. CASE UseWizard \/ ConfirmReview \/ run_setup_wizard
    BY <1>1, <1>5
    DEF UseWizard, ConfirmReview, run_setup_wizard, inputs
  <1>6. CASE read_opencode_config
    BY <1>1, <1>6
    DEF read_opencode_config, updated_opencode, updated_mcp, Opencode, inputs
  <1>7. CASE LeaveOpencode
    BY <1>1, <1>4, <1>7
    DEF LeaveOpencode, AfterOpencode, files, inputs
  <1>8. CASE BackUpOpencode
    BY <1>1, <1>8 DEF BackUpOpencode, inputs, roots
  <1>9. CASE write_opencode_config
    BY <1>1, <1>4, <1>9 DEF write_opencode_config, AfterOpencode, inputs
  <1>10. CASE read_guardian_config_document
    <2>1. guardian_root'.state = "whole" => WholeGib(guardian_root')
      <3>1. CASE guardian.state = "misfit"
        BY <1>10, <3>1 DEF read_guardian_config_document, updated_guardian
      <3>2. CASE guardian.state # "misfit"
        BY <1>10, <3>2, SectionIsWholeGib
        DEF read_guardian_config_document, updated_guardian, TypeOK,
            WizardTypeOK
      <3> QED
        BY <3>1, <3>2
    <2> QED
      BY <1>1, <1>10, <2>1
      DEF read_guardian_config_document, files, inputs, history
  <1>11. CASE BackUpGuardian
    BY <1>1, <1>4, <1>11 DEF BackUpGuardian, inputs, roots, history
  <1>12. CASE EditOpencode \/ EditGuardian
    BY <1>1, <1>12 DEF EditOpencode, EditGuardian, Edit, inputs, roots
  <1>13. CASE UNCHANGED vars
    BY <1>1, <1>13 DEF vars, files, inputs, roots, history
  <1>14. RefuseOpencode \/ RefuseGuardian \/ Cancel
         \/ write_guardian_config_document \/ Failure => Exit
    BY Zenon
    DEF RefuseOpencode, RefuseGuardian, Cancel,
        write_guardian_config_document, Failure, Interrupt,
        CutOpencodeBackup, CutOpencodeWrite, CutGuardianBackup,
        CutGuardianWrite, Fault
  <1> QED
    BY <1>2, <1>3, <1>4, <1>5, <1>6, <1>7, <1>8, <1>9, <1>10, <1>11, <1>12,
       <1>13, <1>14
    DEF Next, Install

LEMMA InstallStaysCarried ==
  ASSUME TypeOK, CommandCarries, InstallCarries, [Next]_vars
  PROVE  InstallCarries'
  <1> SUFFICES ASSUME installed' PROVE InstallCarries'
    BY DEF InstallCarries
  <1>1. CASE write_guardian_config_document
    BY <1>1
    DEF write_guardian_config_document, CommandCarries, InstallCarries, Exit,
        Ours, WholeGib, bytes_to_display_gb
  <1>2. CASE ~ write_guardian_config_document
    <2> ~ EditOpencode /\ ~ EditGuardian /\ ~ Failure /\ ~ StartUninstall
        /\ installed
      BY <1>2, Zenon
      DEF Next, Install, EditOpencode, EditGuardian, Edit, Failure, Interrupt,
          CutOpencodeBackup, CutOpencodeWrite, CutGuardianBackup,
          CutGuardianWrite, Fault, StartInstall, StartMcpOnly, StartUninstall,
          UseWizard, ConfirmReview, Cancel, run_setup_wizard,
          read_opencode_config, RefuseOpencode, LeaveOpencode, BackUpOpencode,
          write_opencode_config, read_guardian_config_document,
          RefuseGuardian, BackUpGuardian, history, vars
    <2> /\ Ours(opencode)
        /\ WholeGib(guardian)
        /\ stage \notin {"wizard", "prompts", "opencode_write"}
        /\ command # "uninstall"
      BY DEF InstallCarries
    <2>1. ASSUME UNCHANGED <<opencode, guardian>>
          PROVE  /\ Ours(opencode)' /\ WholeGib(guardian)'
                 /\ build_wizard_defaults' = build_wizard_defaults
                 /\ default_same_uid_only' = default_same_uid_only
      <3>1. opencode' = opencode /\ guardian' = guardian
        BY <2>1
      <3>2. default_same_uid_only' = default_same_uid_only
        BY <3>1, Zenon DEF default_same_uid_only, loaded, default_section
      <3>3. build_wizard_defaults' = build_wizard_defaults
        BY <3>1
        DEF build_wizard_defaults, loaded, default_section,
            bytes_to_display_gb, recommended, GuardDefaults
      <3>4. Ours(opencode)' = Ours(opencode)
        BY <3>1, Zenon DEF Ours
      <3>5. WholeGib(guardian)' = WholeGib(guardian)
        BY <3>1 DEF WholeGib, bytes_to_display_gb
      <3> QED
        BY <3>2, <3>3, <3>4, <3>5
    <2>2. CASE StartInstall
      BY <2>1, <2>2 DEF StartInstall, OpenWizard, files, InstallCarries
    <2>3. CASE StartMcpOnly
      BY <2>1, <2>3 DEF StartMcpOnly, files, InstallCarries
    <2>4. CASE Exit
      <3>1. UNCHANGED <<opencode, guardian>>
        BY <1>2, <2>4, Zenon
        DEF Next, Install, StartInstall, StartMcpOnly, UseWizard,
            ConfirmReview, Cancel, run_setup_wizard, read_opencode_config,
            RefuseOpencode, LeaveOpencode, BackUpOpencode,
            write_opencode_config, read_guardian_config_document,
            RefuseGuardian, BackUpGuardian, files, vars
      <3> QED
        BY <2>1, <2>4, <3>1 DEF Exit, InstallCarries
    <2>5. CASE read_opencode_config
      <3>1. opencode_root' = opencode
        BY <2>5, EntryReadBack DEF read_opencode_config, TypeOK
      <3> QED
        BY <2>1, <2>5, <3>1
        DEF read_opencode_config, InstallCarries, files, wizard, inputs
    <2>6. CASE LeaveOpencode
      BY <2>1, <2>4, <2>6
      DEF LeaveOpencode, AfterOpencode, InstallCarries, files, wizard, inputs
    <2>7. CASE read_guardian_config_document
      <3>1. guardian_root' = guardian
        <4>1. /\ answers = build_wizard_defaults
              /\ same_uid_only = default_same_uid_only
          BY <2>7
          DEF read_guardian_config_document, InstallCarries, CommandCarries
        <4>2. guardian.state # "misfit"
          BY DEF WholeGib
        <4>3. updated_guardian = guardian
          BY <4>1, <4>2, SectionReadBack DEF updated_guardian, TypeOK
        <4> QED
          BY <2>7, <4>3 DEF read_guardian_config_document
      <3> QED
        BY <2>1, <2>7, <3>1
        DEF read_guardian_config_document, InstallCarries, files, wizard,
            inputs
    <2>8. CASE BackUpGuardian
      BY <2>1, <2>4, <2>8
      DEF BackUpGuardian, InstallCarries, wizard, inputs, roots
    <2>9. CASE UNCHANGED vars
      BY <2>1, <2>9
      DEF vars, files, wizard, inputs, roots, InstallCarries
    <2>10. CASE BackUpOpencode
      BY <2>10 DEF BackUpOpencode, InstallCarries
    <2>11. ~ UseWizard /\ ~ ConfirmReview /\ ~ run_setup_wizard /\ ~ Cancel
           /\ ~ write_opencode_config
      BY DEF UseWizard, ConfirmReview, run_setup_wizard, Cancel,
             write_opencode_config
    <2>12. RefuseOpencode \/ RefuseGuardian => Exit
      BY DEF RefuseOpencode, RefuseGuardian
    <2> QED
      BY <1>2, <2>2, <2>3, <2>4, <2>5, <2>6, <2>7, <2>8, <2>9, <2>10, <2>11,
         <2>12
      DEF Next, Install
  <1> QED
    BY <1>1, <1>2

(* Once installed, an install that asks nothing, and an update of the MCP   *)
(* entry, change neither file and make no backup of opencode.json           *)
(* (setup, setup.rs).                                                       *)
THEOREM IdempotentHolds == Spec => Idempotent
  <1>1. Init => SameIInv
    <2>1. Init => recommended.memory_cap_gb >= 1
      BY DEF recommended, GuardDefaults
    <2> QED
      BY <2>1 DEF Init, SameIInv, CommandCarries, InstallCarries
  <1>2. TypeOK /\ SameIInv /\ [Next]_vars => SameIInv'
    BY CommandStaysCarried, InstallStaysCarried DEF SameIInv
  <1> DEFINE Same == installed /\ installed'
                     => UNCHANGED <<opencode, opencode_backup, guardian>>
  <1>3. TypeOK /\ SameIInv /\ [Next]_vars => [Same]_vars
    <2> SUFFICES ASSUME TypeOK, SameIInv, [Next]_vars, installed, installed'
                 PROVE  UNCHANGED <<opencode, opencode_backup, guardian>>
      OBVIOUS
    <2>1. /\ stage # "opencode_write"
          /\ stage = "opencode_backup" => opencode_root = opencode
          /\ stage = "guardian_write" => guardian_root = guardian
      BY DEF SameIInv, InstallCarries
    <2> QED
      BY <2>1, Zenon
      DEF Next, Install, Failure, StartInstall, StartMcpOnly, StartUninstall,
          UseWizard, ConfirmReview, Cancel, run_setup_wizard,
          read_opencode_config, RefuseOpencode, LeaveOpencode, BackUpOpencode,
          write_opencode_config, read_guardian_config_document,
          RefuseGuardian, BackUpGuardian, write_guardian_config_document,
          Interrupt, CutOpencodeBackup, CutOpencodeWrite, CutGuardianBackup,
          CutGuardianWrite, Fault, EditOpencode, EditGuardian, Edit, files,
          vars
  <1> QED
    BY <1>1, <1>2, <1>3, SetupTypeCorrect, PTL DEF Spec, Idempotent
=============================================================================
