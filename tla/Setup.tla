------------------------------- MODULE Setup -------------------------------
(***************************************************************************)
(* `cancerbroker setup` (setup.rs) and the two configuration files that it *)
(* rewrites: the MCP entry in the file of OpenCode, and the section of the *)
(* rust-analyzer memory guard in the file of the guardian.  A file is read, *)
(* backed up and written in separate steps, between which its owner may    *)
(* edit it and at each of which the command may fail or be killed.         *)
(***************************************************************************)
EXTENDS SetupWizard

CONSTANTS
    EditedMcp,     \* the MCP entries and layouts that an edit may leave
    EditedGuards,  \* the guard sections that an edit may leave
    MaxGib,        \* the most GiB that max_rss_bytes can hold
    MaxInteger,    \* the largest integer of a TOML file
    MaxDialogs,    \* bound: installs that ask the user
    MaxEdits,      \* bound: edits of the files
    MaxFaults      \* bound: commands that fail or are killed

(* The guard section of a file; rss is max_rss_bytes in MiB. *)
GuardSections ==
    [present : {TRUE}, enabled : BOOLEAN, rss : Nat,
     required_consecutive_samples : Nat, startup_grace_secs : Nat,
     cooldown_secs : Nat, same_uid_only : BOOLEAN]

NoSection == [present |-> FALSE]

(* What setup can see of opencode.json: the entry that it adds, and whether *)
(* the file is laid out as setup lays it out.                               *)
McpSections == [entry : {"none", "ours", "other"}, canonical : BOOLEAN]

ASSUME SetupAssumption ==
    /\ EditedMcp \subseteq McpSections
    /\ EditedGuards \subseteq GuardSections \cup {NoSection}
    /\ {MaxGib, MaxInteger, MaxDialogs, MaxEdits, MaxFaults} \subseteq Nat

VARIABLES
    \* the files: their states, and which edit the owner's part of each is
    opencode,         \* opencode.json
    opencode_backup,  \* opencode.json.bak
    guardian,         \* config.toml
    guardian_backup,  \* config.toml.bak
    \* the command that runs
    stage,            \* "off", "wizard", "prompts", or the step to come
    command,          \* "install", "mcp_only" or "uninstall"
    same_uid_only,    \* default_same_uid_only
    opencode_root,    \* the document to write
    guardian_root,
    \* history
    undisturbed,      \* neither edit nor fault since the command started
    installed,        \* both files are as an install left them
    latest,           \* the last edit of each file, 0 once it is deleted
    exposed,          \* files whose last edit a command may have overwritten
    \* bounds
    dialogs, edits, faults

Files == {"opencode", "guardian"}

files   == <<opencode, opencode_backup, guardian, guardian_backup>>
inputs  == <<command, same_uid_only>>
roots   == <<opencode_root, guardian_root>>
history == <<undisturbed, installed, latest, exposed>>
bounds  == <<dialogs, edits, faults>>
vars    == <<files, wizard, stage, inputs, roots, history, bounds>>

(* An edit is its number, 0 is for nothing of the owner's.  A file that is  *)
(* "broken" is one that setup does not read: config.toml does not parse, or *)
(* opencode.json neither parses nor has a place for the entry.  A           *)
(* config.toml that is a "misfit" parses, and has something else where the  *)
(* guard section belongs.                                                   *)
EditNumbers == 0..MaxEdits

OpencodeFiles ==
    {file \in [state : {"absent", "broken", "whole"}, edit : EditNumbers,
               mcp : McpSections] :
         file.state = "absent" => file.edit = 0}

GuardianFiles ==
    {file \in [state : {"absent", "broken", "misfit", "whole"},
               edit : EditNumbers, guard : GuardSections \cup {NoSection}] :
         file.state = "absent" => file.edit = 0 /\ ~ file.guard.present}

Opencode(state, edit, mcp) == [state |-> state, edit |-> edit, mcp |-> mcp]

Guardian(state, edit, guard) ==
    [state |-> state, edit |-> edit, guard |-> guard]

NoMcp == [entry |-> "none", canonical |-> FALSE]

NoOpencode     == Opencode("absent", 0, NoMcp)
BrokenOpencode == Opencode("broken", 0, NoMcp)
NoGuardian     == Guardian("absent", 0, NoSection)
BrokenGuardian == Guardian("broken", 0, NoSection)
EmptyGuardian  == Guardian("whole", 0, NoSection)

(* RustAnalyzerMemoryGuardPolicy::default *)
default_section ==
    [present |-> TRUE, enabled |-> TRUE, rss |-> 500,
     required_consecutive_samples |-> 3, startup_grace_secs |-> 300,
     cooldown_secs |-> 1800, same_uid_only |-> TRUE]

(* The guard of the GuardianConfig that load_config makes of a file. *)
loaded(file) == IF file.guard.present THEN file.guard ELSE default_section

(* Faulty: a whole number of GiB is rounded up as well. *)
RoundedPast(mib) == (mib \div 1024) + 1

bytes_to_display_gb(mib) ==
    IF mib = 0 THEN 1 ELSE (mib + 1023) \div 1024

build_wizard_defaults ==
    IF guardian.state = "absent" THEN recommended
    ELSE LET guard == loaded(guardian) IN
         [enabled |-> guard.enabled,
          memory_cap_gb |-> bytes_to_display_gb(guard.rss),
          required_consecutive_samples |-> guard.required_consecutive_samples,
          startup_grace_secs |-> guard.startup_grace_secs,
          cooldown_secs |-> guard.cooldown_secs]

(* Faulty: the setting of the file is not looked at. *)
SameUidAlways == TRUE

default_same_uid_only ==
    IF guardian.state = "absent" THEN default_section.same_uid_only
    ELSE loaded(guardian).same_uid_only

(* gib_to_bytes and toml_integer have no error *)
in_range(a) ==
    /\ a.memory_cap_gb <= MaxGib
    /\ \A f \in Fields \ {"memory_cap_gb"} : a[f] <= MaxInteger

section(a, uid) ==
    [present |-> TRUE, enabled |-> a.enabled, rss |-> a.memory_cap_gb * 1024,
     required_consecutive_samples |-> a.required_consecutive_samples,
     startup_grace_secs |-> a.startup_grace_secs,
     cooldown_secs |-> a.cooldown_secs, same_uid_only |-> uid]

Init ==
    /\ opencode = NoOpencode
    /\ opencode_backup = NoOpencode
    /\ guardian = NoGuardian
    /\ guardian_backup = NoGuardian
    /\ step_index = 1
    /\ answers = recommended
    /\ stage = "off"
    /\ command = "install"
    /\ same_uid_only = TRUE
    /\ opencode_root = NoOpencode
    /\ guardian_root = NoGuardian
    /\ undisturbed = FALSE
    /\ installed = FALSE
    /\ latest = [f \in Files |-> 0]
    /\ exposed = {}
    /\ dialogs = 0
    /\ edits = 0
    /\ faults = 0

-----------------------------------------------------------------------------
(* The end of a command, whether it is done or fails. *)
Exit ==
    /\ stage' = "off"
    /\ OpenWizard(recommended)
    /\ command' = "install"
    /\ same_uid_only' = TRUE
    /\ opencode_root' = NoOpencode
    /\ guardian_root' = NoGuardian

(* setup: the settings of the file are the answers that the wizard and the   *)
(* prompts begin with, and those of an install that does not ask.           *)
StartInstall ==
    /\ stage = "off"
    /\ guardian.state \in {"absent", "whole"}
    /\ \/ /\ stage' = "opencode"
          /\ UNCHANGED <<installed, dialogs>>
       \/ /\ dialogs < MaxDialogs
          /\ dialogs' = dialogs + 1
          /\ stage' \in {"wizard", "prompts"}
          /\ installed' = FALSE
    /\ same_uid_only' = default_same_uid_only
    /\ OpenWizard(build_wizard_defaults)
    /\ undisturbed' = TRUE
    /\ UNCHANGED <<files, command, roots, latest, exposed, edits, faults>>

StartMcpOnly ==
    /\ stage = "off"
    /\ stage' = "opencode"
    /\ command' = "mcp_only"
    /\ undisturbed' = TRUE
    /\ UNCHANGED <<files, wizard, same_uid_only, roots, installed,
                   latest, exposed, bounds>>

(* uninstall: there may be nothing to do. *)
StartUninstall ==
    /\ stage = "off"
    /\ opencode.state # "absent"
    /\ stage' = "opencode"
    /\ command' = "uninstall"
    /\ undisturbed' = TRUE
    /\ installed' = FALSE
    /\ UNCHANGED <<files, wizard, same_uid_only, roots, latest,
                   exposed, bounds>>

UseWizard ==
    /\ stage = "wizard"
    /\ WizardStep
    /\ UNCHANGED <<files, stage, inputs, roots, history, bounds>>

ConfirmReview ==
    /\ stage = "wizard"
    /\ current_step = "review"
    /\ stage' = "opencode"
    /\ step_index' = 1
    /\ UNCHANGED <<answers, files, inputs, roots, history, bounds>>

Cancel ==
    /\ stage = "wizard"
    /\ Exit
    /\ UNCHANGED <<files, history, bounds>>

run_setup_wizard ==
    /\ stage = "prompts"
    /\ stage' = "opencode"
    /\ answers' \in prompted(answers)
    /\ UNCHANGED <<step_index, files, inputs, roots, history, bounds>>

-----------------------------------------------------------------------------
(* opencode.json *)

(* update_opencode_config, and how it is serialized *)
updated_mcp ==
    [entry |-> IF command = "uninstall" THEN "none" ELSE "ours",
     canonical |-> TRUE]

(* Faulty: the rest of the file is not read. *)
UpdatedFromNothing == Opencode("whole", 0, updated_mcp)

updated_opencode == Opencode("whole", opencode.edit, updated_mcp)

read_opencode_config ==
    /\ stage = "opencode"
    /\ opencode.state # "broken"
    /\ stage' = "opencode_backup"
    /\ opencode_root' = updated_opencode
    /\ UNCHANGED <<files, wizard, inputs, guardian_root, history, bounds>>

(* ParseJsonc, InvalidRoot, InvalidMcpSection *)
RefuseOpencode ==
    /\ stage = "opencode"
    /\ opencode.state = "broken"
    /\ Exit
    /\ UNCHANGED <<files, history, bounds>>

(* What install_with_answers does next; the other commands are done. *)
AfterOpencode ==
    \/ /\ command = "install"
       /\ stage' = "guardian"
       /\ opencode_root' = NoOpencode
       /\ UNCHANGED <<wizard, inputs, guardian_root>>
    \/ /\ command # "install"
       /\ Exit

LeaveOpencode ==
    /\ stage = "opencode_backup"
    /\ opencode = opencode_root
    /\ AfterOpencode
    /\ UNCHANGED <<files, history, bounds>>

(* Faulty: a backup that exists already is kept. *)
BackUpOpencodeOnce ==
    /\ stage = "opencode_backup"
    /\ opencode # opencode_root
    /\ stage' = "opencode_write"
    /\ opencode_backup' = IF opencode_backup.state = "absent" THEN opencode
                          ELSE opencode_backup
    /\ UNCHANGED <<opencode, guardian, guardian_backup, wizard, inputs, roots,
                   history, bounds>>

(* write_backup_if_present, in write_opencode_config_if_changed *)
BackUpOpencode ==
    /\ stage = "opencode_backup"
    /\ opencode # opencode_root
    /\ stage' = "opencode_write"
    /\ opencode_backup' = IF opencode.state = "absent" THEN opencode_backup
                          ELSE opencode
    /\ UNCHANGED <<opencode, guardian, guardian_backup, wizard, inputs, roots,
                   history, bounds>>

write_opencode_config ==
    /\ stage = "opencode_write"
    /\ opencode' = opencode_root
    /\ AfterOpencode
    /\ UNCHANGED <<opencode_backup, guardian, guardian_backup, history, bounds>>

-----------------------------------------------------------------------------
(* config.toml *)

(* Faulty: the rest of the file is not read. *)
UpdatedGuardOnly ==
    IF guardian.state = "misfit" THEN guardian
    ELSE Guardian("whole", 0, section(answers, same_uid_only))

(* update_guardian_config, which has nothing to write into a misfit *)
updated_guardian ==
    IF guardian.state = "misfit" THEN guardian
    ELSE Guardian("whole", guardian.edit, section(answers, same_uid_only))

(* The document is read again: load_existing_guardian_settings read it to   *)
(* ask the questions.                                                       *)
read_guardian_config_document ==
    /\ stage = "guardian"
    /\ guardian.state # "broken"
    /\ stage' = "guardian_backup"
    /\ guardian_root' = updated_guardian
    /\ UNCHANGED <<files, wizard, inputs, opencode_root, history, bounds>>

(* GuardianParse *)
RefuseGuardian ==
    /\ stage = "guardian"
    /\ guardian.state = "broken"
    /\ Exit
    /\ UNCHANGED <<files, history, bounds>>

(* write_backup_if_present and update_guardian_config *)
BackUpGuardian ==
    /\ stage = "guardian_backup"
    /\ guardian_backup' = IF guardian.state = "absent" THEN guardian_backup
                          ELSE guardian
    /\ \/ /\ guardian_root.state = "whole"
          /\ in_range(answers)
          /\ stage' = "guardian_write"
          /\ UNCHANGED <<wizard, inputs, roots>>
       \/ /\ \/ guardian_root.state = "misfit"  \* InvalidGuardianSection
             \/ ~ in_range(answers)             \* ValueOutOfRange
          /\ Exit
    /\ UNCHANGED <<opencode, opencode_backup, guardian, history, bounds>>

write_guardian_config_document ==
    /\ stage = "guardian_write"
    /\ guardian' = guardian_root
    /\ installed' = undisturbed
    /\ Exit
    /\ UNCHANGED <<opencode, opencode_backup, guardian_backup, undisturbed,
                   latest, exposed, bounds>>

-----------------------------------------------------------------------------
(* A command that is killed, or one of whose calls fails. *)

Fault ==
    /\ faults < MaxFaults
    /\ faults' = faults + 1
    /\ Exit
    /\ undisturbed' = FALSE
    /\ installed' = FALSE
    /\ UNCHANGED <<latest, dialogs, edits>>

Interrupt ==
    /\ stage # "off"
    /\ Fault
    /\ UNCHANGED <<files, exposed>>

(* fs::copy and fs::write empty the file before they fill it. *)
CutOpencodeBackup ==
    /\ stage = "opencode_backup"
    /\ opencode # opencode_root
    /\ opencode.state # "absent"
    /\ Fault
    /\ opencode_backup' = BrokenOpencode
    /\ UNCHANGED <<opencode, guardian, guardian_backup, exposed>>

CutOpencodeWrite ==
    /\ stage = "opencode_write"
    /\ Fault
    /\ opencode' = BrokenOpencode
    /\ UNCHANGED <<opencode_backup, guardian, guardian_backup, exposed>>

CutGuardianBackup ==
    /\ stage = "guardian_backup"
    /\ guardian.state # "absent"
    /\ Fault
    /\ guardian_backup' = BrokenGuardian
    /\ UNCHANGED <<opencode, opencode_backup, guardian, exposed>>

(* A file that is empty, or ends between two entries, is a TOML document:   *)
(* the next install takes it for one, and backs it up.                      *)
CutGuardianWrite ==
    /\ stage = "guardian_write"
    /\ Fault
    /\ guardian' \in {BrokenGuardian, EmptyGuardian}
    /\ exposed' = IF guardian' = EmptyGuardian THEN exposed \cup {"guardian"}
                  ELSE exposed
    /\ UNCHANGED <<opencode, opencode_backup, guardian_backup>>

-----------------------------------------------------------------------------
(* The owner of the files.  An edit between a command's reading of a file   *)
(* and its writing is one that the command overwrites.                      *)

Edit(f, edit, overwritten) ==
    /\ edits < MaxEdits
    /\ edits' = edits + 1
    /\ latest' = [latest EXCEPT ![f] = edit]
    /\ exposed' = IF overwritten THEN exposed \cup {f} ELSE exposed \ {f}
    /\ undisturbed' = FALSE
    /\ installed' = FALSE
    /\ UNCHANGED <<wizard, stage, inputs, roots, dialogs, faults>>

EditOpencode ==
    \/ /\ Edit("opencode", edits + 1, stage \in {"opencode_backup",
                                                 "opencode_write"})
       /\ \/ \E mcp \in EditedMcp :
                 opencode' = Opencode("whole", edits + 1, mcp)
          \/ opencode' = Opencode("broken", edits + 1, NoMcp)
       /\ UNCHANGED <<opencode_backup, guardian, guardian_backup>>
    \/ /\ Edit("opencode", 0, FALSE)
       /\ opencode' = NoOpencode
       /\ UNCHANGED <<opencode_backup, guardian, guardian_backup>>

EditGuardian ==
    \/ /\ Edit("guardian", edits + 1, stage \in {"guardian_backup",
                                                 "guardian_write"})
       /\ \/ \E guard \in EditedGuards :
                 guardian' = Guardian("whole", edits + 1, guard)
          \/ \E state \in {"broken", "misfit"} :
                 guardian' = Guardian(state, edits + 1, NoSection)
       /\ UNCHANGED <<opencode, opencode_backup, guardian_backup>>
    \/ /\ Edit("guardian", 0, FALSE)
       /\ guardian' = NoGuardian
       /\ UNCHANGED <<opencode, opencode_backup, guardian_backup>>

-----------------------------------------------------------------------------
Install ==
    \/ StartInstall
    \/ StartMcpOnly
    \/ StartUninstall
    \/ UseWizard
    \/ ConfirmReview
    \/ Cancel
    \/ run_setup_wizard
    \/ read_opencode_config
    \/ RefuseOpencode
    \/ LeaveOpencode
    \/ BackUpOpencode
    \/ write_opencode_config
    \/ read_guardian_config_document
    \/ RefuseGuardian
    \/ BackUpGuardian
    \/ write_guardian_config_document

Failure ==
    \/ Interrupt
    \/ CutOpencodeBackup
    \/ CutOpencodeWrite
    \/ CutGuardianBackup
    \/ CutGuardianWrite

Next == Install \/ Failure \/ EditOpencode \/ EditGuardian

Spec == Init /\ [][Next]_vars

-----------------------------------------------------------------------------
TypeOK ==
    /\ WizardTypeOK
    /\ stage # "wizard" => step_index = 1
    /\ {opencode, opencode_backup, opencode_root} \subseteq OpencodeFiles
    /\ {guardian, guardian_backup, guardian_root} \subseteq GuardianFiles
    /\ stage \in {"off", "wizard", "prompts", "opencode", "opencode_backup",
                  "opencode_write", "guardian", "guardian_backup",
                  "guardian_write"}
    /\ command \in {"install", "mcp_only", "uninstall"}
    /\ same_uid_only \in BOOLEAN
    /\ undisturbed \in BOOLEAN
    /\ installed \in BOOLEAN
    /\ latest \in [Files -> EditNumbers]
    /\ exposed \subseteq Files
    /\ dialogs \in 0..MaxDialogs
    /\ edits \in EditNumbers
    /\ faults \in 0..MaxFaults

(* An enabled guard that the wizard shows for review has a memory cap that  *)
(* the machine can have, at least one sample, and a cooldown no shorter     *)
(* than its grace, whatever way back and forth led there (confirm and       *)
(* toggle_enabled, setup_tui.rs).                                           *)
ReviewSettled ==
    stage = "wizard" /\ current_step = "review" /\ answers.enabled =>
        \A f \in Fields : Settled(f)

(* What holds of a file and of its backup at each step, as long as the last *)
(* edit of the file is not exposed.                                         *)
OwnerPartKept(f, file, backup, root, reading, writing) ==
    f \in exposed \/ latest[f] = 0 \/
        /\ latest[f] \in {file.edit, backup.edit}
        /\ file.state # "broken" => latest[f] = file.edit
        /\ stage \in {reading, writing} =>
               /\ latest[f] = root.edit
               /\ file.state # "broken"
        /\ stage = writing => latest[f] = backup.edit

(* The answers to the wizard are settled up to its current step, and of the *)
(* owner's part of either file the last edit is carried over from the file  *)
(* to the document and from the backup to the file, also where a command    *)
(* is cut short (SetupWizardState and install_with_answers).                *)
SetupInv ==
    /\ stage = "wizard" => AnswersSettled
    /\ OwnerPartKept("opencode", opencode, opencode_backup, opencode_root,
                     "opencode_backup", "opencode_write")
    /\ OwnerPartKept("guardian", guardian, guardian_backup, guardian_root,
                     "guardian_backup", "guardian_write")

(* The inductive invariant, with the types it needs.                        *)
SetupIInv == TypeOK /\ SetupInv

(* The owner's part of opencode.json is never lost: unless it was edited    *)
(* between a command's reading and its writing, its last edit is in the     *)
(* file or in the backup, whenever commands are run, fail or are killed     *)
(* (write_opencode_config_if_changed, setup.rs).                            *)
OpencodeRecoverable ==
    \/ latest["opencode"] \in {0, opencode.edit, opencode_backup.edit}
    \/ "opencode" \in exposed

(* The same of config.toml, unless a write of it was cut short so that an   *)
(* empty file is left, which the next install takes for a document          *)
(* (install_with_answers, setup.rs).                                        *)
GuardianRecoverable ==
    \/ latest["guardian"] \in {0, guardian.edit, guardian_backup.edit}
    \/ "guardian" \in exposed

(* Neither file of the owner is lost.                                       *)
OwnerRecoverable == OpencodeRecoverable /\ GuardianRecoverable

(* Once an install is done, further ones without questions change neither   *)
(* file and make no backup of opencode.json: what is written is what is     *)
(* read as the default (bytes_to_display_gb, gib_to_bytes and               *)
(* write_opencode_config_if_changed, setup.rs).                             *)
Idempotent ==
    [][installed /\ installed'
       => UNCHANGED <<opencode, opencode_backup, guardian>>]_vars

(* No command changes the uid setting of a guard section, for which nobody  *)
(* is asked, unless the owner edits the file under it                       *)
(* (default_same_uid_only, setup.rs).                                       *)
UidKept ==
    [][/\ undisturbed /\ undisturbed'
       /\ guardian.guard.present /\ guardian'.guard.present
       => guardian'.guard.same_uid_only = guardian.guard.same_uid_only]_vars
=============================================================================
