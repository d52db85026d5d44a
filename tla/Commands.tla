------------------------------- MODULE Commands -------------------------------
(***************************************************************************)
(* The commands of the CLI (cli.rs, main.rs) next to each other, and what  *)
(* they share: the snapshot of the desktop (Desktop), the socket of the    *)
(* daemon (EventSocket), the evidence (RunOnce), and the configuration     *)
(* (ConfigFile), which setup and its owner write meanwhile.                *)
(***************************************************************************)
EXTENDS ConfigFile, Desktop, EventSocket, RunOnce

CONSTANTS
    DefaultPath,     \* default_notification_session_state_path
    ConfiguredPath,  \* notifications.session_state_path
    Edits,           \* the documents that the owner may write or have written
    Recommended,     \* the guard that setup recommends on this machine
    Samples,         \* the rust-analyzers: memory, age and owner of each
    MaxCommands,     \* bound: commands started
    MaxNotices,      \* bound: notices of daemons
    MaxChanges,      \* bound: steps of the world, but for the end of setup
    MaxFaults        \* bound: commands that are killed

ASSUME CommandsAssumption ==
    /\ Callers = Runners
    /\ Senders = Runners
    /\ {DefaultPath, ConfiguredPath} \subseteq Paths
    /\ \A document \in Edits : InOrder(document)
    /\ {MaxCommands, MaxNotices, MaxChanges, MaxFaults} \subseteq Nat

VARIABLES
    todo,       \* what each command has still to do
    settings,   \* what it has loaded of the configuration
    victims,    \* rust-analyzers that a one-shot guard is about to end
    config,     \* config.toml
    installing, \* the document that setup is about to write
    running,    \* the rust-analyzers that run
    \* history
    meant,      \* what load_config loads, or would load, for the one-shot guard
    ended,      \* rust-analyzers that it has ended, with what was meant
    installed,  \* was setup the last to write config.toml, to its end?
    failed,     \* did a one-shot guard refuse what setup had written?
    proven,     \* evidence that was written to each file and not removed
    overlaid,   \* evidence files that several were writing at once
    \* bounds
    started, notices, changes, faults

run_vars     == <<todo, settings, victims, meant>>
config_vars  == <<config, installing, installed, failed>>
machine_vars == <<running, ended>>
proof_vars   == <<proven, overlaid>>
bounds       == <<started, notices, changes, faults>>

vars == <<desktop_vars, socket_vars, evidence_vars, run_vars, config_vars,
          machine_vars, proof_vars, bounds>>

(* run and try_ra_guard_fast_path: what each command does, in order.        *)
(* `orphans` stands for mcp and setup as well; ra_guard_cli is ra-guard     *)
(* with its arguments in an order that the fast path does not know.         *)
Program ==
    [status       |-> <<"refresh", "load", "refresh_configured", "exit">>,
     run_once     |-> <<"refresh", "load", "refresh_configured", "run_once", "exit">>,
     daemon       |-> <<"refresh", "load", "refresh_configured", "daemon", "exit">>,
     notify_smoke |-> <<"refresh", "refresh", "notify", "exit">>,
     orphans      |-> <<"refresh", "exit">>,
     ra_guard     |-> <<"guard", "collect", "end", "exit">>,
     ra_guard_cli |-> <<"refresh", "load", "refresh_configured", "collect",
                        "enforce", "exit">>]

Init ==
    /\ DesktopInit
    /\ SocketInit
    /\ EvidenceInit
    /\ todo = [r \in Runners |-> <<>>]
    /\ settings = [r \in Runners |-> Refused]
    /\ victims = [r \in Runners |-> {}]
    /\ config \in Edits \cup {NoFile}
    /\ installing = NoFile
    /\ running = DOMAIN Samples
    /\ meant = [r \in Runners |-> Refused]
    /\ ended = {}
    /\ installed = FALSE
    /\ failed = FALSE
    /\ proven = [n \in Names |-> {}]
    /\ overlaid = {}
    /\ started = 0
    /\ notices = 0
    /\ changes = 0
    /\ faults = 0

Doing(r, task) == todo[r] # <<>> /\ Head(todo[r]) = task

Proceed(r) == todo' = [todo EXCEPT ![r] = Tail(@)]

(* An error that ends the command. *)
Abort(r) == todo' = [todo EXCEPT ![r] = <<"exit">>]

Start(r, command) ==
    /\ todo[r] = <<>>
    /\ started < MaxCommands
    /\ started' = started + 1
    /\ todo' = [todo EXCEPT ![r] = Program[command]]
    /\ \E d \in open \cup {NoDesktop} : Enter(r, d)
    /\ UNCHANGED <<socket_vars, evidence_vars, settings, victims, meant,
                   config_vars, machine_vars, proof_vars,
                   notices, changes, faults>>

Gone(r) ==
    /\ todo' = [todo EXCEPT ![r] = <<>>]
    /\ settings' = [settings EXCEPT ![r] = Refused]
    /\ victims' = [victims EXCEPT ![r] = {}]
    /\ meant' = [meant EXCEPT ![r] = Refused]
    /\ Leave(r)

Exit(r) ==
    /\ Doing(r, "exit")
    /\ Gone(r)
    /\ UNCHANGED <<socket_vars, evidence_vars, config_vars, machine_vars,
                   proof_vars, bounds>>

-----------------------------------------------------------------------------
(* What every command but the fast path of ra-guard begins with: where it   *)
(* comes from is saved for the notices of others, and errors are ignored.   *)

Refreshing(r, p) ==
    \/ Doing(r, "refresh") /\ p = DefaultPath
    \/ Doing(r, "refresh_configured") /\ p = ConfiguredPath

NothingToCapture(r, p) ==
    /\ Refreshing(r, p)
    /\ env[r] = NoDesktop
    /\ Proceed(r)
    /\ UNCHANGED <<desktop_vars, socket_vars, evidence_vars, settings, victims,
                   meant, config_vars, machine_vars, proof_vars, bounds>>

BeginRefresh(r, p) ==
    /\ Refreshing(r, p)
    /\ p \notin refreshing[r]
    /\ CreateSnapshot(r, p)
    /\ UNCHANGED <<socket_vars, evidence_vars, run_vars, config_vars,
                   machine_vars, proof_vars, bounds>>

EndRefresh(r, p) ==
    /\ Refreshing(r, p)
    /\ WriteSnapshot(r, p)
    /\ Proceed(r)
    /\ UNCHANGED <<socket_vars, evidence_vars, settings, victims, meant,
                   config_vars, machine_vars, proof_vars, bounds>>

LoadConfig(r) ==
    /\ Doing(r, "load")
    /\ LET loaded == load_config(config) IN
       /\ settings' = [settings EXCEPT ![r] = loaded]
       /\ meant' = [meant EXCEPT ![r] = loaded]
       /\ IF loaded.ok THEN Proceed(r) ELSE Abort(r)
    /\ UNCHANGED <<desktop_vars, socket_vars, evidence_vars, victims,
                   config_vars, machine_vars, proof_vars, bounds>>

-----------------------------------------------------------------------------
(* run-once: the configuration's mode, with default sampling and budgets. *)

run_once_config(r) ==
    [mode |-> settings[r].mode, signal_quorum |-> 2,
     breach_required_samples |-> 3, breach_window_samples |-> 5,
     per_target_per_hour |-> 1, per_day |-> 3]

(* Without a proposal, and after the last step of its evidence, it is done. *)
ProceedIfIdle(r) ==
    IF writer'[r] = Idle THEN Proceed(r) ELSE UNCHANGED todo

EvidenceStep(r) ==
    /\ ProceedIfIdle(r)
    /\ UNCHANGED <<desktop_vars, socket_vars, settings, victims, meant,
                   config_vars, machine_vars, bounds>>

RunOnce(r) ==
    /\ Doing(r, "run_once")
    /\ \E now \in Seconds : BeginRunOnce(r, run_once_config(r), now)
    /\ EvidenceStep(r)
    /\ UNCHANGED proof_vars

WritersOf(n) == {r \in Runners : writer[r].stage = "write" /\ NameOf(r) = n}

(* A writer that meets another one with other evidence disturbs the file. *)
OpensEvidence(r) ==
    /\ Doing(r, "run_once")
    /\ OpenEvidence(r)
    /\ overlaid' = IF \E s \in WritersOf(NameOf(r)) :
                         writer[s].evidence # writer[r].evidence
                   THEN overlaid \cup {NameOf(r)} ELSE overlaid \ {NameOf(r)}
    /\ EvidenceStep(r)
    /\ UNCHANGED proven

WritesEvidence(r) ==
    /\ Doing(r, "run_once")
    /\ WriteEvidence(r)
    /\ proven' = [proven EXCEPT ![NameOf(r)] = @ \cup {writer[r].evidence}]
    /\ EvidenceStep(r)
    /\ UNCHANGED overlaid

(* As does one that gives up before it has written. *)
GivenUp(r) ==
    IF writer[r].stage = "write" THEN overlaid \cup {NameOf(r)} ELSE overlaid

FallsBack(r) ==
    /\ Doing(r, "run_once")
    /\ FallBack(r)
    /\ overlaid' = GivenUp(r)
    /\ EvidenceStep(r)
    /\ UNCHANGED proven

PersistsElsewhere(r) ==
    /\ Doing(r, "run_once")
    /\ CreateDir(r) \/ WriteUnlinked(r)
    /\ EvidenceStep(r)
    /\ UNCHANGED proof_vars

-----------------------------------------------------------------------------
(* daemon: it binds after its scan of the storage, and sends a notice of    *)
(* each process that it has ended; the rest of it is module CompletionDaemon.*)

DaemonStep(r) ==
    UNCHANGED <<desktop_vars, evidence_vars, settings, victims, meant,
                config_vars, machine_vars, proof_vars, bounds>>

BeginServing(r) ==
    /\ Doing(r, "daemon")
    /\ BeginBind(r)
    /\ DaemonStep(r)
    /\ UNCHANGED todo

BindsSocket(r) ==
    /\ BindStep(r)
    /\ DaemonStep(r)
    /\ UNCHANGED todo

FailsToBind(r) ==
    /\ BindError(r)
    /\ Abort(r)
    /\ DaemonStep(r)

(* An error of its loop ends it, and drops the listener. *)
DaemonEnds(r) ==
    /\ notice[r] = NoNotice
    /\ Close(r)
    /\ Abort(r)
    /\ DaemonStep(r)

NotifyTerminated(r) ==
    /\ binding[r] = "serving"
    /\ notices < MaxNotices
    /\ notices' = notices + 1
    /\ BeginNotice(r, ConfiguredPath)
    /\ UNCHANGED <<socket_vars, evidence_vars, run_vars, config_vars,
                   machine_vars, proof_vars, started, changes, faults>>

(* send_smoke_notification *)
NotifySmoke(r) ==
    /\ Doing(r, "notify")
    /\ BeginNotice(r, DefaultPath)
    /\ UNCHANGED <<socket_vars, evidence_vars, run_vars, config_vars,
                   machine_vars, proof_vars, bounds>>

(* A daemon goes on whether its notice was shown or lost. *)
Notify(r) ==
    /\ NoticeStep(r)
    /\ IF Doing(r, "notify") /\ notice'[r] = NoNotice THEN Proceed(r)
       ELSE UNCHANGED todo
    /\ UNCHANGED <<socket_vars, evidence_vars, settings, victims, meant,
                   config_vars, machine_vars, proof_vars, bounds>>

-----------------------------------------------------------------------------
(* ra-guard, by its helper cancerbroker-ra-guard *)

GuardLoads(r) ==
    /\ Doing(r, "guard")
    /\ LET loaded == parse_ra_guard_config(config) IN
       /\ settings' = [settings EXCEPT ![r] = loaded]
       /\ IF loaded.ok THEN Proceed(r) ELSE Abort(r)
       /\ failed' = (failed \/ (installed /\ ~ loaded.ok))
    /\ meant' = [meant EXCEPT ![r] = load_config(config)]
    /\ UNCHANGED <<desktop_vars, socket_vars, evidence_vars, victims, config,
                   installing, installed, machine_vars, proof_vars, bounds>>

(* run_ra_guard_fast_path: a command that cannot execute its helper runs    *)
(* the guard by itself, with the configuration as the others read it.       *)
GuardInline(r) ==
    /\ Doing(r, "guard")
    /\ LET loaded == load_config(config) IN
       /\ settings' = [settings EXCEPT ![r] = loaded]
       /\ meant' = [meant EXCEPT ![r] = loaded]
       /\ IF loaded.ok
          THEN todo' = [todo EXCEPT ![r] = <<"collect", "enforce", "exit">>]
          ELSE Abort(r)
    /\ UNCHANGED <<desktop_vars, socket_vars, evidence_vars, victims,
                   config_vars, machine_vars, proof_vars, bounds>>

GuardCollects(r) ==
    /\ Doing(r, "collect")
    /\ victims' = [victims EXCEPT ![r] =
                      IF settings[r].mode = "enforce"
                      THEN running \cap one_shot_candidates(settings[r].guard,
                                                            Samples)
                      ELSE {}]
    /\ Proceed(r)
    /\ UNCHANGED <<desktop_vars, socket_vars, evidence_vars, settings, meant,
                   config_vars, machine_vars, proof_vars, bounds>>

(* remediate_process: who has exited or may not be signalled is passed over.*)
Ending(r) == Doing(r, "end") \/ Doing(r, "enforce")

GuardEnds(r, i) ==
    /\ Ending(r)
    /\ i \in victims[r]
    /\ Doing(r, "enforce") => i \notin running \/ Samples[i].own
    /\ victims' = [victims EXCEPT ![r] = @ \ {i}]
    /\ IF i \in running /\ Samples[i].own
       THEN /\ running' = running \ {i}
            /\ ended' = ended \cup {[who |-> i, meant |-> meant[r]]}
       ELSE UNCHANGED machine_vars
    /\ UNCHANGED <<desktop_vars, socket_vars, evidence_vars, todo, settings,
                   meant, config_vars, proof_vars, bounds>>

(* Without the helper, one that exits at the wrong moment, or that another  *)
(* user owns, is an error.                                                  *)
GuardFails(r) ==
    /\ Doing(r, "enforce")
    /\ \E i \in victims[r] : i \notin running \/ ~ Samples[i].own
    /\ Abort(r)
    /\ UNCHANGED <<desktop_vars, socket_vars, evidence_vars, settings, victims,
                   meant, config_vars, machine_vars, proof_vars, bounds>>

GuardDone(r) ==
    /\ Ending(r)
    /\ victims[r] = {}
    /\ Proceed(r)
    /\ UNCHANGED <<desktop_vars, socket_vars, evidence_vars, settings, victims,
                   meant, config_vars, machine_vars, proof_vars, bounds>>

-----------------------------------------------------------------------------
(* The world of the commands.  Any of them may be killed. *)

Crash(r) ==
    /\ todo[r] # <<>>
    /\ faults < MaxFaults
    /\ faults' = faults + 1
    /\ Gone(r)
    /\ Abandon(r)
    /\ writer' = [writer EXCEPT ![r] = Idle]
    /\ overlaid' = GivenUp(r)
    /\ UNCHANGED <<has_dir, files, config_vars, machine_vars, proven,
                   started, notices, changes>>

Change ==
    /\ changes < MaxChanges
    /\ changes' = changes + 1
    /\ UNCHANGED <<socket_vars, run_vars, started, notices, faults>>

DesktopChanges ==
    /\ Change
    /\ \E d \in Desktops : Toggle(d)
    /\ UNCHANGED <<evidence_vars, config_vars, machine_vars, proof_vars>>

EvidenceRemoved ==
    /\ Change
    /\ \/ \E n \in Names : /\ RemoveEvidence(n)
                          /\ proven' = [proven EXCEPT ![n] = {}]
                          /\ overlaid' = overlaid \ {n}
       \/ RemoveDir /\ UNCHANGED proof_vars
    /\ UNCHANGED <<desktop_vars, config_vars, machine_vars>>

OwnerEdits ==
    /\ Change
    /\ config' \in Edits
    /\ installed' = FALSE
    /\ UNCHANGED <<desktop_vars, evidence_vars, installing, failed,
                   machine_vars, proof_vars>>

(* `setup --non-interactive` empties the file to write it (module Setup). *)
SetupBegins ==
    /\ Change
    /\ installing = NoFile
    /\ config.state = "absent" \/ load_config(config).ok
    /\ installing' = installed_document(config, Recommended)
    /\ config' = EmptyFile
    /\ installed' = FALSE
    /\ UNCHANGED <<desktop_vars, evidence_vars, failed, machine_vars,
                   proof_vars>>

SetupEnds ==
    /\ installing # NoFile
    /\ config' = installing
    /\ installing' = NoFile
    /\ installed' = TRUE
    /\ UNCHANGED <<desktop_vars, socket_vars, evidence_vars, run_vars, failed,
                   machine_vars, proof_vars, bounds>>

AnalyzerExits ==
    /\ Change
    /\ \E i \in running : running' = running \ {i}
    /\ UNCHANGED <<desktop_vars, evidence_vars, config_vars, ended, proof_vars>>

CommandStep(r) ==
    \/ \E command \in DOMAIN Program : Start(r, command)
    \/ Exit(r)
    \/ \E p \in Paths :
          NothingToCapture(r, p) \/ BeginRefresh(r, p) \/ EndRefresh(r, p)
    \/ LoadConfig(r)
    \/ RunOnce(r) \/ OpensEvidence(r) \/ WritesEvidence(r) \/ FallsBack(r)
    \/ PersistsElsewhere(r)
    \/ BeginServing(r) \/ BindsSocket(r) \/ FailsToBind(r) \/ DaemonEnds(r)
    \/ NotifyTerminated(r) \/ NotifySmoke(r) \/ Notify(r)
    \/ GuardLoads(r) \/ GuardInline(r) \/ GuardCollects(r)
    \/ GuardFails(r) \/ GuardDone(r)
    \/ \E i \in DOMAIN Samples : GuardEnds(r, i)
    \/ Crash(r)

WorldStep ==
    \/ DesktopChanges \/ EvidenceRemoved \/ OwnerEdits
    \/ SetupBegins \/ SetupEnds \/ AnalyzerExits

Next == WorldStep \/ \E r \in Runners : CommandStep(r)

Spec == Init /\ [][Next]_vars

-----------------------------------------------------------------------------
(* evidence.rs: evidence that was written stays readable until somebody     *)
(* removes it, or other evidence replaces it as a whole: only two commands  *)
(* of the same second that write at once, with different decisions, or one  *)
(* that is cut short, can spoil it.                                         *)
EvidenceStands ==
    \A n \in Names :
        \/ proven[n] = {}
        \/ n \in overlaid
        \/ WritersOf(n) # {}
        \/ files[n].state = "whole" /\ files[n].text \in proven[n]

(* Why: whoever writes a file that is not spoilt writes the same as all who *)
(* do, from its beginning.                                                  *)
WriterTells(r) ==
    \/ writer[r] = Idle
    \/ /\ \E stage \in {"create_dir", "open", "write", "unlinked"} :
              writer[r] = [stage |-> stage, evidence |-> writer[r].evidence]
       /\ NameOf(r) \in Names
       /\ writer[r].evidence.rationale \in Rationales

WritersAgree(n) ==
    \/ n \in overlaid
    \/ \A r \in WritersOf(n) :
          /\ files[n] \in {Empty, Whole(writer[r].evidence)}
          /\ \A s \in WritersOf(n) : writer[s].evidence = writer[r].evidence

EvidenceInv ==
    /\ DOMAIN files = Names
    /\ DOMAIN proven = Names
    /\ DOMAIN writer = Callers
    /\ \A r \in Callers : WriterTells(r)
    /\ \A n \in Names : WritersAgree(n)
    /\ EvidenceStands

(* cancerbroker-ra-guard.rs: the helper, which reads the lines of the file  *)
(* by itself, ends a rust-analyzer only if the configuration as all other   *)
(* commands read it says so, whatever is in the file around its section and *)
(* however setup has rewritten it.                                          *)
OneShotMeant ==
    \A e \in ended :
        e.meant.ok =>
            /\ e.meant.mode = "enforce"
            /\ e.who \in one_shot_candidates(e.meant.guard, Samples)

(* README.md gives `setup`, `status` and then `ra-guard` as "the usual      *)
(* verification path": the guard reads the configuration that setup has     *)
(* written.                                                                 *)
InstalledAccepted == ~ failed
=============================================================================
