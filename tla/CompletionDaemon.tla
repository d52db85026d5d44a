-------------------------- MODULE CompletionDaemon --------------------------
(***************************************************************************)
(* The daemon's completion cleanup: run_daemon_loop (daemon.rs) drives the *)
(* AutoCleanupEngine (autocleanup.rs) through dispatch.rs, resolution.rs,  *)
(* remediation.rs and cleanup.rs, and keeps the dedupe store in a file     *)
(* (completion.rs).  The daemon is one thread; what interleaves with its   *)
(* steps is the world it cleans up: files are written and deleted,         *)
(* processes start and exit, the clock moves, and the daemon may die.      *)
(***************************************************************************)
EXTENDS Naturals, Sequences

CONSTANTS
    Sessions,             \* session ids
    NoSession,            \* an absent session_id, or one that no text holds
    ExternalEvents,       \* completion events that clients may send
    JoinedText,           \* the text of an event's id, session and task
    EnabledSources,       \* completion.enabled_sources
    Artifacts,            \* paths of artifact files
    ArtifactSessions,     \* the session ids in the text of each path
    ArtifactRoot,         \* the index of the allowlist root above each path
    MissingRoots,         \* indices of the allowlist roots that do not exist
    Processes,            \* process instances
    ProcessSessions,      \* the session ids in each process's command
    ProcessGroup,         \* the group of each process, or NoGroup
    NoGroup,
    Owned,                \* processes that validate_process_identity allows
    DedupeTtl,            \* completion.dedupe_ttl_secs
    Grace,                \* sampling.active_session_grace_minutes, in ticks
    SnapshotLags,         \* may the storage snapshot miss recent changes?
    MaxBatch,             \* max_events_per_batch
    StartTime,            \* the clock when the daemon is first started
    MaxTime,              \* bound: the clock stops here
    QuietTime,            \* bound: the world is still from here on
    MaxFaults             \* bound: crashes and failing calls

inferred_event(s) ==
    [event_id |-> <<"inferred", s>>, session_id |-> s, task_id |-> NoSession,
     tool_name |-> "none", source |-> "inferred"]

Events == ExternalEvents \cup {inferred_event(s) : s \in Sessions}

(* The fields are joined by colons that they may themselves contain, so     *)
(* JoinedText need not tell all events apart; the source at the end does.   *)
dedupe_key(e) ==
    <<JoinedText[<<e.event_id, e.session_id, e.task_id>>], e.source>>

Keys == {dedupe_key(e) : e \in Events}

Groups == {ProcessGroup[p] : p \in Processes} \ {NoGroup}

Members(g) == {p \in Processes : ProcessGroup[p] = g}

Roots == {ArtifactRoot[a] : a \in Artifacts} \cup MissingRoots

ASSUME TimeAssumption ==
    /\ {DedupeTtl, Grace, StartTime} \subseteq Nat
    /\ {MaxTime, QuietTime, MaxFaults, MaxBatch} \subseteq Nat
    /\ DedupeTtl < StartTime

(* parse_completion_event never answers an inferred event. *)
ASSUME EventAssumption == \A e \in ExternalEvents : e.source # "inferred"

ASSUME WorldAssumption ==
    /\ NoSession \notin Sessions
    /\ ArtifactSessions \in [Artifacts -> SUBSET Sessions]
    /\ ArtifactRoot \in [Artifacts -> Nat]
    /\ MissingRoots \subseteq Nat
    /\ ProcessSessions \in [Processes -> SUBSET Sessions]
    /\ Owned \subseteq Processes
    /\ SnapshotLags \in BOOLEAN

VARIABLES
    \* the world
    now,        \* the system clock
    files,      \* the artifact files that exist
    mtime,      \* their modification times
    alive,      \* the processes that run
    state_file, \* the persisted dedupe store
    \* the daemon's memory
    pc,         \* where its loop stands; "down" when it does not run
    store,      \* the dedupe store
    batch,      \* received events still to be processed in this cycle
    inferred,   \* sessions still to be reconciled in this cycle
    inventory,  \* processes in this cycle's resolver
    snapshot,   \* artifact files in the storage snapshot
    cycle_now,  \* the clock read before the batch is processed
    job,        \* the event being handled, and what is left to do for it
    \* bound
    faults      \* crashes and failing calls so far

world  == <<now, files, mtime, alive>>
memory == <<pc, store, batch, inferred, inventory, snapshot, cycle_now, job>>
vars   == <<world, state_file, memory, faults>>

Completion == INSTANCE CompletionStore

NoJob == [event |-> inferred_event(NoSession), at |-> 0, resume |-> "batch",
          processes |-> {}, pgids |-> {}, artifacts |-> {}, removing |-> {},
          in_grace |-> FALSE]

Init ==
    /\ now = StartTime
    /\ files = {}
    /\ mtime = [a \in Artifacts |-> 0]
    /\ alive = {}
    /\ state_file = Completion!NoStateFile
    /\ pc = "down"
    /\ store = Completion!EmptyStore
    /\ batch = <<>>
    /\ inferred = {}
    /\ inventory = {}
    /\ snapshot = {}
    /\ cycle_now = 0
    /\ job = NoJob
    /\ faults = 0

-----------------------------------------------------------------------------
(* Leaving the loop, by a crash or by an error that `?` propagates out of   *)
(* run_daemon_loop, loses the daemon's memory and persists nothing.         *)

Exit ==
    /\ pc' = "down"
    /\ store' = Completion!EmptyStore
    /\ batch' = <<>>
    /\ inferred' = {}
    /\ inventory' = {}
    /\ snapshot' = {}
    /\ cycle_now' = 0
    /\ job' = NoJob

Fault ==
    /\ faults < MaxFaults
    /\ faults' = faults + 1

(* run_daemon_loop: scan the storage roots, load the state, bind. *)
Start ==
    /\ pc = "down"
    /\ Completion!loadable(state_file)
    /\ pc' = "receive"
    /\ store' = Completion!load_completion_state(state_file)
    /\ snapshot' = files
    /\ UNCHANGED <<world, state_file, batch, inferred, inventory, cycle_now,
                   job, faults>>

(* accept_stream: no client connects within idle_timeout. *)
IdleTimeout ==
    /\ pc = "receive"
    /\ pc' = "collect"
    /\ UNCHANGED <<world, state_file, store, batch, inferred, inventory,
                   snapshot, cycle_now, job, faults>>

(* From here on the daemon waits for its client, without a timeout... *)
Accept ==
    /\ pc = "receive"
    /\ pc' = "read"
    /\ UNCHANGED <<world, state_file, store, batch, inferred, inventory,
                   snapshot, cycle_now, job, faults>>

(* ...until it has sent max_events_per_batch events or hangs up. *)
ReceiveBatch(received) ==
    /\ pc = "read"
    /\ pc' = "collect"
    /\ batch' = received
    /\ UNCHANGED <<world, state_file, store, inferred, inventory, snapshot,
                   cycle_now, job, faults>>

(* One malformed line is an error of the whole batch. *)
ReceiveMalformed ==
    /\ pc = "read"
    /\ Fault
    /\ Exit
    /\ UNCHANGED <<world, state_file>>

(* What the storage snapshot may be after a refresh: the files as they are  *)
(* or, if change notices are late (module StorageCache), any that were ever *)
(* written.                                                                 *)
Refreshed(S) ==
    IF SnapshotLags THEN \A a \in S : mtime[a] > 0 ELSE S = files

Collect ==
    /\ pc = "collect"
    /\ pc' = "batch"
    /\ inventory' = alive
    /\ \E S \in SUBSET Artifacts : Refreshed(S) /\ snapshot' = S
    /\ cycle_now' = now
    /\ UNCHANGED <<world, state_file, store, batch, inferred, job, faults>>

-----------------------------------------------------------------------------
(* CandidateResolver::resolve.  NoSession is in no command and no path.     *)

accepts_completion_event(e) ==
    e.source = "tool_part_completed" => e.tool_name = "task"

resolved_processes(e) ==
    {p \in inventory : accepts_completion_event(e)
                       /\ e.session_id \in ProcessSessions[p]}

resolved_artifacts(e) ==
    {a \in snapshot : accepts_completion_event(e)
                      /\ e.session_id \in ArtifactSessions[a]}

immediate_cleanup_eligible(e) ==
    resolved_processes(e) \cup resolved_artifacts(e) # {}

(* CleanupDispatcher::dispatch: what becomes of an event. *)
decision(e, at) ==
    IF Completion!IsDuplicate(store, dedupe_key(e), at) THEN "skip"
    ELSE IF immediate_cleanup_eligible(e) THEN "immediate" ELSE "deferred"

(* handle_completion_event up to execute_cleanup.  An event that is skipped *)
(* or deferred is done with; a deferred one stays pending.                  *)
Dispatch(e, at, resume) ==
    /\ store' = Completion!begin(store, dedupe_key(e), at)
    /\ IF decision(e, at) = "immediate"
       THEN /\ pc' = "processes"
            /\ job' = [NoJob EXCEPT !.event = e, !.at = at, !.resume = resume,
                                    !.processes = resolved_processes(e),
                                    !.artifacts = resolved_artifacts(e)]
       ELSE /\ pc' = resume
            /\ UNCHANGED job

(* process_event_batch *)
ProcessEvent ==
    /\ pc = "batch"
    /\ batch # <<>>
    /\ batch' = Tail(batch)
    /\ IF Head(batch).source \in EnabledSources
       THEN Dispatch(Head(batch), now, "batch")
       ELSE UNCHANGED <<pc, store, job>>
    /\ UNCHANGED <<world, state_file, inferred, inventory, snapshot, cycle_now,
                   faults>>

(* Every session with a file in the snapshot that still exists, whether the *)
(* session has ended or not.                                                *)
collect_session_ids == UNION {ArtifactSessions[a] : a \in snapshot \cap files}

(* run_reconciliation_cycle *)
InferEvents ==
    /\ pc = "batch"
    /\ batch = <<>>
    /\ pc' = "reconcile"
    /\ inferred' = IF "inferred" \in EnabledSources
                   THEN collect_session_ids ELSE {}
    /\ UNCHANGED <<world, state_file, store, batch, inventory, snapshot,
                   cycle_now, job, faults>>

(* run_reconciliation; the order of the sessions is left open. *)
Reconcile(s) ==
    /\ pc = "reconcile"
    /\ s \in inferred
    /\ inferred' = inferred \ {s}
    /\ Dispatch(inferred_event(s), cycle_now, "reconcile")
    /\ UNCHANGED <<world, state_file, batch, inventory, snapshot, cycle_now,
                   faults>>

-----------------------------------------------------------------------------
(* remediate_processes: each process, then each group of those that were    *)
(* not rejected, once.  What a remediation does between its signals is the  *)
(* subject of module Remediation; here it succeeds or fails.                *)

RemediateProcess(p) ==
    /\ pc = "processes"
    /\ p \in job.processes
    /\ alive' = IF p \in Owned THEN alive \ {p} ELSE alive
    /\ job' = [job EXCEPT !.processes = @ \ {p},
                          !.pgids = IF p \in Owned /\ ProcessGroup[p] # NoGroup
                                    THEN @ \cup {ProcessGroup[p]} ELSE @]
    /\ UNCHANGED <<now, files, mtime, state_file, pc, store, batch, inferred,
                   inventory, snapshot, cycle_now, faults>>

(* A signal to a group reaches its members that are not owned or not.       *)
RemediateGroup(g) ==
    /\ pc = "processes"
    /\ job.processes = {}
    /\ g \in job.pgids
    /\ \E spared \in SUBSET (Members(g) \ Owned) :
          alive' = alive \ (Members(g) \ spared)
    /\ job' = [job EXCEPT !.pgids = @ \ {g}]
    /\ UNCHANGED <<now, files, mtime, state_file, pc, store, batch, inferred,
                   inventory, snapshot, cycle_now, faults>>

(* A signal that cannot be sent is an error of the whole cycle. *)
RemediationFails ==
    /\ pc = "processes"
    /\ job.processes \cap alive \cap Owned # {} \/ job.pgids # {}
    /\ Fault
    /\ Exit
    /\ UNCHANGED <<world, state_file>>

ProcessesDone ==
    /\ pc = "processes"
    /\ job.processes = {}
    /\ job.pgids = {}
    /\ pc' = "artifacts"
    /\ UNCHANGED <<world, state_file, store, batch, inferred, inventory,
                   snapshot, cycle_now, job, faults>>

-----------------------------------------------------------------------------
(* remove_stale_allowlisted_artifacts: the checks of a file, then its       *)
(* removal, with the world free to act in between.                          *)

(* allowlist_contains_path canonicalizes the roots in order and fails at    *)
(* the first that does not exist; the caller takes a failure for "outside". *)
is_path_allowlisted(a) ==
    \A r \in Roots : r <= ArtifactRoot[a] => r \notin MissingRoots

(* Faulty: every file is stale. *)
NeverWithinGrace(a) == FALSE

is_within_active_session_grace(a) ==
    Completion!SaturatingSub(job.at, mtime[a]) < Grace

CheckArtifact(a) ==
    /\ pc = "artifacts"
    /\ a \in job.artifacts
    /\ IF a \notin files \/ ~ is_path_allowlisted(a)
       THEN /\ job' = [job EXCEPT !.artifacts = @ \ {a}]
            /\ UNCHANGED pc
       ELSE IF is_within_active_session_grace(a)
       THEN /\ job' = [job EXCEPT !.artifacts = @ \ {a}, !.in_grace = TRUE]
            /\ UNCHANGED pc
       ELSE /\ job' = [job EXCEPT !.artifacts = @ \ {a}, !.removing = {a}]
            /\ pc' = "remove"
    /\ UNCHANGED <<world, state_file, store, batch, inferred, inventory,
                   snapshot, cycle_now, faults>>

(* The file goes away between the checks of its existence and of its age:   *)
(* the latter is an error of the whole cycle.                               *)
VanishBeforeStat(a) ==
    /\ pc = "artifacts"
    /\ a \in job.artifacts
    /\ a \in files
    /\ is_path_allowlisted(a)
    /\ now < QuietTime
    /\ files' = files \ {a}
    /\ Exit
    /\ UNCHANGED <<now, mtime, alive, state_file, faults>>

RemoveArtifact(a) ==
    /\ pc = "remove"
    /\ a \in job.removing
    /\ a \in files
    /\ files' = files \ {a}
    /\ job' = [job EXCEPT !.removing = {}]
    /\ pc' = "artifacts"
    /\ UNCHANGED <<now, mtime, alive, state_file, store, batch, inferred,
                   inventory, snapshot, cycle_now, faults>>

(* The file went away after it was checked: remove_file fails. *)
RemoveFails ==
    /\ pc = "remove"
    /\ job.removing \cap files = {}
    /\ Exit
    /\ UNCHANGED <<world, state_file, faults>>

(* Faulty: files kept by the grace do not hold the completion back. *)
FinishEventAnyway ==
    /\ pc = "artifacts"
    /\ job.artifacts = {}
    /\ store' = Completion!mark_processed(store, dedupe_key(job.event), job.at)
    /\ pc' = job.resume
    /\ job' = NoJob
    /\ UNCHANGED <<world, state_file, batch, inferred, inventory, snapshot,
                   cycle_now, faults>>

(* The decision of execute_cleanup, and mark_processed. *)
FinishEvent ==
    /\ pc = "artifacts"
    /\ job.artifacts = {}
    /\ store' = IF job.in_grace THEN store
                ELSE Completion!mark_processed(store, dedupe_key(job.event),
                                               job.at)
    /\ pc' = job.resume
    /\ job' = NoJob
    /\ UNCHANGED <<world, state_file, batch, inferred, inventory, snapshot,
                   cycle_now, faults>>

-----------------------------------------------------------------------------
(* The leak and memory guards end some processes of the inventory and of    *)
(* their groups, or fail; then persist_engine_state purges a copy of the    *)
(* store and writes it.                                                     *)

EnforceMemory(victims) ==
    /\ pc = "reconcile"
    /\ inferred = {}
    /\ \A p \in victims : \/ p \in inventory
                           \/ \E q \in inventory : /\ ProcessGroup[q] # NoGroup
                                                  /\ p \in Members(ProcessGroup[q])
    /\ pc' = "persist"
    /\ alive' = alive \ victims
    /\ UNCHANGED <<now, files, mtime, state_file, store, batch, inferred,
                   inventory, snapshot, cycle_now, job, faults>>

EnforcementFails ==
    /\ pc = "reconcile"
    /\ inferred = {}
    /\ inventory \cap alive # {}
    /\ Fault
    /\ Exit
    /\ UNCHANGED <<world, state_file>>

CreateStateFile ==
    /\ pc = "persist"
    /\ pc' = "write"
    /\ state_file' =
         Completion!truncated(Completion!purge_expired(store, now))
    /\ UNCHANGED <<world, store, batch, inferred, inventory, snapshot,
                   cycle_now, job, faults>>

(* End of the cycle.  The resolver's inventory is replaced before it is     *)
(* used again, so it and cycle_now are dropped here.                        *)
EndCycle ==
    /\ pc = "write"
    /\ pc' = "receive"
    /\ inventory' = {}
    /\ cycle_now' = 0
    /\ UNCHANGED <<world, store, batch, inferred, snapshot, job>>

WriteStateFile ==
    /\ EndCycle
    /\ state_file' = Completion!written(state_file)
    /\ UNCHANGED faults

(* The buffered writer is flushed when it is dropped, which ignores errors: *)
(* on a full disk the daemon goes on with a file it could not load.         *)
FlushFails ==
    /\ EndCycle
    /\ Fault
    /\ UNCHANGED state_file

(* Any other end of the process.  One that waits for events after a save    *)
(* is also how run_daemon_loop ends after max_cycles.                       *)
Crash ==
    /\ pc # "down"
    /\ Fault
    /\ Exit
    /\ UNCHANGED <<world, state_file>>

-----------------------------------------------------------------------------
(* The world. *)

Tick ==
    /\ now < MaxTime
    /\ now' = now + 1
    /\ UNCHANGED <<files, mtime, alive, state_file, memory, faults>>

WriteArtifact(a) ==
    /\ now < QuietTime
    /\ ArtifactRoot[a] \notin MissingRoots
    /\ files' = files \cup {a}
    /\ mtime' = [mtime EXCEPT ![a] = now]
    /\ UNCHANGED <<now, alive, state_file, memory, faults>>

DeleteArtifact(a) ==
    /\ now < QuietTime
    /\ a \in files
    /\ files' = files \ {a}
    /\ UNCHANGED <<now, mtime, alive, state_file, memory, faults>>

StartProcess(p) ==
    /\ now < QuietTime
    /\ p \notin alive
    /\ alive' = alive \cup {p}
    /\ UNCHANGED <<now, files, mtime, state_file, memory, faults>>

ExitProcess(p) ==
    /\ p \in alive
    /\ alive' = alive \ {p}
    /\ UNCHANGED <<now, files, mtime, state_file, memory, faults>>

-----------------------------------------------------------------------------
Batches == UNION {[1..n -> ExternalEvents] : n \in 0..MaxBatch}

(* The steps of a daemon to which nothing bad happens. *)
DaemonStep ==
    \/ IdleTimeout
    \/ Collect
    \/ ProcessEvent
    \/ InferEvents
    \/ \E s \in Sessions : Reconcile(s)
    \/ \E p \in Processes : RemediateProcess(p)
    \/ \E g \in Groups : RemediateGroup(g)
    \/ ProcessesDone
    \/ \E a \in Artifacts : CheckArtifact(a) \/ RemoveArtifact(a)
    \/ RemoveFails
    \/ FinishEvent
    \/ \E victims \in SUBSET Processes : EnforceMemory(victims)
    \/ CreateStateFile
    \/ WriteStateFile

DaemonFault ==
    \/ ReceiveMalformed
    \/ RemediationFails
    \/ EnforcementFails
    \/ FlushFails
    \/ Crash
    \/ \E a \in Artifacts : VanishBeforeStat(a)

ClientStep ==
    \/ Accept
    \/ \E received \in Batches : ReceiveBatch(received)

WorldStep ==
    \/ \E a \in Artifacts : WriteArtifact(a) \/ DeleteArtifact(a)
    \/ \E p \in Processes : StartProcess(p) \/ ExitProcess(p)

Next == Start \/ DaemonStep \/ DaemonFault \/ ClientStep \/ Tick \/ WorldStep

Spec == Init /\ [][Next]_vars

(* A daemon that runs keeps stepping, and without a client its wait times   *)
(* out; the clock does not stand still; someone restarts the daemon.        *)
(* Nothing obliges a client to send what it connected for.                  *)
Fairness == WF_vars(DaemonStep) /\ WF_vars(Tick) /\ WF_vars(Start)

FairSpec == Spec /\ Fairness

-----------------------------------------------------------------------------
(* Once the world is quiet, every artifact file of a session under an       *)
(* existing allowlist root is removed for good: reconciliation comes back   *)
(* to a session until none of its files is within the grace, and again      *)
(* after the TTL of a completion.  The exceptions are a daemon that died    *)
(* leaving a half-written state file, which never starts again, and one     *)
(* whose client stays connected and silent.  MaxTime must leave room for    *)
(* the grace and the TTL after QuietTime.                                   *)
StorageComesClean ==
    \/ <>[](pc = "down" /\ state_file.kind = "torn")
    \/ <>[](pc = "read")
    \/ <>[](\A a \in files :
               ~ is_path_allowlisted(a) \/ ArtifactSessions[a] = {})

-----------------------------------------------------------------------------
(* The ledger that a store stands for, and the one its file stands for: a   *)
(* torn file stands for nothing.                                            *)
ledger(st) ==
    [k \in Keys |->
        IF st[k].state = "processed"
        THEN [state |-> "done", at |-> st[k].updated_at]
        ELSE [state |-> IF st[k].state = "pending" THEN "open" ELSE "idle",
              at |-> 0]]

saved_ledger ==
    [readable |-> Completion!loadable(state_file),
     entry |-> ledger(IF Completion!loadable(state_file)
                      THEN Completion!load_completion_state(state_file)
                      ELSE Completion!EmptyStore)]

Work == INSTANCE Ledger WITH
            Ttl     <- DedupeTtl,
            running <- pc # "down",
            entry   <- IF pc = "down" THEN saved_ledger.entry ELSE ledger(store),
            saved   <- saved_ledger

(* completion.rs and daemon.rs together implement the ledger: with all its  *)
(* files, processes, clocks and faults the daemon takes work up only        *)
(* outside the window of its last completion, completes only what it has    *)
(* taken up, leaves out of a save only what has expired, and continues      *)
(* after a stop from its last save, or not at all.                          *)
ImplementsLedger == Work!Spec

-----------------------------------------------------------------------------
Job ==
    [event : Events \cup {inferred_event(NoSession)}, at : Nat,
     resume : {"batch", "reconcile"}, processes : SUBSET Processes,
     pgids : SUBSET Groups, artifacts : SUBSET Artifacts,
     removing : SUBSET Artifacts, in_grace : BOOLEAN]

(* The types of the world's and the daemon's state. *)
TypeOK ==
    /\ now \in Nat
    /\ files \subseteq Artifacts
    /\ mtime \in [Artifacts -> Nat]
    /\ alive \subseteq Processes
    /\ state_file \in Completion!StateFile
    /\ pc \in {"down", "receive", "read", "collect", "batch", "reconcile",
               "processes", "artifacts", "remove", "persist", "write"}
    /\ store \in Completion!Store
    /\ batch \in Seq(ExternalEvents)
    /\ inferred \subseteq Sessions
    /\ inventory \subseteq Processes
    /\ snapshot \subseteq Artifacts
    /\ cycle_now \in Nat
    /\ job \in Job
    /\ faults \in 0..MaxFaults
=============================================================================
