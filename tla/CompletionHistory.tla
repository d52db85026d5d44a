------------------------- MODULE CompletionHistory -------------------------
(***************************************************************************)
(* What the completion daemon promises about its work, told by history     *)
(* variables that never look at the dedupe store or its file: they record  *)
(* what was handled and completed, and roll back to the last complete save *)
(* when the daemon stops.                                                  *)
(***************************************************************************)
EXTENDS CompletionDaemon

VARIABLES
    last_done,  \* per key, the timestamp of its last completion (0: never)
    open,       \* keys accepted for cleanup and not completed since
    saved,      \* last_done and open as of the last complete save
    seen_at     \* when the current job checked each artifact (0: not yet)

history == <<last_done, open, saved, seen_at>>
hvars   == <<vars, history>>

NeverSeen == [a \in Artifacts |-> 0]

HInit ==
    /\ Init
    /\ last_done = [k \in Keys |-> 0]
    /\ open = {}
    /\ saved = [done |-> last_done, open |-> {}]
    /\ seen_at = NeverSeen

-----------------------------------------------------------------------------
OutsideWindow(k, at) == at > last_done[k] + DedupeTtl

(* Taking up an event outside the window of its last completion opens it. *)
TakeUp(e, at) ==
    /\ open' = IF OutsideWindow(dedupe_key(e), at)
               THEN open \cup {dedupe_key(e)} ELSE open
    /\ UNCHANGED <<last_done, saved, seen_at>>

HProcessEvent ==
    /\ ProcessEvent
    /\ IF Head(batch).source \in EnabledSources
       THEN TakeUp(Head(batch), now)
       ELSE UNCHANGED history

HReconcile(s) == Reconcile(s) /\ TakeUp(inferred_event(s), cycle_now)

HCheckArtifact(a) ==
    /\ CheckArtifact(a)
    /\ seen_at' = [seen_at EXCEPT ![a] = now]
    /\ UNCHANGED <<last_done, open, saved>>

HFinishEvent ==
    /\ FinishEvent
    /\ IF job.in_grace
       THEN UNCHANGED <<last_done, open>>
       ELSE /\ last_done' = [last_done EXCEPT ![dedupe_key(job.event)] = job.at]
            /\ open' = open \ {dedupe_key(job.event)}
    /\ seen_at' = NeverSeen
    /\ UNCHANGED saved

HWriteStateFile ==
    /\ WriteStateFile
    /\ saved' = [done |-> last_done, open |-> open]
    /\ UNCHANGED <<last_done, open, seen_at>>

HStop ==
    /\ \/ ReceiveMalformed
       \/ RemediationFails
       \/ RemoveFails
       \/ EnforcementFails
       \/ Crash
       \/ \E a \in Artifacts : VanishBeforeStat(a)
    /\ last_done' = saved.done
    /\ open' = saved.open
    /\ seen_at' = NeverSeen
    /\ UNCHANGED saved

(* The steps that history takes no note of. *)
Unrecorded ==
    \/ Start
    \/ IdleTimeout
    \/ ClientStep
    \/ Collect
    \/ InferEvents
    \/ \E p \in Processes : RemediateProcess(p)
    \/ \E g \in Groups : RemediateGroup(g)
    \/ ProcessesDone
    \/ \E a \in Artifacts : RemoveArtifact(a)
    \/ \E victims \in SUBSET Processes : EnforceMemory(victims)
    \/ CreateStateFile
    \/ FlushFails
    \/ Tick
    \/ WorldStep

HNext ==
    \/ HProcessEvent
    \/ \E s \in Sessions : HReconcile(s)
    \/ \E a \in Artifacts : HCheckArtifact(a)
    \/ HFinishEvent
    \/ HWriteStateFile
    \/ HStop
    \/ Unrecorded /\ UNCHANGED history

HSpec == HInit /\ [][HNext]_hvars

HFairSpec == HSpec /\ Fairness

-----------------------------------------------------------------------------
(* completion.rs begin/mark_processed, persist_engine_state and             *)
(* load_completion_state together: no event is cleaned up again within the  *)
(* TTL of its last completion, however often it is sent, unless the daemon  *)
(* stopped before any save had recorded that completion.                    *)
DedupeWindow ==
    pc \in {"processes", "artifacts", "remove"} =>
        OutsideWindow(dedupe_key(job.event), job.at)

(* The entries in state Pending are exactly the work that was accepted and  *)
(* is not completed: none is dropped by a purge, a save or a restart, and   *)
(* no completion leaves one behind.                                         *)
OpenWorkRemembered ==
    pc # "down" => open = {k \in Keys : store[k].state = "pending"}

(* cleanup.rs, remove_stale_allowlisted_artifacts: a file about to be       *)
(* removed is older than the active-session grace, or was written after the *)
(* daemon checked it.                                                       *)
GraceRespected ==
    pc = "remove" =>
        \A a \in job.removing \cap files :
            now - mtime[a] >= Grace \/ mtime[a] >= seen_at[a]

(* autocleanup.rs, execute_cleanup: an event is marked processed only when  *)
(* every file its session had in the resolver is gone, is not allowlisted,  *)
(* or was written again after the daemon checked it.                        *)
ProcessedMeansClean ==
    [][\A k \in Keys :
         pc = "artifacts" /\ store'[k] # store[k] /\ store'[k].state = "processed"
           => \A a \in resolved_artifacts(job.event) :
                \/ a \notin files
                \/ ~ is_path_allowlisted(a)
                \/ mtime[a] >= seen_at[a] /\ seen_at[a] > 0]_hvars

-----------------------------------------------------------------------------
(* Why DedupeWindow and OpenWorkRemembered hold: an inductive invariant.    *)

HistoryTypeOK ==
    /\ last_done \in [Keys -> Nat]
    /\ open \subseteq Keys
    /\ saved \in [done : [Keys -> Nat], open : SUBSET Keys]

InJob   == pc \in {"processes", "artifacts", "remove"}
InCycle == InJob \/ pc \in {"batch", "reconcile"}

(* What the entry of a key says at time t of the key's last completion: a  *)
(* key without an entry is outside the window, and so was a pending one     *)
(* when it was accepted.                                                    *)
EntryAgrees(entry, done, t) ==
    /\ entry.state = "processed" => entry.updated_at = done
    /\ entry.state = "pending" => /\ entry.updated_at > done + DedupeTtl
                                  /\ entry.updated_at <= t
    /\ entry.state = "absent" => t > done + DedupeTtl

Agrees(st, done, pending, t) ==
    /\ pending = {k \in Keys : st[k].state = "pending"}
    /\ \A k \in Keys : EntryAgrees(st[k], done[k], t)

(* The store in memory tells the history, and a complete file tells the     *)
(* history as of the save, also while the next file is being written.       *)
MemoryAgrees == pc # "down" => Agrees(store, last_done, open, now)

FileAgrees ==
    /\ pc = "down" => last_done = saved.done /\ open = saved.open
    /\ state_file.kind = "complete" =>
          Agrees(state_file.store, saved.done, saved.open, now)
    /\ state_file.kind = "missing" =>
          saved = [done |-> [k \in Keys |-> 0], open |-> {}]
    /\ pc = "write" => /\ state_file.kind = "torn"
                       /\ Agrees(state_file.store, last_done, open, now)

(* Reconciliation uses the clock read before the batch: nothing the batch   *)
(* did can have moved an inferred key past it.                              *)
CycleClock ==
    InCycle =>
        /\ cycle_now <= now
        /\ \A k \in Keys : store[k].state = "absent" =>
                              cycle_now > last_done[k] + DedupeTtl
        /\ \A s \in Sessions :
              store[dedupe_key(inferred_event(s))].state = "pending" =>
                store[dedupe_key(inferred_event(s))].updated_at <= cycle_now

JobPending ==
    InJob => /\ job.event \in Events
             /\ store[dedupe_key(job.event)] = Completion!Pending(job.at)

(* completion.rs and daemon.rs together: memory, file, clock and history    *)
(* tell one story, across saves, crashes and restarts.                      *)
DedupeInv ==
    /\ HistoryTypeOK
    /\ now > DedupeTtl
    /\ MemoryAgrees
    /\ FileAgrees
    /\ CycleClock
    /\ JobPending

(* Of what memory holds, a file that is being written leaves out no more    *)
(* than completions that have expired.                                      *)
SaveTells ==
    pc = "write" =>
        \A k \in Keys :
            \/ ledger(state_file.store)[k] = ledger(store)[k]
            \/ /\ ledger(state_file.store)[k] = Work!Idle
               /\ store[k].state = "processed"
               /\ now > store[k].updated_at + DedupeTtl

(* The invariant of the proofs: the types, that one story, and the saves.   *)
DedupeIInv == TypeOK /\ DedupeInv /\ SaveTells

-----------------------------------------------------------------------------
(* Why GraceRespected and ProcessedMeansClean hold. *)

(* A file that needs nothing more from the daemon, which checked it. *)
DealtWith(a) ==
    /\ seen_at[a] > 0
    /\ \/ a \notin files
       \/ ~ is_path_allowlisted(a)
       \/ mtime[a] >= seen_at[a]

ClocksAgree ==
    /\ now > 0
    /\ seen_at \in [Artifacts -> Nat]
    /\ \A a \in Artifacts : mtime[a] <= now /\ seen_at[a] <= now
    /\ InCycle => cycle_now <= now
    /\ InJob => job.at <= now

(* No resolved file is lost sight of: it is still to be checked, about to   *)
(* be removed, dealt with, or it holds the completion back.                 *)
FilesAccounted ==
    /\ pc = "processes" =>
          job.artifacts = resolved_artifacts(job.event) /\ job.removing = {}
    /\ pc = "artifacts" => job.removing = {}
    /\ pc \in {"artifacts", "remove"} =>
          \A a \in resolved_artifacts(job.event) :
              \/ a \in job.artifacts \cup job.removing
              \/ job.in_grace
              \/ DealtWith(a)

RemovalGrounded ==
    pc = "remove" =>
        \E a \in Artifacts :
            /\ job.removing = {a}
            /\ seen_at[a] > 0
            /\ \/ a \notin files
               \/ now - mtime[a] >= Grace
               \/ mtime[a] >= seen_at[a]

FilesInv == ClocksAgree /\ FilesAccounted /\ RemovalGrounded
=============================================================================
