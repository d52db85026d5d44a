-------------------------- MODULE CompletionProofs --------------------------
(* The completion daemon for all values of the constants: its types, the    *)
(* promises of the dedupe store (the inductive invariant DedupeInv of       *)
(* CompletionHistory, and what it implies), those about the files it        *)
(* removes (FilesInv), and that it implements the ledger (ImplementsLedger).*)
EXTENDS CompletionHistory, FiniteSetTheorems, TLAPS

-----------------------------------------------------------------------------
(* The operators of the dedupe store stay within its type. *)

LEMMA EmptyStoreType ==
    Completion!EmptyStore \in Completion!Store
BY DEF Completion!EmptyStore, Completion!Store, Completion!NoEntry,
       Completion!Entry

LEMMA BeginType ==
    ASSUME NEW s \in Completion!Store, NEW k \in Keys, NEW t \in Nat
    PROVE  Completion!begin(s, k, t) \in Completion!Store
BY DEF Completion!begin, Completion!Pending, Completion!Store, Completion!Entry

LEMMA MarkProcessedType ==
    ASSUME NEW s \in Completion!Store, NEW k, NEW t \in Nat
    PROVE  Completion!mark_processed(s, k, t) \in Completion!Store
BY DEF Completion!mark_processed, Completion!Processed, Completion!Store,
       Completion!Entry

LEMMA PurgeType ==
    ASSUME NEW s \in Completion!Store, NEW t \in Nat
    PROVE  Completion!purge_expired(s, t) \in Completion!Store
BY DEF Completion!purge_expired, Completion!NoEntry, Completion!Store,
       Completion!Entry

LEMMA NoStateFileType ==
    Completion!NoStateFile \in Completion!StateFile
BY EmptyStoreType DEF Completion!NoStateFile, Completion!StateFile

LEMMA LoadType ==
    ASSUME NEW f \in Completion!StateFile
    PROVE  Completion!load_completion_state(f) \in Completion!Store
BY EmptyStoreType DEF Completion!load_completion_state, Completion!StateFile

LEMMA PersistType ==
    ASSUME NEW s \in Completion!Store, NEW f \in Completion!StateFile
    PROVE  /\ Completion!truncated(s) \in Completion!StateFile
           /\ Completion!written(f) \in Completion!StateFile
BY DEF Completion!truncated, Completion!written, Completion!StateFile

LEMMA NoJobType == NoJob \in Job
BY DEF NoJob, Job

LEMMA KeyType ==
    ASSUME NEW e \in Events
    PROVE  dedupe_key(e) \in Keys
BY DEF Keys

LEMMA InferredEventType ==
    ASSUME NEW s \in Sessions
    PROVE  inferred_event(s) \in Events
BY DEF Events

-----------------------------------------------------------------------------
LEMMA ExitType ==
    ASSUME TypeOK, Exit, UNCHANGED <<now, mtime, alive, state_file>>,
           files' \subseteq Artifacts, faults' \in 0..MaxFaults
    PROVE  TypeOK'
BY EmptyStoreType, NoJobType DEF TypeOK, Exit, world

LEMMA FaultType ==
    ASSUME faults \in 0..MaxFaults, Fault
    PROVE  faults' \in 0..MaxFaults
BY TimeAssumption DEF Fault

LEMMA DispatchType ==
    ASSUME TypeOK, NEW e \in Events, NEW at \in Nat,
           NEW resume \in {"batch", "reconcile"}, Dispatch(e, at, resume)
    PROVE  /\ store' \in Completion!Store
           /\ job' \in Job
           /\ pc' \in {"batch", "reconcile", "processes"}
<1>1. store' \in Completion!Store
  BY BeginType, KeyType DEF Dispatch, TypeOK
<1>2. resolved_processes(e) \subseteq Processes
  BY DEF resolved_processes, TypeOK
<1>3. resolved_artifacts(e) \subseteq Artifacts
  BY DEF resolved_artifacts, TypeOK
<1>4. job' \in Job
  <2>1. CASE UNCHANGED job
    BY <2>1 DEF TypeOK
  <2>2. CASE job' = [NoJob EXCEPT !.event = e, !.at = at, !.resume = resume,
                                  !.processes = resolved_processes(e),
                                  !.artifacts = resolved_artifacts(e)]
    <3>1. job' = [event |-> e, at |-> at, resume |-> resume,
                  processes |-> resolved_processes(e), pgids |-> {},
                  artifacts |-> resolved_artifacts(e), removing |-> {},
                  in_grace |-> FALSE]
      BY <2>2 DEF NoJob
    <3> QED BY <3>1, <1>2, <1>3 DEF Job
  <2> QED BY <2>1, <2>2 DEF Dispatch
<1>5. pc' \in {"batch", "reconcile", "processes"}
  BY DEF Dispatch
<1> QED BY <1>1, <1>4, <1>5

LEMMA InitType == Init => TypeOK
<1> SUFFICES ASSUME Init PROVE TypeOK
  OBVIOUS
<1> QED
  BY TimeAssumption, EmptyStoreType, NoStateFileType, NoJobType DEF Init, TypeOK

-----------------------------------------------------------------------------
(* Every step of the daemon, of its faults and of the world keeps the types. *)

LEMMA DaemonStepType == TypeOK /\ DaemonStep => TypeOK'
<1> SUFFICES ASSUME TypeOK, DaemonStep PROVE TypeOK'
  OBVIOUS
<1> USE DEF TypeOK, world
<1>1. CASE IdleTimeout
  BY <1>1 DEF IdleTimeout
<1>2. CASE Collect
  BY <1>2 DEF Collect
<1>3. CASE ProcessEvent
  <2>1. Head(batch) \in Events /\ Tail(batch) \in Seq(ExternalEvents)
    BY <1>3 DEF ProcessEvent, Events
  <2>2. CASE Head(batch).source \in EnabledSources
    <3>1. Dispatch(Head(batch), now, "batch")
      BY <1>3, <2>2 DEF ProcessEvent
    <3>2. /\ store' \in Completion!Store
          /\ job' \in Job
          /\ pc' \in {"batch", "reconcile", "processes"}
      BY <2>1, <3>1, DispatchType
    <3> QED BY <1>3, <2>1, <3>2 DEF ProcessEvent
  <2>3. CASE Head(batch).source \notin EnabledSources
    BY <1>3, <2>1, <2>3 DEF ProcessEvent
  <2> QED BY <2>2, <2>3
<1>4. CASE InferEvents
  BY <1>4, WorldAssumption DEF InferEvents, collect_session_ids
<1>5. ASSUME NEW s \in Sessions, Reconcile(s) PROVE TypeOK'
  <2>1. /\ store' \in Completion!Store
        /\ job' \in Job
        /\ pc' \in {"batch", "reconcile", "processes"}
    BY <1>5, InferredEventType, DispatchType DEF Reconcile
  <2> QED BY <1>5, <2>1 DEF Reconcile
<1>6. ASSUME NEW p \in Processes, RemediateProcess(p) PROVE TypeOK'
  <2>1. job' \in Job
    BY <1>6 DEF RemediateProcess, Job, Groups
  <2> QED BY <1>6, <2>1 DEF RemediateProcess
<1>7. ASSUME NEW g \in Groups, RemediateGroup(g) PROVE TypeOK'
  <2>1. job' \in Job
    BY <1>7 DEF RemediateGroup, Job
  <2> QED BY <1>7, <2>1 DEF RemediateGroup
<1>8. CASE ProcessesDone
  BY <1>8 DEF ProcessesDone
<1>9. ASSUME NEW a \in Artifacts, CheckArtifact(a) PROVE TypeOK'
  <2>1. /\ [job EXCEPT !.artifacts = @ \ {a}] \in Job
        /\ [job EXCEPT !.artifacts = @ \ {a}, !.in_grace = TRUE] \in Job
        /\ [job EXCEPT !.artifacts = @ \ {a}, !.removing = {a}] \in Job
    BY DEF Job
  <2>2. job' \in Job /\ pc' \in {pc, "remove"}
    BY <1>9, <2>1 DEF CheckArtifact
  <2> QED BY <1>9, <2>2 DEF CheckArtifact
<1>10. ASSUME NEW a \in Artifacts, RemoveArtifact(a) PROVE TypeOK'
  <2>1. job' \in Job
    BY <1>10 DEF RemoveArtifact, Job
  <2> QED BY <1>10, <2>1 DEF RemoveArtifact
<1>11. CASE RemoveFails
  BY <1>11, ExitType DEF RemoveFails, world
<1>12. CASE FinishEvent
  <2>1. store' \in Completion!Store
    <3>1. CASE job.in_grace
      BY <1>12, <3>1 DEF FinishEvent
    <3>2. CASE ~ job.in_grace
      BY <1>12, <3>2, MarkProcessedType DEF FinishEvent, Job
    <3> QED BY <3>1, <3>2
  <2>2. pc' \in {"batch", "reconcile"} /\ job' \in Job
    BY <1>12, NoJobType DEF FinishEvent, Job
  <2> QED BY <1>12, <2>1, <2>2 DEF FinishEvent
<1>13. ASSUME NEW victims \in SUBSET Processes, EnforceMemory(victims)
       PROVE  TypeOK'
  BY <1>13 DEF EnforceMemory
<1>14. CASE CreateStateFile
  BY <1>14, PurgeType, PersistType DEF CreateStateFile
<1>15. CASE WriteStateFile
  BY <1>15, PersistType DEF WriteStateFile, EndCycle
<1> QED
  BY <1>1, <1>2, <1>3, <1>4, <1>5, <1>6, <1>7, <1>8, <1>9, <1>10, <1>11,
     <1>12, <1>13, <1>14, <1>15 DEF DaemonStep

LEMMA DaemonFaultType == TypeOK /\ DaemonFault => TypeOK'
<1> SUFFICES ASSUME TypeOK, DaemonFault PROVE TypeOK'
  OBVIOUS
<1>1. CASE FlushFails
  <2>1. faults' \in 0..MaxFaults
    BY <1>1, FaultType DEF FlushFails, TypeOK
  <2> QED BY <1>1, <2>1 DEF FlushFails, EndCycle, TypeOK, world
<1>2. ASSUME NEW a \in Artifacts, VanishBeforeStat(a) PROVE TypeOK'
  BY <1>2, ExitType DEF VanishBeforeStat, TypeOK
<1>3. CASE ReceiveMalformed \/ RemediationFails \/ EnforcementFails \/ Crash
  <2>1. Fault /\ Exit /\ UNCHANGED <<world, state_file>>
    BY <1>3 DEF ReceiveMalformed, RemediationFails, EnforcementFails, Crash
  <2>2. faults' \in 0..MaxFaults
    BY <2>1, FaultType DEF TypeOK
  <2> QED BY <2>1, <2>2, ExitType DEF TypeOK, world
<1> QED
  BY <1>1, <1>2, <1>3 DEF DaemonFault

LEMMA WorldStepType == TypeOK /\ (WorldStep \/ Tick) => TypeOK'
<1> SUFFICES ASSUME TypeOK, WorldStep \/ Tick PROVE TypeOK'
  OBVIOUS
<1> USE DEF TypeOK, world, memory
<1>1. ASSUME NEW a \in Artifacts, WriteArtifact(a) PROVE TypeOK'
  BY <1>1 DEF WriteArtifact
<1>2. ASSUME NEW a \in Artifacts, DeleteArtifact(a) PROVE TypeOK'
  BY <1>2 DEF DeleteArtifact
<1>3. ASSUME NEW p \in Processes, StartProcess(p) PROVE TypeOK'
  BY <1>3 DEF StartProcess
<1>4. ASSUME NEW p \in Processes, ExitProcess(p) PROVE TypeOK'
  BY <1>4 DEF ExitProcess
<1>5. CASE Tick
  BY <1>5 DEF Tick
<1> QED BY <1>1, <1>2, <1>3, <1>4, <1>5 DEF WorldStep

LEMMA ClientStepType == TypeOK /\ ClientStep => TypeOK'
<1> SUFFICES ASSUME TypeOK, ClientStep PROVE TypeOK'
  OBVIOUS
<1>1. CASE Accept
  BY <1>1 DEF Accept, TypeOK, world
<1>2. ASSUME NEW received \in Batches, ReceiveBatch(received) PROVE TypeOK'
  <2>1. received \in Seq(ExternalEvents)
    BY DEF Batches
  <2> QED BY <1>2, <2>1 DEF ReceiveBatch, TypeOK, world
<1> QED BY <1>1, <1>2 DEF ClientStep

LEMMA StartType == TypeOK /\ Start => TypeOK'
BY LoadType DEF TypeOK, Start, world

LEMMA NextType == TypeOK /\ Next => TypeOK'
BY StartType, DaemonStepType, DaemonFaultType, ClientStepType, WorldStepType
   DEF Next

(* Every reachable state of the daemon and of its world is well typed, for  *)
(* any sets of sessions, events, files and processes: no path through       *)
(* run_daemon_loop leaves a store, a state file or a job of another shape.  *)
THEOREM TypeCorrect == Spec => []TypeOK
<1>1. TypeOK /\ [Next]_vars => TypeOK'
  <2>1. TypeOK /\ UNCHANGED vars => TypeOK'
    BY DEF TypeOK, vars, world, memory
  <2> QED BY <2>1, NextType
<1> QED BY InitType, <1>1, PTL DEF Spec

-----------------------------------------------------------------------------
(* The operators of the store, against the history of completions. *)

LEMMA AgreesEmpty ==
    ASSUME NEW t \in Nat, t > DedupeTtl
    PROVE  Agrees(Completion!EmptyStore, [k \in Keys |-> 0], {}, t)
BY TimeAssumption DEF Agrees, EntryAgrees, Completion!EmptyStore,
                      Completion!NoEntry

LEMMA AgreesLater ==
    ASSUME NEW st \in Completion!Store, NEW done \in [Keys -> Nat], NEW pending,
           NEW t \in Nat, NEW u \in Nat, t <= u, Agrees(st, done, pending, t)
    PROVE  Agrees(st, done, pending, u)
BY TimeAssumption DEF Agrees, EntryAgrees, Completion!Store, Completion!Entry

(* What a purge drops is outside the window, and it drops nothing pending. *)
LEMMA AgreesPurge ==
    ASSUME NEW st \in Completion!Store, NEW done \in [Keys -> Nat], NEW pending,
           NEW t \in Nat, Agrees(st, done, pending, t)
    PROVE  Agrees(Completion!purge_expired(st, t), done, pending, t)
<1> DEFINE purged == Completion!purge_expired(st, t)
<1>1. ASSUME NEW k \in Keys
      PROVE  /\ purged[k].state = "pending" <=> st[k].state = "pending"
             /\ EntryAgrees(purged[k], done[k], t)
  <2>1. EntryAgrees(st[k], done[k], t) /\ st[k] \in Completion!Entry
    BY DEF Agrees, Completion!Store
  <2>2. CASE st[k].state = "pending" \/ Completion!WithinTtl(st[k], t)
    <3>1. purged[k] = st[k]
      BY <2>2 DEF Completion!purge_expired
    <3> QED BY <2>1, <3>1
  <2>3. CASE ~ (st[k].state = "pending" \/ Completion!WithinTtl(st[k], t))
    <3>1. purged[k] = Completion!NoEntry
      BY <2>3 DEF Completion!purge_expired
    <3>2. t > done[k] + DedupeTtl
      BY <2>1, <2>3, TimeAssumption
         DEF EntryAgrees, Completion!Entry, Completion!WithinTtl,
             Completion!SaturatingSub
    <3> QED BY <2>3, <3>1, <3>2 DEF EntryAgrees, Completion!NoEntry
  <2> QED BY <2>2, <2>3
<1> HIDE DEF purged
<1>2. pending = {k \in Keys : purged[k].state = "pending"}
  BY <1>1 DEF Agrees
<1>3. Agrees(purged, done, pending, t)
  BY <1>1, <1>2 DEF Agrees
<1> QED BY <1>3 DEF purged

(* What begin takes for a duplicate is exactly what is inside the window. *)
LEMMA AgreesBegin ==
    ASSUME NEW st \in Completion!Store, NEW done \in [Keys -> Nat], NEW pending,
           NEW t \in Nat, NEW at \in Nat, at <= t, NEW k \in Keys,
           Agrees(st, done, pending, t),
           st[k].state = "absent" => at > done[k] + DedupeTtl,
           st[k].state = "pending" => st[k].updated_at <= at
    PROVE  /\ Agrees(Completion!begin(st, k, at), done,
                     IF at > done[k] + DedupeTtl THEN pending \cup {k}
                     ELSE pending, t)
           /\ ~ Completion!IsDuplicate(st, k, at) =>
                 Completion!begin(st, k, at) = [st EXCEPT ![k] = Completion!Pending(at)]
<1>1. Completion!IsDuplicate(st, k, at) <=> ~ (at > done[k] + DedupeTtl)
  <2>1. EntryAgrees(st[k], done[k], t) /\ st[k] \in Completion!Entry
    BY DEF Agrees, Completion!Store
  <2> QED
    BY <2>1, TimeAssumption
       DEF EntryAgrees, Completion!Entry, Completion!IsDuplicate,
           Completion!WithinTtl, Completion!SaturatingSub
<1>2. CASE Completion!IsDuplicate(st, k, at)
  BY <1>1, <1>2 DEF Completion!begin
<1>3. CASE ~ Completion!IsDuplicate(st, k, at)
  <2> DEFINE begun == [st EXCEPT ![k] = Completion!Pending(at)]
  <2>1. Completion!begin(st, k, at) = begun
    BY <1>3 DEF Completion!begin
  <2>2. \A j \in Keys : begun[j] = IF j = k THEN Completion!Pending(at) ELSE st[j]
    BY DEF Completion!Store
  <2>3. at > done[k] + DedupeTtl
    BY <1>1, <1>3
  <2> HIDE DEF begun
  <2>4. Agrees(begun, done, pending \cup {k}, t)
    <3>1. \A j \in Keys : EntryAgrees(begun[j], done[j], t)
      BY <2>2, <2>3 DEF Agrees, EntryAgrees, Completion!Pending
    <3>2. pending \cup {k} = {j \in Keys : begun[j].state = "pending"}
      BY <2>2 DEF Agrees, Completion!Pending
    <3> QED BY <3>1, <3>2 DEF Agrees
  <2> QED BY <2>1, <2>3, <2>4 DEF begun
<1> QED BY <1>2, <1>3

LEMMA AgreesProcessed ==
    ASSUME NEW st \in Completion!Store, NEW done \in [Keys -> Nat], NEW pending,
           NEW t \in Nat, NEW at \in Nat, NEW k \in Keys,
           Agrees(st, done, pending, t)
    PROVE  Agrees(Completion!mark_processed(st, k, at),
                  [done EXCEPT ![k] = at], pending \ {k}, t)
<1> DEFINE marked == Completion!mark_processed(st, k, at)
           finished == [done EXCEPT ![k] = at]
<1>1. \A j \in Keys :
        /\ marked[j] = IF j = k THEN Completion!Processed(at) ELSE st[j]
        /\ finished[j] = IF j = k THEN at ELSE done[j]
  BY DEF Completion!Store, Completion!mark_processed
<1> HIDE DEF marked, finished
<1>2. \A j \in Keys : EntryAgrees(marked[j], finished[j], t)
  BY <1>1 DEF Agrees, EntryAgrees, Completion!Processed
<1>3. pending \ {k} = {j \in Keys : marked[j].state = "pending"}
  BY <1>1 DEF Agrees, Completion!Processed
<1>4. Agrees(marked, finished, pending \ {k}, t)
  BY <1>2, <1>3 DEF Agrees
<1> QED BY <1>4 DEF marked, finished

-----------------------------------------------------------------------------
(* The history variables only watch: every step of HSpec is one of Spec. *)

LEMMA HistoryWatches == HNext => Next
<1>1. ASSUME NEW s \in Sessions, HReconcile(s) PROVE Next
  BY <1>1 DEF HReconcile, Next, DaemonStep
<1>2. ASSUME NEW a \in Artifacts, HCheckArtifact(a) PROVE Next
  BY <1>2 DEF HCheckArtifact, Next, DaemonStep
<1>3. CASE HProcessEvent \/ HFinishEvent \/ HWriteStateFile
  BY <1>3 DEF HProcessEvent, HFinishEvent, HWriteStateFile, Next, DaemonStep
<1>4. CASE HStop
  BY <1>4 DEF HStop, Next, DaemonStep, DaemonFault
<1>5. CASE Unrecorded
  BY <1>5 DEF Unrecorded, Next, DaemonStep, DaemonFault
<1> QED BY <1>1, <1>2, <1>3, <1>4, <1>5 DEF HNext

THEOREM HistoryTypeCorrect == HSpec => []TypeOK
<1>1. TypeOK /\ [HNext]_hvars => TypeOK'
  <2>1. TypeOK /\ HNext => TypeOK'
    BY HistoryWatches, NextType
  <2>2. TypeOK /\ UNCHANGED hvars => TypeOK'
    BY DEF TypeOK, hvars, vars, world, memory
  <2> QED BY <2>1, <2>2
<1>2. HInit => TypeOK
  BY InitType DEF HInit
<1> QED BY <1>1, <1>2, PTL DEF HSpec

-----------------------------------------------------------------------------
(* DedupeInv is inductive: first the steps that leave store, file and       *)
(* history alone, then each step that does not.                             *)

LEMMA DedupeInvInit == HInit => DedupeInv
<1> SUFFICES ASSUME HInit PROVE DedupeInv
  OBVIOUS
<1> QED
  BY TimeAssumption
     DEF HInit, Init, DedupeInv, HistoryTypeOK, MemoryAgrees, FileAgrees,
         CycleClock, JobPending, InCycle, InJob, Completion!NoStateFile

LEMMA QuietStep ==
    ASSUME TypeOK, TypeOK', DedupeInv,
           UNCHANGED <<last_done, open, saved, store, state_file, cycle_now>>,
           now <= now',
           pc' = "down" <=> pc = "down",
           pc' = "write" <=> pc = "write",
           InCycle' => InCycle,
           InJob' => InJob /\ job'.event = job.event /\ job'.at = job.at
    PROVE  DedupeInv'
<1> USE DEF DedupeInv
<1>1. HistoryTypeOK'
  BY DEF HistoryTypeOK
<1>2. (now > DedupeTtl)'
  BY TimeAssumption DEF TypeOK
<1>3. MemoryAgrees'
  BY AgreesLater DEF MemoryAgrees, TypeOK, HistoryTypeOK
<1>4. FileAgrees'
  <2>1. state_file.store \in Completion!Store
    BY DEF TypeOK, Completion!StateFile
  <2>2. saved.done \in [Keys -> Nat]
    BY DEF HistoryTypeOK
  <2>3. ASSUME state_file.kind = "complete"
        PROVE  Agrees(state_file.store, saved.done, saved.open, now')
    BY <2>1, <2>2, <2>3, AgreesLater DEF FileAgrees, TypeOK
  <2>4. ASSUME pc = "write"
        PROVE  Agrees(state_file.store, last_done, open, now')
    BY <2>1, <2>4, AgreesLater DEF FileAgrees, TypeOK, HistoryTypeOK
  <2> QED BY <2>3, <2>4 DEF FileAgrees
<1>5. CycleClock'
  BY DEF CycleClock, TypeOK
<1>6. JobPending'
  BY DEF JobPending
<1> QED BY <1>1, <1>2, <1>3, <1>4, <1>5, <1>6

(* The steps that QuietStep covers. *)
Quiet ==
    \/ IdleTimeout
    \/ ClientStep
    \/ InferEvents
    \/ \E p \in Processes : RemediateProcess(p)
    \/ \E g \in Groups : RemediateGroup(g)
    \/ ProcessesDone
    \/ \E a \in Artifacts : RemoveArtifact(a) \/ CheckArtifact(a)
    \/ \E victims \in SUBSET Processes : EnforceMemory(victims)
    \/ Tick
    \/ WorldStep

LEMMA QuietPreserves ==
    ASSUME TypeOK, TypeOK', DedupeInv, Quiet, UNCHANGED <<last_done, open, saved>>
    PROVE  DedupeInv'
<1> USE QuietStep DEF InCycle, InJob, TypeOK, world, memory
<1>1. CASE IdleTimeout \/ ClientStep
  BY <1>1 DEF IdleTimeout, ClientStep, Accept, ReceiveBatch
<1>2. CASE InferEvents
  BY <1>2 DEF InferEvents
<1>3. ASSUME NEW p \in Processes, RemediateProcess(p) PROVE DedupeInv'
  <2>1. job'.event = job.event /\ job'.at = job.at
    BY <1>3 DEF RemediateProcess, Job
  <2> QED BY <1>3, <2>1 DEF RemediateProcess
<1>4. ASSUME NEW g \in Groups, RemediateGroup(g) PROVE DedupeInv'
  <2>1. job'.event = job.event /\ job'.at = job.at
    BY <1>4 DEF RemediateGroup, Job
  <2> QED BY <1>4, <2>1 DEF RemediateGroup
<1>5. CASE ProcessesDone
  BY <1>5 DEF ProcessesDone
<1>6. ASSUME NEW a \in Artifacts, RemoveArtifact(a) PROVE DedupeInv'
  <2>1. job'.event = job.event /\ job'.at = job.at
    BY <1>6 DEF RemoveArtifact, Job
  <2> QED BY <1>6, <2>1 DEF RemoveArtifact
<1>7. ASSUME NEW a \in Artifacts, CheckArtifact(a) PROVE DedupeInv'
  <2>1. job'.event = job.event /\ job'.at = job.at
    BY <1>7 DEF CheckArtifact, Job
  <2>2. pc = "artifacts" /\ pc' \in {"artifacts", "remove"}
    BY <1>7 DEF CheckArtifact
  <2> QED BY <1>7, <2>1, <2>2 DEF CheckArtifact
<1>8. ASSUME NEW victims \in SUBSET Processes, EnforceMemory(victims)
      PROVE  DedupeInv'
  BY <1>8 DEF EnforceMemory
<1>9. CASE Tick
  BY <1>9 DEF Tick
<1>10. CASE WorldStep
  <2>1. UNCHANGED <<now, state_file, memory>>
    BY <1>10 DEF WorldStep, WriteArtifact, DeleteArtifact, StartProcess,
                 ExitProcess
  <2> QED BY <2>1
<1> QED
  BY <1>1, <1>2, <1>3, <1>4, <1>5, <1>6, <1>7, <1>8, <1>9, <1>10 DEF Quiet

(* A restart finds the history of the last complete save in its file. *)
LEMMA StartPreserves ==
    ASSUME TypeOK, TypeOK', DedupeInv, Start, UNCHANGED <<last_done, open, saved>>
    PROVE  DedupeInv'
<1> USE DEF DedupeInv
<1>1. MemoryAgrees'
  <2>1. last_done = saved.done /\ open = saved.open
    BY DEF FileAgrees, Start
  <2>2. CASE state_file.kind = "complete"
    BY <2>1, <2>2 DEF FileAgrees, MemoryAgrees, Start, world,
                      Completion!load_completion_state
  <2>3. CASE state_file.kind = "missing"
    <3>1. last_done = [k \in Keys |-> 0] /\ open = {}
      BY <2>1, <2>3 DEF FileAgrees
    <3>2. Agrees(Completion!EmptyStore, last_done, open, now)
      BY <3>1, AgreesEmpty DEF TypeOK
    <3> QED BY <2>3, <3>2 DEF MemoryAgrees, Start, world,
                              Completion!load_completion_state
  <2> QED BY <2>2, <2>3 DEF Start, TypeOK, Completion!loadable,
                           Completion!StateFile
<1> QED
  BY <1>1 DEF Start, world, HistoryTypeOK, FileAgrees, CycleClock, JobPending,
              InCycle, InJob

(* The clock that reconciliation will use is read here. *)
LEMMA CollectPreserves ==
    ASSUME TypeOK, TypeOK', DedupeInv, Collect, UNCHANGED <<last_done, open, saved>>
    PROVE  DedupeInv'
<1> USE DEF DedupeInv
<1>1. CycleClock'
  <2>1. \A k \in Keys : EntryAgrees(store[k], last_done[k], now)
    BY DEF Collect, MemoryAgrees, Agrees
  <2>2. \A s \in Sessions : dedupe_key(inferred_event(s)) \in Keys
    BY KeyType, InferredEventType
  <2> QED BY <2>1, <2>2 DEF Collect, world, CycleClock, EntryAgrees, TypeOK
<1> QED
  BY <1>1 DEF Collect, world, HistoryTypeOK, MemoryAgrees, FileAgrees,
              JobPending, InJob

LEMMA SavePreserves ==
    ASSUME TypeOK, TypeOK', DedupeInv,
           \/ (CreateStateFile \/ FlushFails) /\ UNCHANGED history
           \/ HWriteStateFile
    PROVE  DedupeInv'
<1> USE DEF DedupeInv
<1>1. CASE CreateStateFile /\ UNCHANGED history
  <2>1. Agrees(Completion!purge_expired(store, now), last_done, open, now)
    BY <1>1, AgreesPurge DEF CreateStateFile, MemoryAgrees, HistoryTypeOK,
                            TypeOK
  <2> QED
    BY <1>1, <2>1
       DEF CreateStateFile, history, world, HistoryTypeOK, MemoryAgrees,
           FileAgrees, CycleClock, JobPending, InCycle, InJob,
           Completion!truncated
<1>2. CASE FlushFails /\ UNCHANGED history
  BY <1>2 DEF FlushFails, EndCycle, history, world, HistoryTypeOK,
              MemoryAgrees, FileAgrees, CycleClock, JobPending, InCycle, InJob
<1>3. CASE HWriteStateFile
  <2>1. pc = "write" /\ pc' = "receive" /\ UNCHANGED <<now, store, job>>
    BY <1>3 DEF HWriteStateFile, WriteStateFile, EndCycle, world
  <2>2. state_file'.store = state_file.store /\ state_file'.kind = "complete"
    BY <1>3 DEF HWriteStateFile, WriteStateFile, Completion!written,
                Completion!StateFile, TypeOK
  <2>3. UNCHANGED <<last_done, open>>
        /\ saved' = [done |-> last_done, open |-> open]
    BY <1>3 DEF HWriteStateFile
  <2> QED
    BY <2>1, <2>2, <2>3
       DEF HistoryTypeOK, MemoryAgrees, FileAgrees, CycleClock, JobPending,
           InCycle, InJob
<1> QED BY <1>1, <1>2, <1>3

(* A daemon that stops falls back to its last complete save. *)
LEMMA StopPreserves ==
    ASSUME TypeOK, TypeOK', DedupeInv, HStop
    PROVE  DedupeInv'
<1>1. Exit /\ UNCHANGED <<now, state_file>>
  BY DEF HStop, ReceiveMalformed, RemediationFails, RemoveFails,
         EnforcementFails, Crash, VanishBeforeStat, world
<1> QED
  BY <1>1 DEF HStop, Exit, DedupeInv, HistoryTypeOK, MemoryAgrees,
              FileAgrees, CycleClock, JobPending, InCycle, InJob

(* Taking up an event: the store's verdict and the history's agree. *)
LEMMA DispatchPreserves ==
    ASSUME TypeOK, TypeOK', DedupeInv,
           NEW e \in Events, NEW at \in Nat, NEW resume \in {"batch", "reconcile"},
           Dispatch(e, at, resume), TakeUp(e, at),
           UNCHANGED <<now, state_file, cycle_now>>,
           pc \in {"batch", "reconcile"},
           cycle_now <= at, at <= now,
           \A s \in Sessions : dedupe_key(e) = dedupe_key(inferred_event(s))
                               => at = cycle_now,
           store[dedupe_key(e)].state = "pending"
              => store[dedupe_key(e)].updated_at <= at
    PROVE  DedupeInv'
<1> DEFINE key == dedupe_key(e)
<1> USE DEF DedupeInv
<1>1. key \in Keys
  BY KeyType
<1>2. Agrees(store, last_done, open, now)
  BY DEF MemoryAgrees
<1>3. /\ last_done \in [Keys -> Nat] /\ store \in Completion!Store
      /\ now \in Nat /\ cycle_now \in Nat
  BY DEF HistoryTypeOK, TypeOK
<1>4. store[key].state = "absent" => at > last_done[key] + DedupeTtl
  BY <1>1, <1>3, TimeAssumption DEF CycleClock, InCycle
<1>5. /\ Agrees(store', last_done, open', now)
      /\ ~ Completion!IsDuplicate(store, key, at) =>
            store' = [store EXCEPT ![key] = Completion!Pending(at)]
  BY <1>1, <1>2, <1>3, <1>4, AgreesBegin DEF Dispatch, TakeUp, OutsideWindow
<1>6. Completion!IsDuplicate(store, key, at) => store' = store
  BY DEF Dispatch, Completion!begin
<1>7. pc' \in {"batch", "reconcile", "processes"}
  BY DEF Dispatch
<1>8. UNCHANGED <<last_done, saved>>
  BY DEF TakeUp
<1>9. HistoryTypeOK'
  BY <1>1, <1>8 DEF HistoryTypeOK, TakeUp
<1>10. MemoryAgrees' /\ FileAgrees'
  BY <1>5, <1>7, <1>8 DEF MemoryAgrees, FileAgrees
<1>11. CycleClock'
  <2>1. \A k \in Keys :
          \/ store'[k] = store[k]
          \/ k = key /\ store'[k] = Completion!Pending(at)
    BY <1>3, <1>5, <1>6 DEF Completion!Store
  <2>2. \A s \in Sessions : dedupe_key(inferred_event(s)) \in Keys
    BY KeyType, InferredEventType
  <2> QED BY <1>3, <1>8, <2>1, <2>2 DEF CycleClock, InCycle, Completion!Pending
<1>12. JobPending'
  <2>1. CASE pc' = "processes"
    <3>1. ~ Completion!IsDuplicate(store, key, at)
      BY <2>1 DEF Dispatch, decision
    <3>2. job'.event = e /\ job'.at = at
      BY <2>1 DEF Dispatch, decision, NoJob
    <3> QED BY <1>1, <1>3, <1>5, <3>1, <3>2 DEF JobPending, Completion!Store
  <2>2. CASE pc' # "processes"
    BY <1>7, <2>2 DEF JobPending, InJob
  <2> QED BY <2>1, <2>2
<1> QED BY <1>8, <1>9, <1>10, <1>11, <1>12

(* An event of a client never has the key of an inferred one. *)
LEMMA ExternalKey ==
    ASSUME NEW e \in ExternalEvents, NEW s \in Sessions
    PROVE  dedupe_key(e) # dedupe_key(inferred_event(s))
BY EventAssumption DEF dedupe_key, inferred_event

LEMMA ProcessEventPreserves ==
    ASSUME TypeOK, TypeOK', DedupeInv, HProcessEvent
    PROVE  DedupeInv'
<1>1. Head(batch) \in ExternalEvents
  BY DEF HProcessEvent, ProcessEvent, TypeOK
<1>2. CASE Head(batch).source \in EnabledSources
  <2>1. /\ Dispatch(Head(batch), now, "batch") /\ TakeUp(Head(batch), now)
        /\ pc = "batch" /\ UNCHANGED <<now, state_file, cycle_now>>
    BY <1>2 DEF HProcessEvent, ProcessEvent, world
  <2>2. Head(batch) \in Events /\ dedupe_key(Head(batch)) \in Keys
    BY <1>1, KeyType DEF Events
  <2>3. store[dedupe_key(Head(batch))].state = "pending"
           => store[dedupe_key(Head(batch))].updated_at <= now
    BY <2>1, <2>2 DEF DedupeInv, MemoryAgrees, Agrees, EntryAgrees
  <2>4. cycle_now <= now /\ now \in Nat
    BY <2>1 DEF DedupeInv, CycleClock, InCycle, TypeOK
  <2>5. \A s \in Sessions :
           dedupe_key(Head(batch)) # dedupe_key(inferred_event(s))
    BY <1>1, ExternalKey
  <2> QED BY <2>1, <2>2, <2>3, <2>4, <2>5, DispatchPreserves
<1>3. CASE Head(batch).source \notin EnabledSources
  BY <1>3, QuietStep DEF HProcessEvent, ProcessEvent, history, world, InCycle,
                         InJob, TypeOK
<1> QED BY <1>2, <1>3

LEMMA ReconcilePreserves ==
    ASSUME TypeOK, TypeOK', DedupeInv, NEW s \in Sessions, HReconcile(s)
    PROVE  DedupeInv'
<1>1. /\ Dispatch(inferred_event(s), cycle_now, "reconcile")
      /\ TakeUp(inferred_event(s), cycle_now)
      /\ pc = "reconcile" /\ UNCHANGED <<now, state_file, cycle_now>>
  BY DEF HReconcile, Reconcile, world
<1>2. inferred_event(s) \in Events
  BY InferredEventType
<1>3. /\ cycle_now <= now
      /\ store[dedupe_key(inferred_event(s))].state = "pending" =>
            store[dedupe_key(inferred_event(s))].updated_at <= cycle_now
  BY <1>1 DEF DedupeInv, CycleClock, InCycle
<1>4. cycle_now \in Nat /\ cycle_now <= cycle_now
  BY DEF TypeOK
<1> QED BY <1>1, <1>2, <1>3, <1>4, DispatchPreserves

LEMMA FinishPreserves ==
    ASSUME TypeOK, TypeOK', DedupeInv, HFinishEvent
    PROVE  DedupeInv'
<1> DEFINE key == dedupe_key(job.event)
<1> USE DEF DedupeInv
<1>1. /\ pc = "artifacts" /\ pc' \in {"batch", "reconcile"}
      /\ UNCHANGED <<now, state_file, cycle_now, saved>>
  BY DEF HFinishEvent, FinishEvent, world, TypeOK, Job
<1>2. CASE job.in_grace
  <2>1. UNCHANGED <<last_done, open, store>>
    BY <1>2 DEF HFinishEvent, FinishEvent
  <2> QED BY <1>1, <2>1, QuietStep DEF InCycle, InJob, TypeOK
<1>3. CASE ~ job.in_grace
  <2>1. /\ store' = Completion!mark_processed(store, key, job.at)
        /\ last_done' = [last_done EXCEPT ![key] = job.at]
        /\ open' = open \ {key}
    BY <1>3 DEF HFinishEvent, FinishEvent
  <2>2. /\ key \in Keys /\ job.at \in Nat
        /\ store[key] = Completion!Pending(job.at)
    BY <1>1, KeyType DEF JobPending, InJob, TypeOK, Job
  <2>3. Agrees(store', last_done', open', now)
    BY <1>1, <2>1, <2>2, AgreesProcessed
       DEF MemoryAgrees, HistoryTypeOK, TypeOK
  <2>4. HistoryTypeOK'
    BY <1>1, <2>1, <2>2 DEF HistoryTypeOK
  <2>5. CycleClock'
    <3>1. \A k \in Keys :
            \/ store'[k] = Completion!Processed(job.at)
            \/ store'[k] = store[k] /\ last_done'[k] = last_done[k]
      BY <2>1, <2>2 DEF Completion!mark_processed, Completion!Store, TypeOK,
                        HistoryTypeOK
    <3>2. \A s \in Sessions : dedupe_key(inferred_event(s)) \in Keys
      BY KeyType, InferredEventType
    <3> QED BY <1>1, <3>1, <3>2 DEF CycleClock, InCycle, InJob,
                                    Completion!Processed
  <2> QED BY <1>1, <2>3, <2>4, <2>5
             DEF MemoryAgrees, FileAgrees, JobPending, InJob
<1> QED BY <1>2, <1>3

-----------------------------------------------------------------------------
LEMMA DedupeInvStep == TypeOK /\ TypeOK' /\ DedupeInv /\ [HNext]_hvars => DedupeInv'
<1> SUFFICES ASSUME TypeOK, TypeOK', DedupeInv, [HNext]_hvars PROVE DedupeInv'
  OBVIOUS
<1>1. CASE HProcessEvent
  BY <1>1, ProcessEventPreserves
<1>2. ASSUME NEW s \in Sessions, HReconcile(s) PROVE DedupeInv'
  BY <1>2, ReconcilePreserves
<1>3. ASSUME NEW a \in Artifacts, HCheckArtifact(a) PROVE DedupeInv'
  BY <1>3, QuietPreserves DEF HCheckArtifact, Quiet
<1>4. CASE HFinishEvent
  BY <1>4, FinishPreserves
<1>5. CASE HWriteStateFile
  BY <1>5, SavePreserves
<1>6. CASE HStop
  BY <1>6, StopPreserves
<1>7. CASE Unrecorded /\ UNCHANGED history
  <2>1. UNCHANGED <<last_done, open, saved>>
    BY <1>7 DEF history
  <2>2. CASE Start
    BY <2>1, <2>2, StartPreserves
  <2>3. CASE Collect
    BY <2>1, <2>3, CollectPreserves
  <2>4. CASE CreateStateFile \/ FlushFails
    BY <1>7, <2>4, SavePreserves
  <2>5. CASE Quiet
    BY <2>1, <2>5, QuietPreserves
  <2> QED BY <1>7, <2>2, <2>3, <2>4, <2>5 DEF Unrecorded, Quiet
<1>8. CASE UNCHANGED hvars
  BY <1>8, QuietStep DEF hvars, history, vars, world, memory, InCycle, InJob,
                         TypeOK
<1> QED BY <1>1, <1>2, <1>3, <1>4, <1>5, <1>6, <1>7, <1>8 DEF HNext

(* Memory, state file, clock and history agree in every reachable state,    *)
(* across saves, failed saves, crashes and restarts.                        *)
THEOREM DedupeInvHolds == HSpec => []DedupeInv
BY HistoryTypeCorrect, DedupeInvInit, DedupeInvStep, PTL DEF HSpec

(* No event is cleaned up again within the TTL of its last saved or         *)
(* remembered completion, whatever is sent, and however often the daemon    *)
(* dies and restarts.                                                       *)
THEOREM DedupeWindowHolds == HSpec => []DedupeWindow
<1>1. TypeOK /\ DedupeInv => DedupeWindow
  <2> SUFFICES ASSUME TypeOK, DedupeInv, InJob
               PROVE  OutsideWindow(dedupe_key(job.event), job.at)
    BY DEF DedupeWindow, InJob
  <2>1. /\ dedupe_key(job.event) \in Keys
        /\ store[dedupe_key(job.event)] = Completion!Pending(job.at)
    BY KeyType DEF DedupeInv, JobPending
  <2>2. Agrees(store, last_done, open, now)
    BY DEF DedupeInv, MemoryAgrees, InJob
  <2> QED BY <2>1, <2>2 DEF Agrees, EntryAgrees, OutsideWindow,
                            Completion!Pending
<1> QED BY <1>1, HistoryTypeCorrect, DedupeInvHolds, PTL

(* The pending entries are exactly the accepted and unfinished work, also   *)
(* after every restart.                                                     *)
THEOREM OpenWorkRememberedHolds == HSpec => []OpenWorkRemembered
<1>1. DedupeInv => OpenWorkRemembered
  BY DEF DedupeInv, MemoryAgrees, Agrees, OpenWorkRemembered
<1> QED BY <1>1, DedupeInvHolds, PTL

-----------------------------------------------------------------------------
LEMMA FilesInvInit == HInit => FilesInv
<1> SUFFICES ASSUME HInit PROVE FilesInv
  OBVIOUS
<1> QED
  BY TimeAssumption
     DEF HInit, Init, NeverSeen, FilesInv, ClocksAgree, FilesAccounted,
         RemovalGrounded, InCycle, InJob

(* Steps that leave files and their checks alone, and neither begin nor     *)
(* advance the handling of an event.                                        *)
LEMMA FilesUntouched ==
    ASSUME TypeOK, TypeOK', FilesInv,
           UNCHANGED <<files, mtime, seen_at>>, now <= now',
           InCycle' => \/ cycle_now' <= now'
                       \/ InCycle /\ cycle_now' = cycle_now,
           InJob' => pc' = pc /\ UNCHANGED <<snapshot, inventory, job>>
    PROVE  FilesInv'
<1> USE DEF FilesInv
<1>1. ClocksAgree'
  <2>1. \A a \in Artifacts : mtime[a] \in Nat /\ seen_at[a] \in Nat
    BY DEF ClocksAgree, TypeOK
  <2>2. now \in Nat /\ now' \in Nat /\ cycle_now \in Nat /\ job.at \in Nat
    BY DEF TypeOK, Job
  <2> QED BY <2>1, <2>2 DEF ClocksAgree, InJob
<1>2. FilesAccounted'
  BY DEF FilesAccounted, InJob, resolved_artifacts, accepts_completion_event,
         DealtWith, is_path_allowlisted
<1>3. RemovalGrounded'
  <2>1. \A a \in job.removing : mtime[a] \in Nat
    BY DEF TypeOK, Job
  <2>2. now \in Nat /\ now' \in Nat /\ Grace \in Nat
    BY TimeAssumption DEF TypeOK
  <2> QED BY <2>1, <2>2 DEF RemovalGrounded, InJob
<1> QED BY <1>1, <1>2, <1>3

-----------------------------------------------------------------------------
(* Taking up an event: everything that resolves to it is still to be done. *)
LEMMA DispatchAccounts ==
    ASSUME TypeOK, TypeOK', FilesInv,
           NEW e \in Events, NEW at \in Nat, at <= now,
           NEW resume \in {"batch", "reconcile"},
           Dispatch(e, at, resume), pc \in {"batch", "reconcile"},
           UNCHANGED <<now, files, mtime, seen_at, snapshot, cycle_now>>
    PROVE  FilesInv'
<1> USE DEF FilesInv
<1>1. \/ pc' \in {"batch", "reconcile"}
      \/ /\ pc' = "processes"
         /\ job' = [NoJob EXCEPT !.event = e, !.at = at, !.resume = resume,
                                 !.processes = resolved_processes(e),
                                 !.artifacts = resolved_artifacts(e)]
  BY DEF Dispatch
<1>2. CASE pc' \in {"batch", "reconcile"}
  BY <1>2 DEF ClocksAgree, FilesAccounted, RemovalGrounded, InCycle, InJob
<1>3. CASE /\ pc' = "processes"
           /\ job' = [NoJob EXCEPT !.event = e, !.at = at, !.resume = resume,
                                   !.processes = resolved_processes(e),
                                   !.artifacts = resolved_artifacts(e)]
  <2>1. /\ job'.event = e /\ job'.at = at /\ job'.removing = {}
        /\ job'.artifacts = resolved_artifacts(e)
    BY <1>3 DEF NoJob
  <2>2. resolved_artifacts(e)' = resolved_artifacts(e)
    BY DEF resolved_artifacts, accepts_completion_event
  <2>3. FilesAccounted'
    BY <1>3, <2>1, <2>2 DEF FilesAccounted, resolved_artifacts,
                            accepts_completion_event
  <2>4. ClocksAgree' /\ RemovalGrounded'
    BY <1>3, <2>1 DEF ClocksAgree, RemovalGrounded, InCycle, InJob
  <2> QED BY <2>3, <2>4
<1> QED BY <1>1, <1>2, <1>3

LEMMA TakeUpAccounts ==
    ASSUME TypeOK, TypeOK', FilesInv,
           HProcessEvent \/ \E s \in Sessions : HReconcile(s)
    PROVE  FilesInv'
<1>1. CASE HProcessEvent
  <2>1. /\ pc = "batch" /\ Head(batch) \in Events
        /\ UNCHANGED <<now, files, mtime, seen_at, snapshot, inventory,
                       cycle_now>>
    BY <1>1 DEF HProcessEvent, ProcessEvent, TakeUp, history, world, TypeOK,
                Events
  <2>2. CASE Head(batch).source \in EnabledSources
    <3>1. Dispatch(Head(batch), now, "batch") /\ now \in Nat /\ now <= now
      BY <1>1, <2>2 DEF HProcessEvent, ProcessEvent, TypeOK
    <3> QED BY <2>1, <3>1, DispatchAccounts
  <2>3. CASE Head(batch).source \notin EnabledSources
    <3>1. pc' = "batch"
      BY <1>1, <2>3 DEF HProcessEvent, ProcessEvent
    <3> QED BY <2>1, <3>1, FilesUntouched DEF InCycle, InJob, TypeOK
  <2> QED BY <2>2, <2>3
<1>2. ASSUME NEW s \in Sessions, HReconcile(s) PROVE FilesInv'
  <2>1. /\ pc = "reconcile" /\ inferred_event(s) \in Events
        /\ Dispatch(inferred_event(s), cycle_now, "reconcile")
        /\ UNCHANGED <<now, files, mtime, seen_at, snapshot, cycle_now>>
    BY <1>2, InferredEventType DEF HReconcile, Reconcile, TakeUp, world
  <2>2. cycle_now \in Nat /\ cycle_now <= now
    BY <2>1 DEF FilesInv, ClocksAgree, InCycle, TypeOK
  <2> QED BY <2>1, <2>2, DispatchAccounts
<1> QED BY <1>1, <1>2

-----------------------------------------------------------------------------
(* Checking a file records what was decided about it. *)
LEMMA CheckAccounts ==
    ASSUME TypeOK, TypeOK', FilesInv, NEW a \in Artifacts, HCheckArtifact(a)
    PROVE  FilesInv'
<1> USE DEF FilesInv
<1>1. /\ pc = "artifacts" /\ a \in job.artifacts
      /\ seen_at' = [seen_at EXCEPT ![a] = now]
      /\ UNCHANGED <<now, files, mtime, snapshot, inventory, cycle_now>>
  BY DEF HCheckArtifact, CheckArtifact, world
<1>2. /\ now > 0 /\ now \in Nat /\ seen_at \in [Artifacts -> Nat]
      /\ mtime \in [Artifacts -> Nat]
  BY DEF ClocksAgree, TypeOK
<1>3. \A b \in Artifacts : seen_at'[b] = IF b = a THEN now ELSE seen_at[b]
  BY <1>1, <1>2
<1>4. /\ job'.event = job.event /\ job'.at = job.at
      /\ job'.artifacts = job.artifacts \ {a}
      /\ job.in_grace => job'.in_grace
      /\ \/ /\ pc' = "artifacts" /\ job'.removing = job.removing
            /\ job'.in_grace \/ a \notin files \/ ~ is_path_allowlisted(a)
         \/ /\ pc' = "remove" /\ job'.removing = {a}
            /\ ~ is_within_active_session_grace(a)
  BY DEF HCheckArtifact, CheckArtifact, TypeOK, Job
<1>5. ClocksAgree'
  BY <1>1, <1>2, <1>3, <1>4 DEF ClocksAgree, InCycle, InJob
<1>6. FilesAccounted'
  <2>1. resolved_artifacts(job.event)' = resolved_artifacts(job.event)
        /\ resolved_artifacts(job.event) \subseteq Artifacts
    BY <1>1, <1>4 DEF resolved_artifacts, accepts_completion_event, TypeOK
  <2>2. \A b \in Artifacts : b # a /\ DealtWith(b) => DealtWith(b)'
    BY <1>1, <1>3 DEF DealtWith, is_path_allowlisted
  <2>3. (a \notin files \/ ~ is_path_allowlisted(a)) => DealtWith(a)'
    BY <1>1, <1>2, <1>3 DEF DealtWith, is_path_allowlisted
  <2>4. job.removing = {}
    BY <1>1 DEF FilesAccounted
  <2>5. \A b \in resolved_artifacts(job.event) :
           b \in job.artifacts \/ job.in_grace \/ DealtWith(b)
    BY <1>1, <2>4 DEF FilesAccounted
  <2>6. \A b \in resolved_artifacts(job.event) :
           b \in job'.artifacts \cup job'.removing \/ job'.in_grace \/ DealtWith(b)'
    BY <1>4, <2>1, <2>2, <2>3, <2>5
  <2> QED BY <1>4, <2>1, <2>4, <2>6 DEF FilesAccounted
<1>7. RemovalGrounded'
  <2>1. CASE pc' = "remove"
    <3>1. job'.removing = {a} /\ ~ is_within_active_session_grace(a)
      BY <1>4, <2>1
    <3>2. job.at <= now /\ mtime[a] <= now /\ job.at \in Nat
      BY <1>1 DEF ClocksAgree, InJob, TypeOK, Job
    <3>3. now - mtime[a] >= Grace
      BY <1>2, <3>1, <3>2, TimeAssumption
         DEF is_within_active_session_grace, Completion!SaturatingSub
    <3> QED BY <1>1, <1>2, <1>3, <3>1, <3>3 DEF RemovalGrounded
  <2>2. CASE pc' # "remove"
    BY <2>2 DEF RemovalGrounded
  <2> QED BY <2>1, <2>2
<1> QED BY <1>5, <1>6, <1>7

-----------------------------------------------------------------------------
LEMMA RemoveAccounts ==
    ASSUME TypeOK, TypeOK', FilesInv,
           NEW a \in Artifacts, RemoveArtifact(a), UNCHANGED seen_at
    PROVE  FilesInv'
<1> USE DEF FilesInv
<1>1. /\ pc = "remove" /\ pc' = "artifacts" /\ a \in job.removing
      /\ files' = files \ {a}
      /\ UNCHANGED <<now, mtime, seen_at, snapshot, inventory, cycle_now>>
  BY DEF RemoveArtifact
<1>2. /\ job'.event = job.event /\ job'.at = job.at /\ job'.removing = {}
      /\ job'.artifacts = job.artifacts /\ job'.in_grace = job.in_grace
  BY DEF RemoveArtifact, TypeOK, Job
<1>3. ClocksAgree' /\ RemovalGrounded'
  BY <1>1, <1>2 DEF ClocksAgree, RemovalGrounded, InCycle, InJob
<1>4. FilesAccounted'
  <2>1. resolved_artifacts(job.event)' = resolved_artifacts(job.event)
    BY <1>1, <1>2 DEF resolved_artifacts, accepts_completion_event
  <2>2. \A b \in job.removing : b = a => DealtWith(b)'
    BY <1>1 DEF RemovalGrounded, DealtWith
  <2>3. job.removing = {a}
    BY <1>1 DEF RemovalGrounded
  <2>4. \A b : DealtWith(b) => DealtWith(b)'
    BY <1>1 DEF DealtWith, is_path_allowlisted
  <2> QED BY <1>1, <1>2, <2>1, <2>2, <2>3, <2>4 DEF FilesAccounted
<1> QED BY <1>3, <1>4

(* The world may write and delete at any moment.  What it writes is newer   *)
(* than any check the daemon made.                                          *)
LEMMA WorldAccounts ==
    ASSUME TypeOK, TypeOK', FilesInv, WorldStep, UNCHANGED seen_at
    PROVE  FilesInv'
<1>1. UNCHANGED <<now, memory>>
  BY DEF WorldStep, WriteArtifact, DeleteArtifact, StartProcess, ExitProcess
<1>2. ASSUME NEW p \in Processes, StartProcess(p) \/ ExitProcess(p)
      PROVE  FilesInv'
  BY <1>1, <1>2, FilesUntouched
     DEF StartProcess, ExitProcess, memory, InCycle, InJob, TypeOK
<1>3. ASSUME NEW a \in Artifacts, DeleteArtifact(a) PROVE FilesInv'
  <2>1. files' = files \ {a} /\ UNCHANGED <<mtime, seen_at>>
    BY <1>3 DEF DeleteArtifact
  <2> QED
    BY <1>1, <2>1 DEF FilesInv, ClocksAgree, FilesAccounted, RemovalGrounded,
                      DealtWith, InCycle, InJob, memory, is_path_allowlisted,
                      resolved_artifacts, accepts_completion_event
<1>4. ASSUME NEW a \in Artifacts, WriteArtifact(a) PROVE FilesInv'
  <2>1. files' = files \cup {a} /\ mtime' = [mtime EXCEPT ![a] = now]
    BY <1>4 DEF WriteArtifact
  <2>2. /\ mtime \in [Artifacts -> Nat] /\ now \in Nat
        /\ job.removing \subseteq Artifacts
        /\ resolved_artifacts(job.event) \subseteq Artifacts
    BY DEF TypeOK, Job, resolved_artifacts
  <2>3. \A b \in Artifacts : mtime'[b] = IF b = a THEN now ELSE mtime[b]
    BY <2>1, <2>2
  <2>4. seen_at[a] <= now
    BY DEF FilesInv, ClocksAgree
  <2>5. \A b \in Artifacts : DealtWith(b) => DealtWith(b)'
    BY <2>1, <2>3, <2>4 DEF DealtWith, is_path_allowlisted
  <2>6. ClocksAgree'
    BY <1>1, <2>2, <2>3 DEF FilesInv, ClocksAgree, InCycle, InJob, memory
  <2>7. FilesAccounted'
    <3>1. resolved_artifacts(job.event)' = resolved_artifacts(job.event)
      BY <1>1 DEF memory, resolved_artifacts, accepts_completion_event
    <3> QED BY <1>1, <2>2, <2>5, <3>1 DEF FilesInv, FilesAccounted, memory
  <2>8. RemovalGrounded'
    BY <1>1, <2>1, <2>2, <2>3, <2>4 DEF FilesInv, RemovalGrounded, memory
  <2> QED BY <2>6, <2>7, <2>8 DEF FilesInv
<1> QED BY <1>2, <1>3, <1>4 DEF WorldStep

-----------------------------------------------------------------------------
(* The remaining steps take no decision about a file. *)
LEMMA RestAccounts ==
    ASSUME TypeOK, TypeOK', FilesInv, UNCHANGED seen_at,
           \/ Start \/ ClientStep \/ IdleTimeout \/ Collect \/ InferEvents
           \/ \E p \in Processes : RemediateProcess(p)
           \/ \E g \in Groups : RemediateGroup(g)
           \/ ProcessesDone
           \/ \E victims \in SUBSET Processes : EnforceMemory(victims)
           \/ CreateStateFile \/ WriteStateFile \/ FlushFails \/ Tick
    PROVE  FilesInv'
<1> USE DEF InCycle, InJob, world, memory
<1>1. CASE Start
  BY <1>1, FilesUntouched DEF Start, TypeOK
<1>2. CASE ClientStep \/ IdleTimeout
  BY <1>2, FilesUntouched DEF ClientStep, Accept, ReceiveBatch, IdleTimeout,
                              TypeOK
<1>3. CASE Collect
  BY <1>3, FilesUntouched DEF Collect, TypeOK
<1>4. CASE InferEvents
  BY <1>4, FilesUntouched DEF InferEvents, TypeOK
<1>5. CASE \/ \E p \in Processes : RemediateProcess(p)
           \/ \E g \in Groups : RemediateGroup(g)
  <2>1. /\ pc = "processes" /\ pc' = "processes"
        /\ UNCHANGED <<now, files, mtime, snapshot, inventory, cycle_now>>
    BY <1>5 DEF RemediateProcess, RemediateGroup
  <2>2. /\ job'.event = job.event /\ job'.at = job.at
        /\ job'.artifacts = job.artifacts /\ job'.removing = job.removing
    BY <1>5 DEF RemediateProcess, RemediateGroup, TypeOK, Job
  <2>3. resolved_artifacts(job.event)' = resolved_artifacts(job.event)
    BY <2>1, <2>2 DEF resolved_artifacts, accepts_completion_event
  <2> QED BY <2>1, <2>2, <2>3 DEF FilesInv, ClocksAgree, FilesAccounted,
                                  RemovalGrounded
<1>6. CASE ProcessesDone
  <2>1. /\ pc = "processes" /\ pc' = "artifacts"
        /\ UNCHANGED <<now, files, mtime, snapshot, inventory, cycle_now, job>>
    BY <1>6 DEF ProcessesDone
  <2>2. resolved_artifacts(job.event)' = resolved_artifacts(job.event)
    BY <2>1 DEF resolved_artifacts, accepts_completion_event
  <2> QED BY <2>1, <2>2 DEF FilesInv, ClocksAgree, FilesAccounted,
                            RemovalGrounded
<1>7. ASSUME NEW victims \in SUBSET Processes, EnforceMemory(victims)
      PROVE  FilesInv'
  BY <1>7, FilesUntouched DEF EnforceMemory, TypeOK
<1>8. CASE CreateStateFile
  BY <1>8, FilesUntouched DEF CreateStateFile, TypeOK
<1>9. CASE WriteStateFile \/ FlushFails
  BY <1>9, FilesUntouched DEF WriteStateFile, FlushFails, EndCycle, TypeOK
<1>10. CASE Tick
  BY <1>10, FilesUntouched DEF Tick, TypeOK
<1> QED
  BY <1>1, <1>2, <1>3, <1>4, <1>5, <1>6, <1>7, <1>8, <1>9, <1>10

(* Steps after which no event is being handled. *)
LEMMA EndAccounts ==
    ASSUME TypeOK, TypeOK', FilesInv, HFinishEvent \/ HStop
    PROVE  FilesInv'
<1>1. /\ UNCHANGED <<now, mtime>> /\ seen_at' = NeverSeen
      /\ pc' \notin {"processes", "artifacts", "remove"}
  BY DEF HFinishEvent, FinishEvent, HStop, Exit, ReceiveMalformed,
         RemediationFails, RemoveFails, EnforcementFails, Crash,
         VanishBeforeStat, world, TypeOK, Job
<1>2. InCycle' => InCycle /\ cycle_now' = cycle_now
  BY DEF HFinishEvent, FinishEvent, HStop, Exit, ReceiveMalformed,
         RemediationFails, RemoveFails, EnforcementFails, Crash,
         VanishBeforeStat, InCycle, InJob
<1>3. ClocksAgree'
  BY <1>1, <1>2 DEF FilesInv, ClocksAgree, NeverSeen, InJob, TypeOK
<1> QED BY <1>1, <1>3 DEF FilesInv, FilesAccounted, RemovalGrounded

LEMMA FilesInvStep == TypeOK /\ TypeOK' /\ FilesInv /\ [HNext]_hvars => FilesInv'
<1> SUFFICES ASSUME TypeOK, TypeOK', FilesInv, [HNext]_hvars PROVE FilesInv'
  OBVIOUS
<1>1. CASE HProcessEvent \/ \E s \in Sessions : HReconcile(s)
  BY <1>1, TakeUpAccounts
<1>2. ASSUME NEW a \in Artifacts, HCheckArtifact(a) PROVE FilesInv'
  BY <1>2, CheckAccounts
<1>3. CASE HFinishEvent \/ HStop
  BY <1>3, EndAccounts
<1>4. CASE HWriteStateFile
  BY <1>4, RestAccounts DEF HWriteStateFile
<1>5. CASE Unrecorded /\ UNCHANGED history
  <2>1. UNCHANGED seen_at
    BY <1>5 DEF history
  <2>2. CASE WorldStep
    BY <2>1, <2>2, WorldAccounts
  <2>3. ASSUME NEW a \in Artifacts, RemoveArtifact(a) PROVE FilesInv'
    BY <2>1, <2>3, RemoveAccounts
  <2> QED BY <1>5, <2>1, <2>2, <2>3, RestAccounts DEF Unrecorded
<1>6. CASE UNCHANGED hvars
  BY <1>6, FilesUntouched DEF hvars, vars, history, world, memory, InCycle,
                              InJob, TypeOK
<1> QED BY <1>1, <1>2, <1>3, <1>4, <1>5, <1>6 DEF HNext

(* Every file that resolved to the event being handled is accounted for in  *)
(* every reachable state, whatever the world does to the files meanwhile.   *)
THEOREM FilesInvHolds == HSpec => []FilesInv
BY HistoryTypeCorrect, FilesInvInit, FilesInvStep, PTL DEF HSpec

(* A file about to be removed is older than the grace, unless it was        *)
(* written between the check and the removal.                               *)
THEOREM GraceRespectedHolds == HSpec => []GraceRespected
<1>1. FilesInv => GraceRespected
  BY DEF FilesInv, RemovalGrounded, GraceRespected
<1> QED BY <1>1, FilesInvHolds, PTL

(* An event is marked processed only when every file of its session that    *)
(* the resolver knew is gone, is not allowlisted, or was written again      *)
(* after the daemon checked it.                                             *)
THEOREM ProcessedMeansCleanHolds == HSpec => ProcessedMeansClean
<1> DEFINE Clean ==
      \A k \in Keys :
         pc = "artifacts" /\ store'[k] # store[k] /\ store'[k].state = "processed"
           => \A a \in resolved_artifacts(job.event) :
                \/ a \notin files
                \/ ~ is_path_allowlisted(a)
                \/ mtime[a] >= seen_at[a] /\ seen_at[a] > 0
<1>1. TypeOK /\ FilesInv /\ [HNext]_hvars => Clean
  <2> SUFFICES ASSUME TypeOK, FilesInv, [HNext]_hvars, NEW k \in Keys,
                      pc = "artifacts", store'[k] # store[k],
                      store'[k].state = "processed",
                      NEW a \in resolved_artifacts(job.event)
               PROVE  \/ a \notin files
                      \/ ~ is_path_allowlisted(a)
                      \/ mtime[a] >= seen_at[a] /\ seen_at[a] > 0
    OBVIOUS
  <2>1. ~ HStop
    BY DEF HStop, Exit, ReceiveMalformed, RemediationFails, RemoveFails,
           EnforcementFails, Crash, VanishBeforeStat, Completion!EmptyStore,
           Completion!NoEntry
  <2>2. HFinishEvent
    BY <2>1 DEF HNext, HProcessEvent, ProcessEvent, HReconcile, Reconcile,
                HCheckArtifact, CheckArtifact, HWriteStateFile, WriteStateFile,
                EndCycle, Unrecorded, Start, IdleTimeout, ClientStep, Accept,
                ReceiveBatch, Collect, InferEvents, RemediateProcess,
                RemediateGroup, ProcessesDone, RemoveArtifact, EnforceMemory,
                CreateStateFile, FlushFails, Tick, WorldStep, WriteArtifact,
                DeleteArtifact, StartProcess, ExitProcess, hvars, vars, memory
  <2>3. job.artifacts = {} /\ ~ job.in_grace
    BY <2>2 DEF HFinishEvent, FinishEvent
  <2> QED BY <2>3 DEF FilesInv, FilesAccounted, DealtWith
<1>2. HSpec => [][Clean]_hvars
  BY <1>1, HistoryTypeCorrect, FilesInvHolds, PTL DEF HSpec
<1> QED BY <1>2 DEF ProcessedMeansClean

-----------------------------------------------------------------------------
(* The daemon implements the ledger.                                        *)

LEMMA LedgerEmpty == ledger(Completion!EmptyStore) = Work!AllIdle
BY DEF ledger, Completion!EmptyStore, Completion!NoEntry, Work!AllIdle,
       Work!Idle

LEMMA LedgerPending ==
    ASSUME NEW st \in Completion!Store, NEW k \in Keys, NEW t
    PROVE  ledger([st EXCEPT ![k] = Completion!Pending(t)])
             = [ledger(st) EXCEPT ![k] = Work!Open]
BY DEF ledger, Completion!Store, Completion!Pending, Work!Open

LEMMA LedgerProcessed ==
    ASSUME NEW st \in Completion!Store, NEW k \in Keys, NEW t
    PROVE  ledger(Completion!mark_processed(st, k, t))
             = [ledger(st) EXCEPT ![k] = Work!Done(t)]
BY DEF ledger, Completion!Store, Completion!mark_processed,
       Completion!Processed, Work!Done

(* A purge leaves out completions that have expired, and nothing else.      *)
LEMMA LedgerPurge ==
    ASSUME NEW st \in Completion!Store, NEW t \in Nat, NEW k \in Keys
    PROVE  \/ ledger(Completion!purge_expired(st, t))[k] = ledger(st)[k]
           \/ /\ ledger(Completion!purge_expired(st, t))[k] = Work!Idle
              /\ st[k].state = "processed"
              /\ t > st[k].updated_at + DedupeTtl
<1> DEFINE purged == Completion!purge_expired(st, t)
<1>1. st[k] \in Completion!Entry
  BY DEF Completion!Store
<1>2. CASE st[k].state = "pending" \/ Completion!WithinTtl(st[k], t)
  <2>1. purged[k] = st[k]
    BY <1>2 DEF Completion!purge_expired
  <2> QED BY <2>1 DEF ledger
<1>3. CASE ~ (st[k].state = "pending" \/ Completion!WithinTtl(st[k], t))
  <2>1. purged[k] = Completion!NoEntry
    BY <1>3 DEF Completion!purge_expired
  <2>2. ledger(purged)[k] = Work!Idle
    BY <2>1 DEF ledger, Completion!NoEntry, Work!Idle
  <2>3. CASE st[k].state = "absent"
    BY <2>2, <2>3 DEF ledger, Work!Idle
  <2>4. CASE st[k].state = "processed"
    BY <1>1, <1>3, <2>2, <2>4, TimeAssumption
       DEF Completion!Entry, Completion!WithinTtl, Completion!SaturatingSub
  <2> QED BY <1>1, <1>3, <2>3, <2>4 DEF Completion!Entry
<1> QED BY <1>2, <1>3

-----------------------------------------------------------------------------
LEMMA SaveTellsInit == HInit => SaveTells
BY DEF HInit, Init, SaveTells

LEMMA SaveTellsStep ==
    TypeOK /\ TypeOK' /\ SaveTells /\ [HNext]_hvars => SaveTells'
<1> SUFFICES ASSUME TypeOK, TypeOK', SaveTells, [HNext]_hvars, pc' = "write"
             PROVE  SaveTells'
  BY DEF SaveTells
<1>1. CASE CreateStateFile
  <2>1. /\ state_file'.store = Completion!purge_expired(store, now)
        /\ UNCHANGED <<now, store>>
    BY <1>1 DEF CreateStateFile, Completion!truncated, world
  <2>2. store \in Completion!Store /\ now \in Nat
    BY DEF TypeOK
  <2> QED BY <2>1, <2>2, LedgerPurge DEF SaveTells
<1>2. CASE pc = "write" /\ now <= now' /\ UNCHANGED <<store, state_file>>
  <2>1. \A k \in Keys : store[k].updated_at \in Nat
    BY DEF TypeOK, Completion!Store, Completion!Entry
  <2>2. now \in Nat /\ now' \in Nat /\ DedupeTtl \in Nat
    BY TimeAssumption DEF TypeOK
  <2>3. state_file' = state_file /\ store' = store
    BY <1>2
  <2>4. \A k \in Keys :
          now > store[k].updated_at + DedupeTtl
             => now' > store[k].updated_at + DedupeTtl
    BY <1>2, <2>1, <2>2
  <2> QED BY <1>2, <2>3, <2>4 DEF SaveTells, ledger
<1>3. CASE Tick \/ WorldStep
  <2>1. now <= now' /\ UNCHANGED <<memory, state_file>>
    BY <1>3 DEF Tick, WorldStep, WriteArtifact, DeleteArtifact, StartProcess,
                ExitProcess, TypeOK
  <2> QED BY <1>2, <2>1 DEF memory
<1>4. CASE UNCHANGED hvars
  <2>1. now <= now' /\ UNCHANGED <<memory, state_file>>
    BY <1>4 DEF hvars, vars, world, memory, TypeOK
  <2> QED BY <1>2, <2>1 DEF memory
<1>5. CASE HProcessEvent \/ \E s \in Sessions : HReconcile(s)
  BY <1>5 DEF HProcessEvent, ProcessEvent, HReconcile, Reconcile, Dispatch
<1>6. CASE HFinishEvent
  BY <1>6 DEF HFinishEvent, FinishEvent, TypeOK, Job
<1>7. CASE HStop \/ HWriteStateFile \/ \E a \in Artifacts : HCheckArtifact(a)
  BY <1>7 DEF HStop, ReceiveMalformed, RemediationFails, RemoveFails,
              EnforcementFails, Crash, VanishBeforeStat, Exit,
              HWriteStateFile, WriteStateFile, EndCycle, HCheckArtifact,
              CheckArtifact
<1>8. CASE /\ Unrecorded
           /\ ~ (CreateStateFile \/ Tick \/ WorldStep)
  <2>1. CASE Start \/ IdleTimeout \/ ClientStep \/ Collect \/ InferEvents
             \/ ProcessesDone \/ FlushFails
    BY <2>1 DEF Start, IdleTimeout, ClientStep, Accept, ReceiveBatch, Collect,
                InferEvents, ProcessesDone, FlushFails, EndCycle
  <2>2. CASE \/ \E p \in Processes : RemediateProcess(p)
             \/ \E g \in Groups : RemediateGroup(g)
             \/ \E a \in Artifacts : RemoveArtifact(a)
             \/ \E victims \in SUBSET Processes : EnforceMemory(victims)
    BY <2>2 DEF RemediateProcess, RemediateGroup, RemoveArtifact, EnforceMemory
  <2> QED BY <1>8, <2>1, <2>2 DEF Unrecorded
<1> QED BY <1>1, <1>3, <1>4, <1>5, <1>6, <1>7, <1>8 DEF HNext

(* completion.rs and daemon.rs: what memory holds and what a save in        *)
(* progress holds are the same work, but for expired completions.           *)
THEOREM DedupeIInvHolds == HSpec => []DedupeIInv
<1>1. HSpec => []SaveTells
  BY HistoryTypeCorrect, SaveTellsInit, SaveTellsStep, PTL DEF HSpec
<1>2. TypeOK /\ DedupeInv /\ SaveTells => DedupeIInv
  BY DEF DedupeIInv
<1> QED BY <1>1, <1>2, HistoryTypeCorrect, DedupeInvHolds, PTL

-----------------------------------------------------------------------------
LEMMA LedgerInit == HInit => Work!Init
<1> SUFFICES ASSUME HInit PROVE Work!Init
  OBVIOUS
<1>1. saved_ledger = [readable |-> TRUE, entry |-> Work!AllIdle]
  BY LedgerEmpty DEF HInit, Init, saved_ledger, Completion!loadable,
                     Completion!load_completion_state, Completion!NoStateFile
<1> QED BY <1>1 DEF HInit, Init, Work!Init

LEMMA LedgerStutter ==
    ASSUME pc' = "down" <=> pc = "down", UNCHANGED <<now, store, state_file>>
    PROVE  UNCHANGED Work!lvars
<1>1. saved_ledger' = saved_ledger /\ ledger(store)' = ledger(store)
  BY DEF saved_ledger, ledger
<1> QED BY <1>1 DEF Work!lvars

(* Taking an event up: a duplicate changes nothing. *)
LEMMA LedgerDispatch ==
    ASSUME TypeOK, NEW e \in Events, NEW at \in Nat, at <= now,
           NEW resume \in {"batch", "reconcile"}, pc # "down",
           Dispatch(e, at, resume), UNCHANGED <<now, state_file>>
    PROVE  [Work!Next]_(Work!lvars)
<1> DEFINE key == dedupe_key(e)
<1>1. key \in Keys /\ store \in Completion!Store /\ now \in Nat
  BY KeyType DEF TypeOK
<1>2. pc' # "down"
  BY DEF Dispatch, decision
<1>3. CASE Completion!IsDuplicate(store, key, at)
  <2>1. store' = store
    BY <1>3 DEF Dispatch, decision, Completion!begin
  <2> QED BY <1>2, <2>1, LedgerStutter
<1>4. CASE ~ Completion!IsDuplicate(store, key, at)
  <2>1. store' = [store EXCEPT ![key] = Completion!Pending(at)]
    BY <1>4 DEF Dispatch, decision, Completion!begin
  <2>2. ledger(store') = [ledger(store) EXCEPT ![key] = Work!Open]
    BY <1>1, <2>1, LedgerPending
  <2>3. ledger(store)[key].state = "done" => at > ledger(store)[key].at + DedupeTtl
    <3>1. store[key] \in Completion!Entry
      BY <1>1 DEF Completion!Store
    <3>2. store[key].state = "processed" => at > store[key].updated_at + DedupeTtl
      BY <1>4, <3>1, TimeAssumption
         DEF Completion!Entry, Completion!IsDuplicate, Completion!WithinTtl,
             Completion!SaturatingSub
    <3> QED BY <1>1, <3>2 DEF ledger
  <2>4. saved_ledger' = saved_ledger
    BY DEF saved_ledger
  <2>5. Work!Take(key, at)
    BY <1>2, <2>2, <2>3, <2>4 DEF Work!Take, ledger
  <2>6. at \in 0..now
    BY <1>1
  <2> QED BY <1>1, <2>5, <2>6 DEF Work!Next
<1> QED BY <1>3, <1>4

LEMMA LedgerFinish ==
    ASSUME TypeOK, DedupeInv, HFinishEvent
    PROVE  [Work!Next]_(Work!lvars)
<1> DEFINE key == dedupe_key(job.event)
<1>1. /\ pc = "artifacts" /\ pc' # "down"
      /\ UNCHANGED <<now, state_file>>
  BY DEF HFinishEvent, FinishEvent, world, TypeOK, Job
<1>2. CASE job.in_grace
  BY <1>1, <1>2, LedgerStutter DEF HFinishEvent, FinishEvent
<1>3. CASE ~ job.in_grace
  <2>1. store' = Completion!mark_processed(store, key, job.at)
    BY <1>3 DEF HFinishEvent, FinishEvent
  <2>2. /\ key \in Keys /\ job.at \in Nat /\ store \in Completion!Store
        /\ now \in Nat /\ store[key] = Completion!Pending(job.at)
    BY <1>1, KeyType DEF DedupeInv, JobPending, InJob, TypeOK, Job
  <2>3. job.at <= now
    <3>1. EntryAgrees(store[key], last_done[key], now)
      BY <1>1, <2>2 DEF DedupeInv, MemoryAgrees, Agrees
    <3> QED BY <2>2, <3>1 DEF EntryAgrees, Completion!Pending
  <2>4. ledger(store') = [ledger(store) EXCEPT ![key] = Work!Done(job.at)]
    BY <2>1, <2>2, LedgerProcessed
  <2>5. ledger(store)[key] = Work!Open
    BY <2>2 DEF ledger, Completion!Pending, Work!Open
  <2>6. saved_ledger' = saved_ledger
    BY <1>1 DEF saved_ledger
  <2>7. Work!Complete(key, job.at)
    BY <1>1, <2>3, <2>4, <2>5, <2>6 DEF Work!Complete, ledger
  <2>8. job.at \in 0..now
    BY <2>2, <2>3
  <2> QED BY <2>2, <2>7, <2>8 DEF Work!Next
<1> QED BY <1>2, <1>3

LEMMA LedgerSave ==
    ASSUME TypeOK, DedupeInv, SaveTells,
           CreateStateFile \/ WriteStateFile \/ FlushFails
    PROVE  [Work!Next]_(Work!lvars)
<1>1. CASE CreateStateFile
  <2>1. /\ pc # "down" /\ pc' # "down" /\ UNCHANGED <<now, store>>
        /\ state_file'.kind = "torn"
    BY <1>1 DEF CreateStateFile, Completion!truncated, world
  <2>2. saved_ledger' = [readable |-> FALSE, entry |-> Work!AllIdle]
    BY <2>1, LedgerEmpty DEF saved_ledger, Completion!loadable
  <2>3. ledger(store)' = ledger(store)
    BY <2>1 DEF ledger
  <2> QED BY <2>1, <2>2, <2>3 DEF Work!BeginSave, Work!Next
<1>2. CASE WriteStateFile
  <2>1. /\ pc = "write" /\ pc' = "receive" /\ UNCHANGED <<now, store>>
        /\ state_file'.store = state_file.store
        /\ state_file'.kind = "complete"
    BY <1>2 DEF WriteStateFile, EndCycle, world, Completion!written,
                Completion!StateFile, TypeOK
  <2> DEFINE left == ledger(state_file.store)
             dropped == {k \in Keys : left[k] # ledger(store)[k]}
  <2>2. saved_ledger' = [readable |-> TRUE, entry |-> left]
    BY <2>1 DEF saved_ledger, Completion!loadable,
                Completion!load_completion_state
  <2>3. ledger(store)' = ledger(store)
    BY <2>1 DEF ledger
  <2>4. \A k \in dropped :
          /\ left[k] = Work!Idle
          /\ ledger(store)[k].state = "done"
          /\ now > ledger(store)[k].at + DedupeTtl
    BY <2>1 DEF SaveTells, ledger
  <2>5. left = [k \in Keys |-> IF k \in dropped THEN Work!Idle ELSE ledger(store)[k]]
    <3>1. \A k \in Keys : left[k] = IF k \in dropped THEN Work!Idle
                                     ELSE ledger(store)[k]
      BY <2>4
    <3>2. left = [k \in Keys |-> left[k]]
      BY DEF ledger
    <3> QED BY <3>1, <3>2
  <2>6. dropped \in SUBSET {k \in Keys : Work!Expired(k)}
    BY <2>1, <2>4 DEF Work!Expired
  <2>7. Work!FinishSave
    BY <2>1, <2>2, <2>3, <2>5, <2>6 DEF Work!FinishSave
  <2> QED BY <2>7 DEF Work!Next
<1>3. CASE FlushFails
  <2>1. /\ pc = "write" /\ pc' = "receive"
        /\ UNCHANGED <<now, store, state_file>>
    BY <1>3 DEF FlushFails, EndCycle, world
  <2> QED BY <2>1, LedgerStutter
<1> QED BY <1>1, <1>2, <1>3

LEMMA LedgerStop ==
    ASSUME TypeOK, HStop
    PROVE  [Work!Next]_(Work!lvars)
<1>1. Exit /\ UNCHANGED <<now, state_file>> /\ pc # "down"
  BY DEF HStop, ReceiveMalformed, RemediationFails, RemoveFails,
         EnforcementFails, Crash, VanishBeforeStat, world
<1>2. pc' = "down" /\ saved_ledger' = saved_ledger
  BY <1>1 DEF Exit, saved_ledger
<1> QED BY <1>1, <1>2 DEF Work!Stop, Work!Next

LEMMA LedgerStart ==
    ASSUME TypeOK, Start
    PROVE  [Work!Next]_(Work!lvars)
<1>1. /\ pc = "down" /\ pc' # "down" /\ UNCHANGED <<now, state_file>>
      /\ Completion!loadable(state_file)
      /\ store' = Completion!load_completion_state(state_file)
  BY DEF Start, world
<1>2. saved_ledger' = saved_ledger
  BY <1>1 DEF saved_ledger
<1>3. saved_ledger.readable /\ saved_ledger.entry = ledger(store')
  BY <1>1 DEF saved_ledger
<1> QED BY <1>1, <1>2, <1>3 DEF Work!Start, Work!Next, ledger

LEMMA LedgerTick ==
    ASSUME TypeOK, Tick
    PROVE  [Work!Next]_(Work!lvars)
<1>1. now' = now + 1 /\ UNCHANGED <<pc, store, state_file>>
  BY DEF Tick, memory
<1>2. saved_ledger' = saved_ledger /\ ledger(store)' = ledger(store)
  BY <1>1 DEF saved_ledger, ledger
<1> QED BY <1>1, <1>2 DEF Work!Tick, Work!Next

LEMMA LedgerStep ==
    TypeOK /\ DedupeInv /\ SaveTells /\ [HNext]_hvars => [Work!Next]_(Work!lvars)
<1> SUFFICES ASSUME TypeOK, DedupeInv, SaveTells, [HNext]_hvars
             PROVE  [Work!Next]_(Work!lvars)
  OBVIOUS
<1>1. CASE HProcessEvent
  <2>1. CASE Head(batch).source \in EnabledSources
    <3>1. /\ Dispatch(Head(batch), now, "batch") /\ pc = "batch"
          /\ UNCHANGED <<now, state_file>>
      BY <1>1, <2>1 DEF HProcessEvent, ProcessEvent, world
    <3>2. Head(batch) \in Events
      BY <1>1 DEF HProcessEvent, ProcessEvent, TypeOK, Events
    <3>3. now \in Nat /\ now <= now
      BY DEF TypeOK
    <3> QED BY <3>1, <3>2, <3>3, LedgerDispatch
  <2>2. CASE Head(batch).source \notin EnabledSources
    BY <1>1, <2>2, LedgerStutter DEF HProcessEvent, ProcessEvent, world
  <2> QED BY <2>1, <2>2
<1>2. ASSUME NEW s \in Sessions, HReconcile(s) PROVE [Work!Next]_(Work!lvars)
  <2>1. /\ Dispatch(inferred_event(s), cycle_now, "reconcile")
        /\ pc = "reconcile" /\ UNCHANGED <<now, state_file>>
    BY <1>2 DEF HReconcile, Reconcile, world
  <2>2. cycle_now <= now /\ cycle_now \in Nat
    BY <2>1 DEF DedupeInv, CycleClock, InCycle, TypeOK
  <2> QED BY <2>1, <2>2, InferredEventType, LedgerDispatch
<1>3. CASE HFinishEvent
  BY <1>3, LedgerFinish
<1>4. CASE HStop
  BY <1>4, LedgerStop
<1>5. CASE CreateStateFile \/ HWriteStateFile \/ FlushFails
  BY <1>5, LedgerSave DEF HWriteStateFile
<1>6. CASE Start
  BY <1>6, LedgerStart
<1>7. CASE Tick
  BY <1>7, LedgerTick
<1>8. CASE Quiet /\ ~ Tick
  <2>1. UNCHANGED <<now, store, state_file>>
    BY <1>8 DEF Quiet, IdleTimeout, ClientStep, Accept, ReceiveBatch,
                InferEvents, RemediateProcess, RemediateGroup, ProcessesDone,
                RemoveArtifact, CheckArtifact, EnforceMemory, WorldStep,
                WriteArtifact, DeleteArtifact, StartProcess, ExitProcess,
                world, memory
  <2>2. pc' = "down" <=> pc = "down"
    BY <1>8 DEF Quiet, IdleTimeout, ClientStep, Accept, ReceiveBatch,
                InferEvents, RemediateProcess, RemediateGroup, ProcessesDone,
                RemoveArtifact, CheckArtifact, EnforceMemory, WorldStep,
                WriteArtifact, DeleteArtifact, StartProcess, ExitProcess,
                memory
  <2> QED BY <2>1, <2>2, LedgerStutter
<1>9. CASE Collect
  BY <1>9, LedgerStutter DEF Collect, world
<1>10. ASSUME NEW a \in Artifacts, HCheckArtifact(a)
       PROVE  [Work!Next]_(Work!lvars)
  <2>1. pc = "artifacts" /\ pc' \in {"artifacts", "remove"}
    BY <1>10 DEF HCheckArtifact, CheckArtifact
  <2> QED BY <1>10, <2>1, LedgerStutter DEF HCheckArtifact, CheckArtifact, world
<1>11. CASE UNCHANGED hvars
  BY <1>11, LedgerStutter DEF hvars, vars, world, memory
<1> QED
  BY <1>1, <1>2, <1>3, <1>4, <1>5, <1>6, <1>7, <1>8, <1>9, <1>10, <1>11
     DEF HNext, Unrecorded, Quiet

(* completion.rs and daemon.rs implement the ledger for all values of the   *)
(* constants: whatever else the daemon does, and wherever it stops, its     *)
(* work is taken up, completed, saved and restored as the ledger allows.    *)
THEOREM ImplementsLedgerHolds == HSpec => ImplementsLedger
<1>1. DedupeIInv => TypeOK /\ DedupeInv /\ SaveTells
  BY DEF DedupeIInv
<1>2. HSpec => [][Work!Next]_(Work!lvars)
  BY <1>1, LedgerStep, DedupeIInvHolds, PTL DEF HSpec
<1>3. HSpec => Work!Init
  BY LedgerInit DEF HSpec
<1> QED BY <1>2, <1>3, PTL DEF ImplementsLedger, Work!Spec
-----------------------------------------------------------------------------
(* What a cycle's reconciliation has done when the cycle comes to its save: *)
(* the safety half of StorageComesClean.                                    *)

(* The files that reconciliation is there for: the snapshot has them, the   *)
(* allowlist covers them, and at cycle_now they are past the grace.         *)
Ripe ==
    {a \in snapshot \cap files : /\ is_path_allowlisted(a)
                                 /\ mtime[a] < cycle_now
                                 /\ cycle_now - mtime[a] >= Grace}

Settled(s) ==
    Completion!IsDuplicate(store, dedupe_key(inferred_event(s)), cycle_now)

(* run_reconciliation leaves no ripe file behind of a session whose         *)
(* completion is not already within the TTL.                                *)
Reconciled ==
    pc \in {"persist", "write"} /\ "inferred" \in EnabledSources =>
        \A a \in Ripe : \A s \in ArtifactSessions[a] : Settled(s)

AtTurn == InJob /\ job.resume = "reconcile"

(* A session that is still to come, or the one whose event is being         *)
(* handled, as long as the file is.                                         *)
ToCome(s, a) ==
    \/ s \in inferred
    \/ /\ AtTurn
       /\ job.event = inferred_event(s)
       /\ a \in job.artifacts \cup job.removing

ReconcileInv ==
    /\ AtTurn => job.at = cycle_now
    /\ pc \in {"persist", "write"} => inferred = {}
    /\ /\ "inferred" \in EnabledSources
       /\ pc \in {"reconcile", "persist", "write"} \/ AtTurn
       => \A a \in Ripe : \A s \in ArtifactSessions[a] :
              Settled(s) \/ ToCome(s, a)

(* A file that is written now is younger than the cycle. *)
LEMMA RipeOnlyLess ==
    ASSUME TypeOK, TypeOK', UNCHANGED <<snapshot, cycle_now>>,
           \A a \in files' : \/ a \in files /\ mtime'[a] = mtime[a]
                             \/ mtime'[a] >= cycle_now
    PROVE  Ripe' \subseteq Ripe
<1>1. cycle_now \in Nat /\ \A a \in Artifacts : mtime[a] \in Nat /\ mtime'[a] \in Nat
  BY DEF TypeOK
<1>2. files' \subseteq Artifacts
  BY DEF TypeOK
<1> QED BY <1>1, <1>2 DEF Ripe, is_path_allowlisted

(* Steps that neither take up an event, nor finish one, nor save. *)
LEMMA TurnGoesOn ==
    ASSUME ReconcileInv, Ripe' \subseteq Ripe,
           UNCHANGED <<store, inferred, cycle_now>>,
           pc' = pc \/ (InJob /\ InJob'),
           /\ job'.event = job.event /\ job'.at = job.at
           /\ job'.resume = job.resume,
           \A a \in Ripe' : a \in job.artifacts \cup job.removing
                              => a \in job'.artifacts \cup job'.removing
    PROVE  ReconcileInv'
<1>1. AtTurn' <=> AtTurn
  BY DEF AtTurn, InJob
<1>2. \A s : Settled(s)' <=> Settled(s)
  BY DEF Settled, Completion!IsDuplicate, Completion!WithinTtl
<1>3. \A a \in Ripe' : \A s : ToCome(s, a) => ToCome(s, a)'
  BY <1>1 DEF ToCome
<1>4. pc' \in {"reconcile", "persist", "write"} => pc' = pc
  BY DEF InJob
<1> QED BY <1>1, <1>2, <1>3, <1>4 DEF ReconcileInv

(* After these steps the invariant has nothing to say. *)
LEMMA NoTurn ==
    pc' \notin {"reconcile", "persist", "write"} /\ ~ AtTurn' => ReconcileInv'
BY DEF ReconcileInv

LEMMA InferEventsReconciles ==
    ASSUME TypeOK, InferEvents PROVE ReconcileInv'
<1>1. /\ pc' = "reconcile" /\ UNCHANGED <<snapshot, files>>
      /\ "inferred" \in EnabledSources => inferred' = collect_session_ids
  BY DEF InferEvents, world
<1>2. ~ AtTurn'
  BY <1>1 DEF AtTurn, InJob
<1>3. "inferred" \in EnabledSources =>
         \A a \in Ripe' : \A s \in ArtifactSessions[a] : s \in inferred'
  BY <1>1 DEF Ripe, collect_session_ids
<1> QED BY <1>1, <1>2, <1>3 DEF ReconcileInv, ToCome

(* The event of a session with a ripe file is a duplicate, or is taken up   *)
(* with that file among what is left to do.                                 *)
LEMMA ReconcileReconciles ==
    ASSUME TypeOK, TypeOK', ReconcileInv, NEW t \in Sessions, Reconcile(t)
    PROVE  ReconcileInv'
<1> DEFINE e == inferred_event(t)
           key == dedupe_key(e)
<1>1. /\ pc = "reconcile" /\ inferred' = inferred \ {t}
      /\ Dispatch(e, cycle_now, "reconcile")
      /\ UNCHANGED <<files, mtime, snapshot, cycle_now>>
  BY DEF Reconcile, world
<1>2. Ripe' = Ripe /\ ~ AtTurn
  BY <1>1 DEF Ripe, is_path_allowlisted, AtTurn, InJob
<1>3. "inferred" \in EnabledSources =>
         \A a \in Ripe : \A s \in ArtifactSessions[a] :
             Settled(s) \/ s \in inferred
  BY <1>1, <1>2 DEF ReconcileInv, ToCome
<1>4. \A s : Settled(s) => Settled(s)'
  <2> SUFFICES ASSUME NEW s, Settled(s) PROVE Settled(s)'
    OBVIOUS
  <2>1. store' = Completion!begin(store, key, cycle_now)
    BY <1>1 DEF Dispatch
  <2>2. CASE Completion!IsDuplicate(store, key, cycle_now)
    BY <1>1, <2>1, <2>2 DEF Completion!begin, Settled, Completion!IsDuplicate,
                            Completion!WithinTtl
  <2>3. CASE ~ Completion!IsDuplicate(store, key, cycle_now)
    <3>1. dedupe_key(inferred_event(s)) # key
      BY <2>3 DEF Settled
    <3>2. store'[dedupe_key(inferred_event(s))]
            = store[dedupe_key(inferred_event(s))]
      BY <2>1, <2>3, <3>1 DEF Completion!begin
    <3> QED BY <1>1, <3>2 DEF Settled, Completion!IsDuplicate,
                              Completion!WithinTtl
  <2> QED BY <2>2, <2>3
<1>5. \A a \in Ripe : t \in ArtifactSessions[a] => a \in resolved_artifacts(e)
  BY DEF Ripe, resolved_artifacts, accepts_completion_event, inferred_event
<1>6. CASE decision(e, cycle_now) = "skip"
  <2>1. pc' = "reconcile" /\ ~ AtTurn' /\ Settled(t)
    BY <1>1, <1>6 DEF Dispatch, decision, Settled, AtTurn, InJob
  <2> QED BY <1>1, <1>2, <1>3, <1>4, <2>1 DEF ReconcileInv, ToCome
<1>7. CASE decision(e, cycle_now) = "deferred"
  <2>1. pc' = "reconcile" /\ ~ AtTurn'
    BY <1>1, <1>7 DEF Dispatch, AtTurn, InJob
  <2>2. \A a \in Ripe : t \notin ArtifactSessions[a]
    BY <1>5, <1>7 DEF decision, immediate_cleanup_eligible
  <2> QED BY <1>1, <1>2, <1>3, <1>4, <2>1, <2>2 DEF ReconcileInv, ToCome
<1>8. CASE decision(e, cycle_now) = "immediate"
  <2>1. /\ pc' = "processes" /\ job'.event = e /\ job'.at = cycle_now
        /\ job'.resume = "reconcile"
        /\ job'.artifacts = resolved_artifacts(e)
    BY <1>1, <1>8 DEF Dispatch, NoJob
  <2>2. AtTurn'
    BY <2>1 DEF AtTurn, InJob
  <2> QED BY <1>1, <1>2, <1>3, <1>4, <1>5, <2>1, <2>2
          DEF ReconcileInv, ToCome
<1> QED BY <1>6, <1>7, <1>8 DEF decision

LEMMA CheckReconciles ==
    ASSUME TypeOK, TypeOK', FilesInv, ReconcileInv,
           NEW b \in Artifacts, CheckArtifact(b)
    PROVE  ReconcileInv'
<1>1. /\ pc = "artifacts" /\ pc' \in {"artifacts", "remove"}
      /\ UNCHANGED <<files, mtime, snapshot, cycle_now, store, inferred>>
  BY DEF CheckArtifact, world
<1>2. Ripe' = Ripe /\ Ripe \subseteq Artifacts
  BY <1>1 DEF Ripe, is_path_allowlisted, TypeOK
<1>3. /\ job'.event = job.event /\ job'.at = job.at
      /\ job'.resume = job.resume /\ job'.artifacts = job.artifacts \ {b}
  BY DEF CheckArtifact, TypeOK, Job
<1>4. CASE ~ AtTurn
  BY <1>1, <1>3, <1>4, NoTurn DEF AtTurn, InJob
<1>5. CASE AtTurn
  <2>1. job.at = cycle_now /\ job.removing = {}
    BY <1>1, <1>5 DEF ReconcileInv, FilesInv, FilesAccounted
  <2>2. b \in Ripe => ~ is_within_active_session_grace(b)
    <3>1. cycle_now \in Nat /\ mtime[b] \in Nat
      BY DEF TypeOK
    <3> QED BY <2>1, <3>1, TimeAssumption
            DEF Ripe, is_within_active_session_grace,
                Completion!SaturatingSub
  <2>3. b \in Ripe => b \in job'.removing
    <3> SUFFICES ASSUME b \in Ripe PROVE b \in job'.removing
      OBVIOUS
    <3>1. job' = [job EXCEPT !.artifacts = @ \ {b}, !.removing = {b}]
      BY <2>2 DEF CheckArtifact, Ripe
    <3> QED BY <3>1 DEF TypeOK, Job
  <2>4. \A a \in Ripe' : a \in job.artifacts \cup job.removing
                            => a \in job'.artifacts \cup job'.removing
    BY <1>2, <1>3, <2>1, <2>3
  <2> QED BY <1>1, <1>2, <1>3, <2>4, TurnGoesOn DEF InJob
<1> QED BY <1>4, <1>5

LEMMA RemoveReconciles ==
    ASSUME TypeOK, TypeOK', FilesInv, ReconcileInv,
           NEW b \in Artifacts, RemoveArtifact(b)
    PROVE  ReconcileInv'
<1>1. /\ pc = "remove" /\ pc' = "artifacts" /\ files' = files \ {b}
      /\ b \in job.removing
      /\ UNCHANGED <<mtime, snapshot, cycle_now, store, inferred>>
  BY DEF RemoveArtifact
<1>2. job.removing = {b}
  BY <1>1 DEF FilesInv, RemovalGrounded
<1>3. /\ job'.event = job.event /\ job'.at = job.at
      /\ job'.resume = job.resume /\ job'.artifacts = job.artifacts
  BY DEF RemoveArtifact, TypeOK, Job
<1>4. Ripe' \subseteq Ripe /\ b \notin Ripe'
  BY <1>1 DEF Ripe, is_path_allowlisted
<1> QED BY <1>1, <1>2, <1>3, <1>4, TurnGoesOn DEF InJob

LEMMA ProcessStepsReconcile ==
    ASSUME TypeOK, TypeOK', ReconcileInv,
           \/ \E p \in Processes : RemediateProcess(p)
           \/ \E g \in Groups : RemediateGroup(g)
           \/ ProcessesDone
    PROVE  ReconcileInv'
<1>1. /\ pc = "processes" /\ pc' \in {"processes", "artifacts"}
      /\ UNCHANGED <<files, mtime, snapshot, cycle_now, store, inferred>>
  BY DEF RemediateProcess, RemediateGroup, ProcessesDone, world
<1>2. /\ job'.event = job.event /\ job'.at = job.at
      /\ job'.resume = job.resume /\ job'.artifacts = job.artifacts
      /\ job'.removing = job.removing
  BY DEF RemediateProcess, RemediateGroup, ProcessesDone, TypeOK, Job
<1>3. Ripe' = Ripe
  BY <1>1 DEF Ripe, is_path_allowlisted
<1> QED BY <1>1, <1>2, <1>3, TurnGoesOn DEF InJob

(* Every ripe file of the event is gone when it is finished with, whether   *)
(* a younger one held the completion back or not.                           *)
LEMMA FinishReconciles ==
    ASSUME TypeOK, TypeOK', FilesInv, ReconcileInv, FinishEvent
    PROVE  ReconcileInv'
<1> DEFINE key == dedupe_key(job.event)
<1>1. /\ pc = "artifacts" /\ job.artifacts = {} /\ pc' = job.resume
      /\ UNCHANGED <<files, mtime, snapshot, cycle_now, inferred>>
  BY DEF FinishEvent, world
<1>2. ~ AtTurn' /\ Ripe' = Ripe
  <2>1. job.resume \in {"batch", "reconcile"}
    BY DEF TypeOK, Job
  <2> QED BY <1>1, <2>1 DEF AtTurn, InJob, Ripe, is_path_allowlisted
<1>3. CASE ~ AtTurn
  <2>1. pc' = "batch"
    BY <1>1, <1>3 DEF AtTurn, InJob, TypeOK, Job
  <2> QED BY <1>2, <2>1, NoTurn
<1>4. CASE AtTurn
  <2>1. pc' = "reconcile" /\ job.at = cycle_now
    BY <1>1, <1>4 DEF AtTurn, ReconcileInv
  <2>2. job.removing = {}
    BY <1>1 DEF FilesInv, FilesAccounted
  <2>3. \A s \in Sessions : Settled(s) => Settled(s)'
    <3> SUFFICES ASSUME NEW s \in Sessions, Settled(s) PROVE Settled(s)'
      OBVIOUS
    <3> DEFINE other == dedupe_key(inferred_event(s))
    <3>1. CASE store' = store \/ other # key
      <4>1. store'[other] = store[other]
        BY <3>1 DEF FinishEvent, Completion!mark_processed
      <4> QED BY <1>1, <4>1 DEF Settled, Completion!IsDuplicate,
                                Completion!WithinTtl
    <3>2. CASE store' # store /\ other = key
      <4>1. store' = Completion!mark_processed(store, key, cycle_now)
        BY <2>1, <3>2 DEF FinishEvent
      <4>2. key \in Keys
        BY <3>2, KeyType, InferredEventType
      <4>3. store'[key] = Completion!Processed(cycle_now)
        BY <4>1, <4>2 DEF Completion!mark_processed, TypeOK, Completion!Store
      <4>4. cycle_now \in Nat
        BY DEF TypeOK
      <4> HIDE DEF key, other
      <4> QED
        BY <1>1, <3>2, <4>3, <4>4, TimeAssumption
           DEF Settled, Completion!IsDuplicate, Completion!WithinTtl, other,
               Completion!SaturatingSub, Completion!Processed
    <3> QED BY <3>1, <3>2
  <2>4. "inferred" \in EnabledSources =>
           \A a \in Ripe : \A s \in ArtifactSessions[a] :
               Settled(s) \/ s \in inferred
    BY <1>1, <1>4, <2>2 DEF ReconcileInv, ToCome
  <2>5. \A a \in Ripe : ArtifactSessions[a] \subseteq Sessions
    BY WorldAssumption DEF Ripe, TypeOK
  <2> QED BY <1>1, <1>2, <2>1, <2>3, <2>4, <2>5 DEF ReconcileInv, ToCome
<1> QED BY <1>3, <1>4

LEMMA SaveReconciles ==
    ASSUME TypeOK, TypeOK', ReconcileInv,
           \/ \E victims \in SUBSET Processes : EnforceMemory(victims)
           \/ CreateStateFile \/ WriteStateFile \/ FlushFails
    PROVE  ReconcileInv'
<1>1. CASE WriteStateFile \/ FlushFails
  BY <1>1, NoTurn DEF WriteStateFile, FlushFails, EndCycle, AtTurn, InJob
<1>2. CASE CreateStateFile \/ \E victims \in SUBSET Processes :
                                 EnforceMemory(victims)
  <2>1. /\ \/ pc = "reconcile" /\ inferred = {} /\ pc' = "persist"
           \/ pc = "persist" /\ pc' = "write"
        /\ UNCHANGED <<files, mtime, snapshot, cycle_now, store, inferred>>
    BY <1>2 DEF CreateStateFile, EnforceMemory, world
  <2>2. Ripe' = Ripe /\ ~ AtTurn /\ ~ AtTurn' /\ inferred = {}
    BY <2>1 DEF Ripe, is_path_allowlisted, AtTurn, InJob, ReconcileInv
  <2>3. \A s : Settled(s) => Settled(s)'
    BY <2>1 DEF Settled, Completion!IsDuplicate, Completion!WithinTtl
  <2> QED BY <2>1, <2>2, <2>3 DEF ReconcileInv, ToCome
<1> QED BY <1>1, <1>2

(* A cycle's clock is never ahead of the clock. *)
LEMMA CycleClockStep ==
    TypeOK /\ TypeOK' /\ cycle_now <= now /\ [Next]_vars => cycle_now' <= now'
<1> SUFFICES ASSUME TypeOK, TypeOK', cycle_now <= now, [Next]_vars
             PROVE  cycle_now' <= now'
  OBVIOUS
<1>1. cycle_now' \in {cycle_now, now, 0}
  BY DEF Next, Start, DaemonStep, IdleTimeout, Collect, ProcessEvent,
         InferEvents, Reconcile, RemediateProcess, RemediateGroup,
         ProcessesDone, CheckArtifact, RemoveArtifact, RemoveFails,
         FinishEvent, EnforceMemory, CreateStateFile, WriteStateFile,
         EndCycle, DaemonFault, ReceiveMalformed, RemediationFails,
         EnforcementFails, FlushFails, Crash, VanishBeforeStat, Exit,
         ClientStep, Accept, ReceiveBatch, Tick, WorldStep, WriteArtifact,
         DeleteArtifact, StartProcess, ExitProcess, vars, memory
<1>2. now' \in {now, now + 1}
  BY DEF Next, Start, DaemonStep, IdleTimeout, Collect, ProcessEvent,
         InferEvents, Reconcile, RemediateProcess, RemediateGroup,
         ProcessesDone, CheckArtifact, RemoveArtifact, RemoveFails,
         FinishEvent, EnforceMemory, CreateStateFile, WriteStateFile,
         EndCycle, DaemonFault, ReceiveMalformed, RemediationFails,
         EnforcementFails, FlushFails, Crash, VanishBeforeStat, Exit,
         ClientStep, Accept, ReceiveBatch, Tick, WorldStep, WriteArtifact,
         DeleteArtifact, StartProcess, ExitProcess, vars, world
<1> QED BY <1>1, <1>2 DEF TypeOK

(* What is written now is younger than the cycle, and no other step of the  *)
(* world makes a file ripe.                                                 *)
LEMMA WorldReconciles ==
    ASSUME TypeOK, TypeOK', cycle_now <= now, ReconcileInv, WorldStep \/ Tick
    PROVE  ReconcileInv'
<1>1. UNCHANGED memory
  BY DEF WorldStep, Tick, WriteArtifact, DeleteArtifact, StartProcess,
         ExitProcess
<1>2. \A a \in files' : \/ a \in files /\ mtime'[a] = mtime[a]
                        \/ mtime'[a] >= cycle_now
  <2>1. ASSUME NEW b \in Artifacts, WriteArtifact(b), NEW a \in files'
        PROVE  \/ a \in files /\ mtime'[a] = mtime[a]
               \/ mtime'[a] >= cycle_now
    BY <2>1 DEF WriteArtifact, TypeOK
  <2> QED BY <2>1 DEF WorldStep, Tick, DeleteArtifact, StartProcess,
                      ExitProcess
<1>3. Ripe' \subseteq Ripe
  BY <1>1, <1>2, RipeOnlyLess DEF memory
<1>4. \A a \in Ripe' : a \in job.artifacts \cup job.removing
                          => a \in job'.artifacts \cup job'.removing
  BY <1>1 DEF memory
<1> QED BY <1>1, <1>3, <1>4, TurnGoesOn DEF memory

LEMMA ReconcileInvStep ==
    TypeOK /\ TypeOK' /\ FilesInv /\ cycle_now <= now /\ ReconcileInv
        /\ [Next]_vars => ReconcileInv'
<1> SUFFICES ASSUME TypeOK, TypeOK', FilesInv, cycle_now <= now, ReconcileInv,
                    [Next]_vars
             PROVE  ReconcileInv'
  OBVIOUS
<1>1. CASE Start \/ IdleTimeout \/ ClientStep \/ Collect
  BY <1>1, NoTurn DEF Start, IdleTimeout, ClientStep, Accept, ReceiveBatch,
                      Collect, AtTurn, InJob
<1>2. CASE RemoveFails \/ (DaemonFault /\ ~ FlushFails)
  <2>1. pc' = "down"
    BY <1>2 DEF DaemonFault, RemoveFails, ReceiveMalformed, RemediationFails,
                EnforcementFails, Crash, VanishBeforeStat, Exit
  <2> QED BY <2>1, NoTurn DEF AtTurn, InJob
<1>3. CASE ProcessEvent
  <2>1. \/ pc' = "batch"
        \/ pc' = "processes" /\ job'.resume = "batch"
    BY <1>3 DEF ProcessEvent, Dispatch, NoJob
  <2> QED BY <2>1, NoTurn DEF AtTurn, InJob
<1>4. CASE InferEvents
  BY <1>4, InferEventsReconciles
<1>5. CASE \E s \in Sessions : Reconcile(s)
  BY <1>5, ReconcileReconciles
<1>6. CASE \/ \E p \in Processes : RemediateProcess(p)
           \/ \E g \in Groups : RemediateGroup(g)
           \/ ProcessesDone
  BY <1>6, ProcessStepsReconcile
<1>7. CASE \E a \in Artifacts : CheckArtifact(a) \/ RemoveArtifact(a)
  BY <1>7, CheckReconciles, RemoveReconciles
<1>8. CASE FinishEvent
  BY <1>8, FinishReconciles
<1>9. CASE \/ \E victims \in SUBSET Processes : EnforceMemory(victims)
           \/ CreateStateFile \/ WriteStateFile \/ FlushFails
  BY <1>9, SaveReconciles
<1>10. CASE WorldStep \/ Tick
  BY <1>10, WorldReconciles
<1>11. CASE UNCHANGED vars
  <2>1. Ripe' \subseteq Ripe
    BY <1>11 DEF Ripe, is_path_allowlisted, vars, world, memory
  <2>2. UNCHANGED memory
    BY <1>11 DEF vars
  <2>3. \A a \in Ripe' : a \in job.artifacts \cup job.removing
                            => a \in job'.artifacts \cup job'.removing
    BY <2>2 DEF memory
  <2> QED BY <2>1, <2>2, <2>3, TurnGoesOn DEF memory
<1> QED
  BY <1>1, <1>2, <1>3, <1>4, <1>5, <1>6, <1>7, <1>8, <1>9, <1>10, <1>11
     DEF Next, DaemonStep, DaemonFault

(* daemon.rs, run_reconciliation_cycle: when a cycle comes to its save, of  *)
(* every file in its snapshot that is allowlisted and past the grace each   *)
(* session was completed within the TTL; every other such file is gone,     *)
(* whatever came first in the batch and whoever shares a file or a key.     *)
THEOREM ReconciledHolds == HSpec => []Reconciled
<1>1. HInit => cycle_now <= now /\ ReconcileInv
  BY TimeAssumption DEF HInit, Init, ReconcileInv, AtTurn, InJob
<1>2. TypeOK /\ TypeOK' /\ FilesInv /\ cycle_now <= now /\ ReconcileInv
        /\ [HNext]_hvars => (cycle_now <= now)' /\ ReconcileInv'
  <2>1. [HNext]_hvars => [Next]_vars
    BY HistoryWatches DEF hvars
  <2> QED BY <2>1, CycleClockStep, ReconcileInvStep
<1>3. ReconcileInv => Reconciled
  BY DEF ReconcileInv, Reconciled, ToCome, AtTurn, InJob
<1> QED
  BY <1>1, <1>2, <1>3, HistoryTypeCorrect, FilesInvHolds, PTL DEF HSpec
-----------------------------------------------------------------------------
(* How many steps are left of a cycle: of the event in hand, of the events  *)
(* of the batch and of the sessions that may be inferred.                   *)

Finite == IsFiniteSet(Processes) /\ IsFiniteSet(Artifacts) /\ IsFiniteSet(Sessions)

StepsOfJob ==
    CASE pc = "processes" -> 2 * Cardinality(job.processes) + Cardinality(job.pgids)
                               + 2 * Cardinality(job.artifacts) + 2
      [] pc = "artifacts" -> 2 * Cardinality(job.artifacts) + 1
      [] pc = "remove"    -> 2 * Cardinality(job.artifacts) + 2
      [] OTHER            -> 0

(* More than any event takes: each process and its group, each file checked *)
(* and removed. *)
PerEvent == 2 * Cardinality(Processes) + 2 * Cardinality(Artifacts) + 3

ForBatch   == Len(batch) * PerEvent + Cardinality(Sessions) * PerEvent + 4
ForSession == Cardinality(inferred) * PerEvent + 3

UnderWay == InCycle \/ pc \in {"collect", "persist", "write"}

(* What the cycle has come to, once the event in hand is done with. *)
Position == IF InJob THEN job.resume ELSE pc

StepsLeft ==
    CASE Position = "collect"   -> ForBatch + 1
      [] Position = "batch"     -> ForBatch + StepsOfJob
      [] Position = "reconcile" -> ForSession + StepsOfJob
      [] Position = "persist"   -> 2
      [] Position = "write"     -> 1
      [] OTHER                  -> 0

(* Groups are taken from processes one at a time. *)
GroupsFinite == IsFiniteSet(job.pgids)

LEMMA PerEventType ==
    ASSUME Finite
    PROVE  /\ Cardinality(Processes) \in Nat
           /\ Cardinality(Artifacts) \in Nat
           /\ Cardinality(Sessions) \in Nat
           /\ PerEvent \in Nat
BY FS_CardinalityType DEF Finite, PerEvent

LEMMA Times ==
    ASSUME NEW w \in Nat, NEW n \in Nat
    PROVE  /\ n * w \in Nat
           /\ (n + 1) * w = n * w + w
           /\ \A m \in 0..n : m * w <= n * w
OBVIOUS

LEMMA OneLess ==
    ASSUME NEW S, IsFiniteSet(S), NEW x \in S
    PROVE  /\ IsFiniteSet(S \ {x})
           /\ Cardinality(S \ {x}) \in Nat
           /\ Cardinality(S) = Cardinality(S \ {x}) + 1
<1>1. /\ IsFiniteSet(S \ {x})
      /\ Cardinality(S) \in Nat /\ Cardinality(S \ {x}) \in Nat
  BY FS_RemoveElement, FS_CardinalityType
<1>2. Cardinality(S \ {x}) = Cardinality(S) - 1
  BY FS_RemoveElement
<1> QED BY <1>1, <1>2

LEMMA OneMore ==
    ASSUME NEW S, IsFiniteSet(S), NEW x
    PROVE  /\ IsFiniteSet(S \cup {x})
           /\ Cardinality(S \cup {x}) \in Nat
           /\ Cardinality(S \cup {x}) <= Cardinality(S) + 1
<1>1. /\ IsFiniteSet(S \cup {x})
      /\ Cardinality(S) \in Nat /\ Cardinality(S \cup {x}) \in Nat
  BY FS_AddElement, FS_CardinalityType
<1>2. Cardinality(S \cup {x}) = IF x \in S THEN Cardinality(S) ELSE Cardinality(S) + 1
  BY FS_AddElement
<1> QED BY <1>1, <1>2

(* Types of the parts, before a step and after it. *)
LEMMA PartsType ==
    ASSUME Finite, TypeOK, GroupsFinite
    PROVE  /\ Cardinality(job.processes) \in 0..Cardinality(Processes)
           /\ Cardinality(job.artifacts) \in 0..Cardinality(Artifacts)
           /\ Cardinality(job.pgids) \in Nat
           /\ Cardinality(inferred) \in 0..Cardinality(Sessions)
           /\ Len(batch) \in Nat
           /\ StepsOfJob \in Nat
           /\ InJob => StepsOfJob > 0
           /\ ~ InJob => StepsOfJob = 0
<1>1. /\ job.processes \subseteq Processes
      /\ job.artifacts \subseteq Artifacts
      /\ inferred \subseteq Sessions
      /\ Len(batch) \in Nat
  BY DEF TypeOK, Job
<1>2. /\ Cardinality(job.processes) \in 0..Cardinality(Processes)
      /\ Cardinality(job.artifacts) \in 0..Cardinality(Artifacts)
      /\ Cardinality(inferred) \in 0..Cardinality(Sessions)
  BY <1>1, PerEventType, FS_Subset, FS_CardinalityType DEF Finite
<1>3. Cardinality(job.pgids) \in Nat
  BY FS_CardinalityType DEF GroupsFinite
<1>4. /\ Cardinality(job.processes) \in Nat
      /\ Cardinality(job.artifacts) \in Nat
  BY <1>2, PerEventType
<1>5. /\ StepsOfJob \in Nat
      /\ InJob => StepsOfJob > 0
      /\ ~ InJob => StepsOfJob = 0
  <2>1. CASE pc = "processes"
    BY <1>3, <1>4, <2>1 DEF StepsOfJob, InJob
  <2>2. CASE pc = "artifacts"
    BY <1>4, <2>2 DEF StepsOfJob, InJob
  <2>3. CASE pc = "remove"
    BY <1>4, <2>3 DEF StepsOfJob, InJob
  <2>4. CASE ~ InJob
    BY <2>4 DEF StepsOfJob, InJob
  <2> QED BY <2>1, <2>2, <2>3, <2>4 DEF InJob
<1> QED BY <1>1, <1>2, <1>3, <1>5

LEMMA StepsLeftType ==
    ASSUME Finite, TypeOK, GroupsFinite
    PROVE  /\ ForBatch \in Nat /\ ForSession \in Nat
           /\ StepsLeft \in Nat
           /\ UnderWay => StepsLeft > 0
<1>1. /\ Len(batch) * PerEvent \in Nat
      /\ Cardinality(Sessions) * PerEvent \in Nat
      /\ Cardinality(inferred) * PerEvent \in Nat
  BY PartsType, PerEventType, Times
<1>2. ForBatch \in Nat \ {0} /\ ForSession \in Nat \ {0}
  BY <1>1 DEF ForBatch, ForSession
<1>3. InJob => job.resume \in {"batch", "reconcile"}
  BY DEF TypeOK, Job
<1> QED BY <1>2, <1>3, PartsType DEF StepsLeft, Position, UnderWay, InCycle, InJob

LEMMA StepsLeftNat == Finite /\ TypeOK /\ GroupsFinite => StepsLeft \in Nat
BY StepsLeftType

LEMMA StepsLeftNextType ==
    Finite /\ TypeOK' /\ GroupsFinite' => StepsLeft' \in Nat
<1>1. (Finite /\ TypeOK /\ GroupsFinite)' => (StepsLeft \in Nat)'
  BY StepsLeftNat, PTL
<1>2. Finite => Finite'
  BY DEF Finite
<1> QED BY <1>1, <1>2

(* A step with the event in hand. *)
LEMMA JobShortens ==
    ASSUME Finite, TypeOK, GroupsFinite, InJob,
           UNCHANGED <<batch, inferred>>, Position' = Position,
           StepsOfJob' \in Nat, StepsOfJob' < StepsOfJob
    PROVE  StepsLeft' < StepsLeft
<1>1. Position \in {"batch", "reconcile"}
  BY DEF TypeOK, Job, Position
<1>2. ForBatch' = ForBatch /\ ForSession' = ForSession
  BY DEF ForBatch, ForSession
<1>3. CASE Position = "batch"
  <2>1. StepsLeft = ForBatch + StepsOfJob /\ StepsLeft' = ForBatch + StepsOfJob'
    BY <1>2, <1>3 DEF StepsLeft
  <2> QED BY <2>1, StepsLeftType, PartsType
<1>4. CASE Position = "reconcile"
  <2>1. StepsLeft = ForSession + StepsOfJob /\ StepsLeft' = ForSession + StepsOfJob'
    BY <1>2, <1>4 DEF StepsLeft
  <2> QED BY <2>1, StepsLeftType, PartsType
<1> QED BY <1>1, <1>3, <1>4

(* What an event that is dispatched may take, whatever becomes of it. *)
LEMMA DispatchCosts ==
    ASSUME Finite, TypeOK, GroupsFinite, ~ InJob,
           NEW e \in Events, NEW at \in Nat,
           NEW resume \in {"batch", "reconcile"}, Dispatch(e, at, resume)
    PROVE  /\ Position' = resume
           /\ StepsOfJob' \in Nat /\ StepsOfJob' < PerEvent
           /\ GroupsFinite'
<1>1. CASE decision(e, at) = "immediate"
  <2>1. /\ pc' = "processes"
        /\ job'.resume = resume
        /\ job'.processes = resolved_processes(e)
        /\ job'.artifacts = resolved_artifacts(e)
        /\ job'.pgids = {}
    BY <1>1 DEF Dispatch, NoJob
  <2>2. /\ resolved_processes(e) \subseteq Processes
        /\ resolved_artifacts(e) \subseteq Artifacts
    BY DEF resolved_processes, resolved_artifacts, TypeOK
  <2>3. /\ Cardinality(job'.processes) \in 0..Cardinality(Processes)
        /\ Cardinality(job'.artifacts) \in 0..Cardinality(Artifacts)
        /\ Cardinality(job'.pgids) = 0
        /\ IsFiniteSet(job'.pgids)
    BY <2>1, <2>2, PerEventType, FS_Subset, FS_CardinalityType, FS_EmptySet DEF Finite
  <2>4. StepsOfJob' = 2 * Cardinality(job'.processes) + Cardinality(job'.pgids)
                        + 2 * Cardinality(job'.artifacts) + 2
    BY <2>1 DEF StepsOfJob
  <2> QED BY <2>1, <2>3, <2>4, PerEventType DEF PerEvent, Position, InJob, GroupsFinite
<1>2. CASE decision(e, at) # "immediate"
  <2>1. pc' = resume /\ UNCHANGED job
    BY <1>2 DEF Dispatch
  <2>2. StepsOfJob' = 0 /\ Position' = resume
    BY <2>1 DEF StepsOfJob, Position, InJob
  <2> QED BY <2>1, <2>2, PerEventType DEF PerEvent, GroupsFinite
<1> QED BY <1>1, <1>2

LEMMA ProcessEventShortens ==
    ASSUME Finite, TypeOK, GroupsFinite, ProcessEvent
    PROVE  GroupsFinite' /\ StepsLeft' < StepsLeft
<1>1. /\ pc = "batch" /\ batch # <<>> /\ batch' = Tail(batch)
      /\ batch \in Seq(ExternalEvents)
      /\ Head(batch) \in Events /\ now \in Nat
  BY DEF ProcessEvent, TypeOK, Events
<1>2. /\ Position' = "batch"
      /\ StepsOfJob' \in Nat /\ StepsOfJob' < PerEvent
      /\ GroupsFinite'
  <2>1. CASE Dispatch(Head(batch), now, "batch")
    BY <1>1, <2>1, DispatchCosts DEF InJob
  <2>2. CASE UNCHANGED <<pc, store, job>>
    <3>1. StepsOfJob' = 0 /\ Position' = "batch"
      BY <1>1, <2>2 DEF StepsOfJob, Position, InJob
    <3> QED BY <2>2, <3>1, PerEventType DEF PerEvent, GroupsFinite
  <2> QED BY <2>1, <2>2 DEF ProcessEvent
<1>3. Len(batch') \in Nat /\ Len(batch) = Len(batch') + 1
  BY <1>1
<1>4. /\ Len(batch') * PerEvent \in Nat
      /\ Len(batch) * PerEvent = Len(batch') * PerEvent + PerEvent
      /\ Cardinality(Sessions) * PerEvent \in Nat
  BY <1>3, PerEventType, Times
<1>5. /\ StepsLeft = ForBatch
      /\ StepsLeft' = ForBatch' + StepsOfJob'
  <2>1. Position = "batch" /\ StepsOfJob = 0
    BY <1>1, PartsType DEF Position, InJob
  <2> QED BY <1>2, <2>1, StepsLeftType DEF StepsLeft
<1>6. /\ ForBatch = Len(batch) * PerEvent + Cardinality(Sessions) * PerEvent + 4
      /\ ForBatch' = Len(batch') * PerEvent + Cardinality(Sessions) * PerEvent + 4
  BY DEF ForBatch, PerEvent
<1>7. ASSUME NEW b \in Nat, NEW c \in Nat, NEW w \in Nat, NEW k \in Nat, k < w
      PROVE  b + c + 4 + k < b + w + c + 4
  BY <1>7
<1> QED BY <1>2, <1>4, <1>5, <1>6, <1>7, PerEventType

LEMMA ReconcileShortens ==
    ASSUME Finite, TypeOK, GroupsFinite, NEW s \in Sessions, Reconcile(s)
    PROVE  GroupsFinite' /\ StepsLeft' < StepsLeft
<1>1. /\ pc = "reconcile" /\ s \in inferred /\ inferred' = inferred \ {s}
      /\ inferred_event(s) \in Events /\ cycle_now \in Nat
  BY InferredEventType DEF Reconcile, TypeOK
<1>2. /\ Position' = "reconcile"
      /\ StepsOfJob' \in Nat /\ StepsOfJob' < PerEvent
      /\ GroupsFinite'
  BY <1>1, DispatchCosts DEF Reconcile, InJob
<1>3. /\ Cardinality(inferred') \in Nat
      /\ Cardinality(inferred) = Cardinality(inferred') + 1
  <2>1. IsFiniteSet(inferred)
    BY FS_Subset DEF Finite, TypeOK
  <2> QED BY <1>1, <2>1, OneLess
<1>4. /\ Cardinality(inferred') * PerEvent \in Nat
      /\ Cardinality(inferred) * PerEvent = Cardinality(inferred') * PerEvent + PerEvent
  BY <1>3, PerEventType, Times
<1>5. /\ StepsLeft = ForSession
      /\ StepsLeft' = ForSession' + StepsOfJob'
  <2>1. Position = "reconcile" /\ StepsOfJob = 0
    BY <1>1, PartsType DEF Position, InJob
  <2> QED BY <1>2, <2>1, StepsLeftType DEF StepsLeft
<1> QED BY <1>2, <1>4, <1>5, PerEventType DEF ForSession

(* The sessions that are inferred are no more than there are. *)
LEMMA InferShortens ==
    ASSUME Finite, TypeOK, TypeOK', GroupsFinite, InferEvents
    PROVE  GroupsFinite' /\ StepsLeft' < StepsLeft
<1>1. /\ pc = "batch" /\ pc' = "reconcile" /\ UNCHANGED <<job, batch>>
      /\ Len(batch) \in Nat
  BY DEF InferEvents, TypeOK
<1>2. Cardinality(inferred') \in 0..Cardinality(Sessions)
  BY PerEventType, FS_Subset, FS_CardinalityType DEF Finite, TypeOK
<1>3. /\ Cardinality(inferred') * PerEvent \in Nat
      /\ Cardinality(inferred') * PerEvent <= Cardinality(Sessions) * PerEvent
      /\ Cardinality(Sessions) * PerEvent \in Nat
      /\ Len(batch) * PerEvent \in Nat
  BY <1>1, <1>2, PerEventType, Times
<1>4. StepsLeft = ForBatch + StepsOfJob /\ StepsLeft' = ForSession' + StepsOfJob'
  BY <1>1 DEF StepsLeft, Position, InJob
<1>5. StepsOfJob = 0 /\ StepsOfJob' = 0
  BY <1>1 DEF StepsOfJob
<1> QED BY <1>1, <1>3, <1>4, <1>5 DEF ForBatch, ForSession, GroupsFinite

LEMMA RemediationShortens ==
    ASSUME Finite, TypeOK, GroupsFinite,
           \/ \E p \in Processes : RemediateProcess(p)
           \/ \E g \in Groups : RemediateGroup(g)
           \/ ProcessesDone
    PROVE  GroupsFinite' /\ StepsLeft' < StepsLeft
<1>1. /\ pc = "processes" /\ InJob /\ UNCHANGED <<batch, inferred>>
      /\ StepsOfJob = 2 * Cardinality(job.processes) + Cardinality(job.pgids)
                        + 2 * Cardinality(job.artifacts) + 2
  BY DEF RemediateProcess, RemediateGroup, ProcessesDone, InJob, StepsOfJob
<1>2. job \in Job
  BY DEF TypeOK
<1>3. ASSUME NEW p \in Processes, RemediateProcess(p)
      PROVE  GroupsFinite' /\ StepsLeft' < StepsLeft
  <2>1. /\ pc' = "processes" /\ p \in job.processes
        /\ job'.processes = job.processes \ {p}
        /\ job'.artifacts = job.artifacts
        /\ job'.resume = job.resume
        /\ job'.pgids = job.pgids \/ job'.pgids = job.pgids \cup {ProcessGroup[p]}
    BY <1>2, <1>3 DEF RemediateProcess, Job
  <2>2. /\ Cardinality(job'.processes) \in Nat
        /\ Cardinality(job.processes) = Cardinality(job'.processes) + 1
    <3>1. IsFiniteSet(job.processes)
      BY <1>2, FS_Subset DEF Finite, Job
    <3> QED BY <2>1, <3>1, OneLess
  <2>3. /\ IsFiniteSet(job'.pgids) /\ Cardinality(job'.pgids) \in Nat
        /\ Cardinality(job'.pgids) <= Cardinality(job.pgids) + 1
    <3>1. IsFiniteSet(job.pgids) /\ Cardinality(job.pgids) \in Nat
      BY PartsType DEF GroupsFinite
    <3>2. CASE job'.pgids = job.pgids
      BY <3>1, <3>2
    <3>3. CASE job'.pgids = job.pgids \cup {ProcessGroup[p]}
      BY <3>1, <3>3, OneMore
    <3> QED BY <2>1, <3>2, <3>3
  <2>4. StepsOfJob' = 2 * Cardinality(job'.processes) + Cardinality(job'.pgids)
                        + 2 * Cardinality(job'.artifacts) + 2
    BY <2>1 DEF StepsOfJob
  <2>5. StepsOfJob' \in Nat /\ StepsOfJob' < StepsOfJob
    <3>1. /\ Cardinality(job.artifacts) \in Nat
          /\ Cardinality(job.pgids) \in Nat
      BY PartsType, PerEventType
    <3> QED BY <1>1, <2>1, <2>2, <2>3, <2>4, <3>1
  <2>6. Position' = Position
    BY <1>1, <2>1 DEF Position, InJob
  <2> QED BY <1>1, <2>3, <2>5, <2>6, JobShortens DEF GroupsFinite
<1>4. ASSUME NEW g \in Groups, RemediateGroup(g)
      PROVE  GroupsFinite' /\ StepsLeft' < StepsLeft
  <2>1. /\ pc' = "processes" /\ g \in job.pgids
        /\ job'.pgids = job.pgids \ {g}
        /\ job'.processes = job.processes
        /\ job'.artifacts = job.artifacts
        /\ job'.resume = job.resume
    BY <1>2, <1>4 DEF RemediateGroup, Job
  <2>2. /\ IsFiniteSet(job'.pgids) /\ Cardinality(job'.pgids) \in Nat
        /\ Cardinality(job.pgids) = Cardinality(job'.pgids) + 1
    BY <2>1, OneLess DEF GroupsFinite
  <2>3. StepsOfJob' = 2 * Cardinality(job'.processes) + Cardinality(job'.pgids)
                        + 2 * Cardinality(job'.artifacts) + 2
    BY <2>1 DEF StepsOfJob
  <2>4. StepsOfJob' \in Nat /\ StepsOfJob' < StepsOfJob
    <3>1. /\ Cardinality(job.artifacts) \in Nat
          /\ Cardinality(job.processes) \in Nat
      BY PartsType, PerEventType
    <3> QED BY <1>1, <2>1, <2>2, <2>3, <3>1
  <2>5. Position' = Position
    BY <1>1, <2>1 DEF Position, InJob
  <2> QED BY <1>1, <2>2, <2>4, <2>5, JobShortens DEF GroupsFinite
<1>5. CASE ProcessesDone
  <2>1. pc' = "artifacts" /\ UNCHANGED job
    BY <1>5 DEF ProcessesDone
  <2>2. StepsOfJob' = 2 * Cardinality(job.artifacts) + 1 /\ Position' = Position
    BY <1>1, <2>1 DEF StepsOfJob, Position, InJob
  <2>3. StepsOfJob' \in Nat /\ StepsOfJob' < StepsOfJob
    BY <1>1, <2>2, PartsType
  <2> QED BY <1>1, <2>1, <2>2, <2>3, JobShortens DEF GroupsFinite
<1> QED BY <1>3, <1>4, <1>5

LEMMA CleanupShortens ==
    ASSUME Finite, TypeOK, GroupsFinite,
           \/ \E a \in Artifacts : CheckArtifact(a) \/ RemoveArtifact(a)
           \/ FinishEvent
    PROVE  GroupsFinite' /\ StepsLeft' < StepsLeft
<1>1. InJob /\ UNCHANGED <<batch, inferred>> /\ job \in Job
  BY DEF CheckArtifact, RemoveArtifact, FinishEvent, InJob, TypeOK
<1>2. ASSUME NEW a \in Artifacts, CheckArtifact(a)
      PROVE  GroupsFinite' /\ StepsLeft' < StepsLeft
  <2>1. /\ pc = "artifacts" /\ pc' \in {"artifacts", "remove"}
        /\ a \in job.artifacts
        /\ job'.artifacts = job.artifacts \ {a}
        /\ job'.pgids = job.pgids
        /\ job'.resume = job.resume
    BY <1>1, <1>2 DEF CheckArtifact, Job
  <2>2. /\ Cardinality(job'.artifacts) \in Nat
        /\ Cardinality(job.artifacts) = Cardinality(job'.artifacts) + 1
    <3>1. IsFiniteSet(job.artifacts)
      BY <1>1, FS_Subset DEF Finite, Job
    <3> QED BY <2>1, <3>1, OneLess
  <2>3. /\ StepsOfJob = 2 * Cardinality(job.artifacts) + 1
        /\ \/ StepsOfJob' = 2 * Cardinality(job'.artifacts) + 1
           \/ StepsOfJob' = 2 * Cardinality(job'.artifacts) + 2
    BY <2>1 DEF StepsOfJob
  <2>4. StepsOfJob' \in Nat /\ StepsOfJob' < StepsOfJob
    BY <2>2, <2>3, PartsType
  <2>5. Position' = Position
    BY <2>1 DEF Position, InJob
  <2> QED BY <1>1, <2>1, <2>4, <2>5, JobShortens DEF GroupsFinite
<1>3. ASSUME NEW a \in Artifacts, RemoveArtifact(a)
      PROVE  GroupsFinite' /\ StepsLeft' < StepsLeft
  <2>1. /\ pc = "remove" /\ pc' = "artifacts"
        /\ job'.artifacts = job.artifacts
        /\ job'.pgids = job.pgids
        /\ job'.resume = job.resume
    BY <1>1, <1>3 DEF RemoveArtifact, Job
  <2>2. /\ StepsOfJob = 2 * Cardinality(job.artifacts) + 2
        /\ StepsOfJob' = 2 * Cardinality(job.artifacts) + 1
    BY <2>1 DEF StepsOfJob
  <2>3. StepsOfJob' \in Nat /\ StepsOfJob' < StepsOfJob
    BY <2>2, PartsType
  <2>4. Position' = Position
    BY <2>1 DEF Position, InJob
  <2> QED BY <1>1, <2>1, <2>3, <2>4, JobShortens DEF GroupsFinite
<1>4. CASE FinishEvent
  <2>1. pc = "artifacts" /\ pc' = job.resume /\ job' = NoJob
    BY <1>4 DEF FinishEvent
  <2>2. job.resume \in {"batch", "reconcile"}
    BY <1>1 DEF Job
  <2>3. StepsOfJob' = 0 /\ Position' = Position
    BY <2>1, <2>2 DEF StepsOfJob, Position, InJob
  <2>4. IsFiniteSet(job'.pgids)
    BY <2>1, FS_EmptySet DEF NoJob
  <2>5. StepsOfJob' \in Nat /\ StepsOfJob' < StepsOfJob
    BY <1>1, <2>3, PartsType
  <2> QED BY <1>1, <2>3, <2>4, <2>5, JobShortens DEF GroupsFinite
<1> QED BY <1>2, <1>3, <1>4

LEMMA ExitGroups == Exit => GroupsFinite' /\ StepsLeft' = 0
<1> SUFFICES ASSUME Exit PROVE GroupsFinite' /\ StepsLeft' = 0
  OBVIOUS
<1>1. job'.pgids = {} /\ pc' = "down"
  BY DEF Exit, NoJob
<1> QED BY <1>1, FS_EmptySet DEF GroupsFinite, StepsLeft, Position, InJob

LEMMA DaemonShortens ==
    ASSUME Finite, TypeOK, TypeOK', GroupsFinite, UnderWay, DaemonStep
    PROVE  GroupsFinite' /\ StepsLeft' < StepsLeft
<1>1. ~ IdleTimeout
  BY DEF IdleTimeout, UnderWay, InCycle, InJob
<1>2. CASE Collect
  <2>1. pc = "collect" /\ pc' = "batch" /\ UNCHANGED <<batch, job>>
    BY <1>2 DEF Collect
  <2>2. StepsLeft = ForBatch + 1 /\ StepsLeft' = ForBatch
    <3>1. StepsOfJob' = 0 /\ ForBatch' = ForBatch
      BY <2>1 DEF StepsOfJob, ForBatch
    <3> QED BY <2>1, <3>1, StepsLeftType DEF StepsLeft, Position, InJob
  <2> QED BY <2>1, <2>2, StepsLeftType DEF GroupsFinite
<1>3. CASE RemoveFails
  BY <1>3, ExitGroups, StepsLeftType DEF RemoveFails
<1>4. ASSUME NEW victims \in SUBSET Processes, EnforceMemory(victims)
      PROVE  GroupsFinite' /\ StepsLeft' < StepsLeft
  <2>1. pc = "reconcile" /\ pc' = "persist" /\ UNCHANGED job
    BY <1>4 DEF EnforceMemory
  <2>2. StepsLeft = ForSession + StepsOfJob /\ StepsOfJob = 0 /\ StepsLeft' = 2
    BY <2>1 DEF StepsLeft, StepsOfJob, Position, InJob
  <2>3. Cardinality(inferred) * PerEvent \in Nat
    BY PartsType, PerEventType, Times
  <2> QED BY <2>1, <2>2, <2>3 DEF ForSession, GroupsFinite
<1>5. CASE CreateStateFile \/ WriteStateFile
  BY <1>5 DEF CreateStateFile, WriteStateFile, EndCycle, StepsLeft, Position,
              InJob, GroupsFinite
<1> QED
  BY <1>1, <1>2, <1>3, <1>4, <1>5, ProcessEventShortens, InferShortens,
     ReconcileShortens, RemediationShortens, CleanupShortens DEF DaemonStep

LEMMA NothingLengthens ==
    ASSUME Finite, TypeOK, TypeOK', GroupsFinite, UnderWay, [Next]_vars
    PROVE  GroupsFinite' /\ StepsLeft' <= StepsLeft
<1>1. StepsLeft \in Nat
  BY StepsLeftType
<1>2. CASE DaemonStep
  <2>1. GroupsFinite' /\ StepsLeft' < StepsLeft
    BY <1>2, DaemonShortens
  <2> QED BY <1>1, <2>1, StepsLeftNextType
<1>3. CASE DaemonFault
  <2>1. Exit \/ FlushFails
    BY <1>3 DEF DaemonFault, ReceiveMalformed, RemediationFails,
                EnforcementFails, Crash, VanishBeforeStat
  <2>2. FlushFails => StepsLeft' = 0 /\ GroupsFinite'
    BY DEF FlushFails, EndCycle, StepsLeft, Position, InJob, GroupsFinite
  <2> QED BY <1>1, <2>1, <2>2, ExitGroups
<1>4. ~ Start /\ ~ ClientStep
  BY DEF Start, ClientStep, Accept, ReceiveBatch, UnderWay, InCycle, InJob
<1>5. CASE Tick \/ WorldStep \/ UNCHANGED vars
  <2>1. UNCHANGED memory
    BY <1>5 DEF Tick, WorldStep, WriteArtifact, DeleteArtifact, StartProcess,
                ExitProcess, vars
  <2>2. StepsLeft' = StepsLeft /\ GroupsFinite'
    BY <2>1 DEF memory, StepsLeft, Position, InJob, StepsOfJob, ForBatch,
                ForSession, GroupsFinite
  <2> QED BY <1>1, <2>2
<1> QED BY <1>2, <1>3, <1>4, <1>5 DEF Next

LEMMA GroupsFiniteStep ==
    ASSUME Finite, TypeOK, TypeOK', GroupsFinite, [Next]_vars
    PROVE  GroupsFinite'
<1>1. CASE UnderWay
  BY <1>1, NothingLengthens
<1>2. CASE ~ UnderWay
  <2>1. pc \in {"down", "receive", "read"}
    BY <1>2 DEF UnderWay, InCycle, InJob, TypeOK
  <2>2. Exit \/ UNCHANGED job
    BY <2>1 DEF Next, DaemonStep, DaemonFault, ClientStep, WorldStep, Start,
        IdleTimeout, Accept, ReceiveBatch, ReceiveMalformed, Crash, Tick,
        Collect, ProcessEvent, InferEvents, Reconcile, RemediateProcess,
        RemediateGroup, ProcessesDone, CheckArtifact, RemoveArtifact,
        RemoveFails, FinishEvent, EnforceMemory, CreateStateFile,
        WriteStateFile, EndCycle, RemediationFails, EnforcementFails,
        FlushFails, VanishBeforeStat, WriteArtifact, DeleteArtifact,
        StartProcess, ExitProcess, memory, vars
  <2> QED BY <2>2, ExitGroups DEF GroupsFinite
<1> QED BY <1>1, <1>2

(* daemon.rs, autocleanup.rs: each step of a cycle brings its end nearer,   *)
(* over all events of the batch, sessions, processes, groups and files, and *)
(* nothing that the world does while they are handled puts it off.          *)
THEOREM CycleShortens ==
    ASSUME Finite
    PROVE  Spec => [][UnderWay => /\ DaemonStep => StepsLeft' < StepsLeft
                                 /\ StepsLeft' <= StepsLeft]_vars
<1>1. Init => GroupsFinite
  BY FS_EmptySet DEF Init, NoJob, GroupsFinite
<1>2. TypeOK /\ TypeOK' /\ GroupsFinite /\ [Next]_vars => GroupsFinite'
  BY GroupsFiniteStep
<1>3. Spec => []GroupsFinite
  BY <1>1, <1>2, TypeCorrect, PTL DEF Spec
<1>4. TypeOK /\ TypeOK' /\ GroupsFinite /\ [Next]_vars =>
        [UnderWay => /\ DaemonStep => StepsLeft' < StepsLeft
                    /\ StepsLeft' <= StepsLeft]_vars
  BY DaemonShortens, NothingLengthens
<1> QED BY <1>3, <1>4, TypeCorrect, PTL DEF Spec
=============================================================================
