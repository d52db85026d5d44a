---------------------------- MODULE StorageCache ----------------------------
(***************************************************************************)
(* The daemon's view of the artifact files: StorageSnapshotCache           *)
(* (daemon.rs) scans the allowlisted roots once, then keeps the snapshot   *)
(* up to date from file system notices (monitor/storage.rs), scanning      *)
(* again when a notice is ambiguous or cannot be applied, and on every     *)
(* refresh once the watcher has failed.  A scan and a batch of notices     *)
(* take many steps, and files change between them.                         *)
(***************************************************************************)
EXTENDS Naturals, Sequences

CONSTANTS
    Files,       \* paths of files
    Dirs,        \* paths of directories
    Under,       \* the files at or under each path
    Versions,    \* what a file can be: its size and modification time
    Absent,      \* the version of a file that does not exist
    MaxChanges,  \* bound: changes of the files
    MaxFailures  \* bound: failures of the watcher

Paths == Files \cup Dirs

ASSUME PathAssumption ==
    /\ Under \in [Paths -> SUBSET Files]
    /\ \A f \in Files : Under[f] = {f}
    /\ Absent \notin Versions

ASSUME BoundAssumption == {MaxChanges, MaxFailures} \subseteq Nat

(* What the cache makes of a notice.  Create, data and metadata notices     *)
(* refresh; a rename carries both names; ambiguous are the kinds without a  *)
(* case of their own and those that ask for a rescan.  An error is not a    *)
(* notice but an answer of the channel.  Access notices change nothing and  *)
(* are left out.                                                            *)
Notice == [kind : {"refresh", "remove", "rename", "ambiguous", "error"},
           path : Paths, to : Paths]

VARIABLES
    disk,      \* the files as they are
    snapshot,  \* the files as the daemon knows them
    phase,     \* "down", "new", "idle", "apply" or "scan"
    notices,   \* notices of the watcher that are not yet applied
    taken,     \* how many of them this refresh has received
    scanning,  \* files that the current scan has not reached
    used,      \* snapshot_used
    fallback,  \* fallback_rescan_each_cycle
    missed,    \* changes between the first scan and the watch, not made up for
    changes,   \* bound
    failures   \* bound

vars == <<disk, snapshot, phase, notices, taken, scanning, used, fallback,
          missed, changes, failures>>

Nothing == [f \in Files |-> Absent]

Exists(p) == \E f \in Under[p] : disk[f] # Absent

Init ==
    /\ disk \in [Files -> Versions \cup {Absent}]
    /\ snapshot = Nothing
    /\ phase = "down"
    /\ notices = <<>>
    /\ taken = 0
    /\ scanning = {}
    /\ used = FALSE
    /\ fallback = FALSE
    /\ missed = {}
    /\ changes = 0
    /\ failures = 0

-----------------------------------------------------------------------------
(* StorageSnapshotCache::new scans first and watches afterwards. *)

New ==
    /\ phase = "down"
    /\ phase' = "new"
    /\ scanning' = Files
    /\ UNCHANGED <<disk, snapshot, notices, taken, used, fallback, missed,
                   changes, failures>>

(* walk_files reaches one file after another. *)
ScanFile(f) ==
    /\ phase \in {"new", "scan"}
    /\ f \in scanning
    /\ scanning' = scanning \ {f}
    /\ snapshot' = [snapshot EXCEPT ![f] = disk[f]]
    /\ missed' = missed \ {f}
    /\ UNCHANGED <<disk, phase, notices, taken, used, fallback, changes,
                   failures>>

Watch ==
    /\ phase = "new"
    /\ scanning = {}
    /\ phase' = "idle"
    /\ UNCHANGED <<disk, snapshot, notices, taken, scanning, used, fallback,
                   missed, changes, failures>>

(* A root that is missing or no directory, or a watcher that cannot start. *)
WatchFails ==
    /\ phase = "new"
    /\ scanning = {}
    /\ failures < MaxFailures
    /\ failures' = failures + 1
    /\ phase' = "idle"
    /\ fallback' = TRUE
    /\ UNCHANGED <<disk, snapshot, notices, taken, scanning, used, missed,
                   changes>>

Rescan ==
    /\ phase' = "scan"
    /\ scanning' = Files

-----------------------------------------------------------------------------
(* refresh_if_needed *)

Errors(n) == \E i \in 1..n : notices[i].kind = "error"

(* The first refresh after a failure takes the snapshot for fresh. *)
RefreshByScan ==
    /\ phase = "idle"
    /\ fallback
    /\ IF used THEN Rescan ELSE UNCHANGED <<phase, scanning>>
    /\ used' = TRUE
    /\ UNCHANGED <<disk, snapshot, notices, taken, fallback, missed, changes,
                   failures>>

(* take_watch_events receives the notices that have arrived by now... *)
Refresh(n) ==
    /\ phase = "idle"
    /\ ~ fallback
    /\ ~ Errors(n)
    /\ taken' = n
    /\ phase' = IF n = 0 THEN "idle" ELSE "apply"
    /\ used' = TRUE
    /\ UNCHANGED <<disk, snapshot, notices, scanning, fallback, missed,
                   changes, failures>>

(* Faulty: a failed watcher is kept. *)
RefreshAfterErrorKeepsWatching(n) ==
    /\ phase = "idle"
    /\ ~ fallback
    /\ Errors(n)
    /\ notices' = <<>>
    /\ used' = TRUE
    /\ UNCHANGED <<disk, snapshot, phase, taken, scanning, fallback, missed,
                   changes, failures>>

(* ...and drops them all, with the watcher, if one of them is an error. *)
RefreshAfterError(n) ==
    /\ phase = "idle"
    /\ ~ fallback
    /\ Errors(n)
    /\ fallback' = TRUE
    /\ notices' = <<>>
    /\ IF used THEN Rescan ELSE UNCHANGED <<phase, scanning>>
    /\ used' = TRUE
    /\ UNCHANGED <<disk, snapshot, taken, missed, changes, failures>>

(* The paths at or under which a notice removes what the snapshot holds, *)
(* and those which it looks up on the disk.                              *)
Removed(notice)   == IF notice.kind \in {"remove", "rename"}
                     THEN Under[notice.path] ELSE {}
Refreshed(notice) == CASE notice.kind = "refresh" -> Under[notice.path]
                       [] notice.kind = "rename"  -> Under[notice.to]
                       [] OTHER                   -> {}

(* Faulty: an ambiguous notice is taken for applied. *)
AppliesAmbiguous(notice) ==
    CASE notice.kind = "refresh" -> notice.path \in Dirs \/ Exists(notice.path)
      [] notice.kind = "rename"  -> notice.to \in Dirs \/ Exists(notice.to)
      [] notice.kind = "remove"  ->
            \E f \in Under[notice.path] : snapshot[f] # Absent
      [] OTHER                   -> TRUE

(* try_apply_watch_event: may it say that the notice was applied? *)
CanApply(notice) ==
    CASE notice.kind = "refresh" -> notice.path \in Dirs \/ Exists(notice.path)
      [] notice.kind = "rename"  -> notice.to \in Dirs \/ Exists(notice.to)
      [] notice.kind = "remove"  ->
            \E f \in Under[notice.path] : snapshot[f] # Absent
      [] OTHER                   -> FALSE

(* And that it was not?  A directory may be gone, or fail to be walked. *)
CanFail(notice) ==
    CASE notice.kind = "refresh" -> notice.path \in Dirs \/ ~ Exists(notice.path)
      [] notice.kind = "rename"  -> notice.to \in Dirs \/ ~ Exists(notice.to)
      [] notice.kind = "remove"  ->
            \A f \in Under[notice.path] : snapshot[f] = Absent
      [] OTHER                   -> TRUE

Reduced(notice) ==
    [f \in Files |-> IF f \in Removed(notice) THEN Absent ELSE snapshot[f]]

(* A path that is looked up adds the files it finds and removes none. *)
Updated(notice) ==
    [f \in Files |-> IF f \in Refreshed(notice) /\ disk[f] # Absent
                     THEN disk[f] ELSE Reduced(notice)[f]]

(* Faulty: the newest of the notices goes first. *)
ApplyNewestNotice ==
    /\ phase = "apply"
    /\ taken > 0
    /\ CanApply(notices[taken])
    /\ snapshot' = Updated(notices[taken])
    /\ missed' = {f \in missed : snapshot'[f] # disk[f]}
    /\ notices' = SubSeq(notices, 1, taken - 1)
                     \o SubSeq(notices, taken + 1, Len(notices))
    /\ taken' = taken - 1
    /\ UNCHANGED <<disk, phase, scanning, used, fallback, changes, failures>>

(* try_apply_watch_events_incremental, one notice at a time. *)
ApplyNotice ==
    /\ phase = "apply"
    /\ taken > 0
    /\ CanApply(Head(notices))
    /\ snapshot' = Updated(Head(notices))
    /\ missed' = {f \in missed : snapshot'[f] # disk[f]}
    /\ notices' = Tail(notices)
    /\ taken' = taken - 1
    /\ UNCHANGED <<disk, phase, scanning, used, fallback, changes, failures>>

(* Faulty: the notices already received are not discounted. *)
GiveUpKeepsTaken ==
    /\ phase = "apply"
    /\ taken > 0
    /\ CanFail(Head(notices))
    /\ snapshot' = Reduced(Head(notices))
    /\ notices' = SubSeq(notices, taken + 1, Len(notices))
    /\ Rescan
    /\ UNCHANGED <<disk, taken, used, fallback, missed, changes, failures>>

(* The first that cannot be applied drops the rest; a rename has by then    *)
(* removed its old name.                                                    *)
GiveUpNotices ==
    /\ phase = "apply"
    /\ taken > 0
    /\ CanFail(Head(notices))
    /\ snapshot' = Reduced(Head(notices))
    /\ notices' = SubSeq(notices, taken + 1, Len(notices))
    /\ taken' = 0
    /\ Rescan
    /\ UNCHANGED <<disk, used, fallback, missed, changes, failures>>

RefreshDone ==
    /\ \/ phase = "apply" /\ taken = 0
       \/ phase = "scan" /\ scanning = {}
    /\ phase' = "idle"
    /\ UNCHANGED <<disk, snapshot, notices, taken, scanning, used, fallback,
                   missed, changes, failures>>

-----------------------------------------------------------------------------
(* The file system and its watcher: every change after the watch began is   *)
(* followed by a notice that covers it, in the order of the changes.        *)

Watching == phase \in {"idle", "apply", "scan"} /\ ~ fallback

Notify(notice) == notices' = IF Watching THEN Append(notices, notice) ELSE notices

Change(new) ==
    /\ changes < MaxChanges
    /\ changes' = changes + 1
    /\ disk' = new
    /\ missed' = IF phase = "new"
                 THEN missed \cup {f \in Files \ scanning : new[f] # disk[f]}
                 ELSE missed
    /\ UNCHANGED <<snapshot, phase, taken, scanning, used, fallback, failures>>

About(kind, p) == [kind |-> kind, path |-> p, to |-> p]

WriteFile(f, v) ==
    /\ disk[f] # v
    /\ Change([disk EXCEPT ![f] = v])
    /\ \E p \in Paths, kind \in {"refresh", "ambiguous"} :
          f \in Under[p] /\ Notify(About(kind, p))

Delete(p) ==
    /\ Exists(p)
    /\ Change([f \in Files |-> IF f \in Under[p] THEN Absent ELSE disk[f]])
    /\ \E kind \in {"remove", "ambiguous"} : Notify(About(kind, p))

RenameFile(f, g) ==
    /\ f # g
    /\ disk[f] # Absent
    /\ Change([disk EXCEPT ![f] = Absent, ![g] = disk[f]])
    /\ \/ Notify([kind |-> "rename", path |-> f, to |-> g])
       \/ Notify(About("ambiguous", f))

WatcherFails ==
    /\ Watching
    /\ failures < MaxFailures
    /\ failures' = failures + 1
    /\ \E p \in Paths : Notify(About("error", p))
    /\ UNCHANGED <<disk, snapshot, phase, taken, scanning, used, fallback,
                   missed, changes>>

(* walk_files fails, and the daemon with it, when a file goes away between  *)
(* its directory entry and its metadata.                                    *)
VanishDuringScan(f) ==
    /\ phase \in {"new", "scan"}
    /\ f \in scanning
    /\ disk[f] # Absent
    /\ changes < MaxChanges
    /\ changes' = changes + 1
    /\ disk' = [disk EXCEPT ![f] = Absent]
    /\ phase' = "down"
    /\ snapshot' = Nothing
    /\ notices' = <<>>
    /\ taken' = 0
    /\ scanning' = {}
    /\ used' = FALSE
    /\ fallback' = FALSE
    /\ missed' = {}
    /\ UNCHANGED failures

-----------------------------------------------------------------------------
RefreshStep ==
    \/ RefreshByScan
    \/ \E n \in 0..Len(notices) : Refresh(n) \/ RefreshAfterError(n)

CacheStep ==
    \/ New
    \/ \E f \in Files : ScanFile(f)
    \/ Watch
    \/ ApplyNotice
    \/ GiveUpNotices
    \/ RefreshDone

FileStep ==
    \/ \E f \in Files, v \in Versions : WriteFile(f, v)
    \/ \E p \in Paths : Delete(p)
    \/ \E f, g \in Files : RenameFile(f, g)
    \/ \E f \in Files : VanishDuringScan(f)

Next ==
    \/ RefreshStep
    \/ CacheStep
    \/ FileStep
    \/ WatchFails
    \/ WatcherFails

Spec == Init /\ [][Next]_vars

(* A refresh comes round in every cycle of the daemon; a notice may be late *)
(* for some of them, but not for all.                                       *)
PunctualRefresh ==
    \/ RefreshByScan
    \/ Refresh(Len(notices))
    \/ RefreshAfterError(Len(notices))

Fairness == WF_vars(CacheStep) /\ SF_vars(PunctualRefresh)

FairSpec == Spec /\ Fairness

-----------------------------------------------------------------------------
(* The types of the cache and of the files it is about. *)
TypeOK ==
    /\ disk \in [Files -> Versions \cup {Absent}]
    /\ snapshot \in [Files -> Versions \cup {Absent}]
    /\ phase \in {"down", "new", "idle", "apply", "scan"}
    /\ notices \in Seq(Notice)
    /\ taken \in IF phase = "apply" THEN 0..Len(notices) ELSE {0}
    /\ scanning \subseteq Files
    /\ used \in BOOLEAN
    /\ fallback \in BOOLEAN
    /\ missed \subseteq Files
    /\ changes \in 0..MaxChanges
    /\ failures \in 0..MaxFailures

(* Will the notice, when its turn comes, set the file right? *)
Settles(notice, f) ==
    \/ notice.kind \in {"ambiguous", "error"}
    \/ f \in IF disk[f] = Absent THEN Removed(notice) ELSE Refreshed(notice)

(* daemon.rs, refresh_if_needed with the notices: wherever the snapshot is  *)
(* wrong about a file, the cache has something in hand that will set it     *)
(* right -- the scan it is in, a notice, a scan at the next refresh --,     *)
(* unless the change fell between the first scan and the watch.  So notices *)
(* may be applied late, in part, and over files that changed again.         *)
ChangesAccounted ==
    phase # "down" =>
        \A f \in Files \ missed :
            \/ snapshot[f] = disk[f]
            \/ f \in scanning
            \/ fallback
            \/ \E i \in 1..Len(notices) : Settles(notices[i], f)

(* Why: no notice that takes away an existing file is the last about it. *)
RemovalsMadeGood ==
    \A f \in Files, i \in 1..Len(notices) :
        disk[f] # Absent /\ f \in Removed(notices[i]) =>
            \E j \in i..Len(notices) :
                \/ notices[j].kind \in {"ambiguous", "error"}
                \/ f \in Refreshed(notices[j])

(* Without a watch there are no notices. *)
QuietWithoutWatch == Watching \/ notices = <<>>

(* All of it together is inductive. *)
CacheInv == ChangesAccounted /\ RemovalsMadeGood /\ QuietWithoutWatch

(* The inductive invariant, with the types it needs.                        *)
CacheIInv == TypeOK /\ CacheInv

(* daemon.rs, monitor/storage.rs: when the files come to rest, the snapshot *)
(* comes to agree with them for good, whatever was late, ambiguous or lost  *)
(* with the watcher; all but a change between first scan and watch.         *)
Converges ==
    <>[](phase # "down" /\ \A f \in Files \ missed : snapshot[f] = disk[f])
=============================================================================
