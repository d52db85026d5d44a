------------------------- MODULE StorageCacheProofs -------------------------
(***************************************************************************)
(* The storage cache loses no change it was told of, for any files and     *)
(* directories and however many changes and failures.                      *)
(***************************************************************************)
EXTENDS StorageCache, FiniteSetTheorems, TLAPS

LEMMA InitType == Init => TypeOK
<1> SUFFICES ASSUME Init PROVE TypeOK
  OBVIOUS
<1>1. used \in BOOLEAN /\ fallback \in BOOLEAN
  BY DEF Init
<1>2. notices \in Seq(Notice) /\ taken \in {0} /\ phase # "apply"
  BY DEF Init
<1>3. changes \in 0..MaxChanges /\ failures \in 0..MaxFailures
  BY BoundAssumption DEF Init
<1> QED BY <1>1, <1>2, <1>3 DEF Init, TypeOK, Nothing

LEMMA NoticeType ==
    ASSUME NEW notice \in Notice
    PROVE  /\ Removed(notice) \subseteq Files
           /\ Refreshed(notice) \subseteq Files
BY PathAssumption DEF Notice, Removed, Refreshed

LEMMA NoticesType ==
    ASSUME NEW i \in 1..Len(notices), TypeOK
    PROVE  notices[i] \in Notice
BY DEF TypeOK

LEMMA AboutType ==
    ASSUME NEW p \in Paths,
           NEW kind \in {"refresh", "remove", "ambiguous", "error"}
    PROVE  About(kind, p) \in Notice
BY DEF About, Notice

LEMMA UpdatedType ==
    ASSUME TypeOK, NEW notice \in Notice
    PROVE  /\ Updated(notice) \in [Files -> Versions \cup {Absent}]
           /\ Reduced(notice) \in [Files -> Versions \cup {Absent}]
BY DEF TypeOK, Updated, Reduced

LEMMA RefreshType == TypeOK /\ RefreshStep => TypeOK'
<1> SUFFICES ASSUME TypeOK, RefreshStep PROVE TypeOK'
  OBVIOUS
<1> USE DEF TypeOK
<1>1. CASE RefreshByScan
  BY <1>1 DEF RefreshByScan, Rescan
<1>2. ASSUME NEW n \in 0..Len(notices), Refresh(n) PROVE TypeOK'
  BY <1>2 DEF Refresh
<1>3. ASSUME NEW n \in 0..Len(notices), RefreshAfterError(n) PROVE TypeOK'
  <2>1. taken' = 0
    BY <1>3 DEF RefreshAfterError
  <2> QED BY <1>3, <2>1 DEF RefreshAfterError, Rescan
<1> QED BY <1>1, <1>2, <1>3 DEF RefreshStep

LEMMA CacheStepType == TypeOK /\ CacheStep => TypeOK'
<1> SUFFICES ASSUME TypeOK, CacheStep PROVE TypeOK'
  OBVIOUS
<1> USE DEF TypeOK
<1>1. CASE New
  BY <1>1 DEF New
<1>2. ASSUME NEW f \in Files, ScanFile(f) PROVE TypeOK'
  BY <1>2 DEF ScanFile
<1>3. CASE Watch
  BY <1>3 DEF Watch
<1>4. CASE ApplyNotice
  <2>1. Len(notices) > 0 /\ Head(notices) \in Notice
    BY <1>4 DEF ApplyNotice
  <2>2. snapshot' \in [Files -> Versions \cup {Absent}]
    BY <1>4, <2>1, UpdatedType DEF ApplyNotice
  <2>3. /\ notices' \in Seq(Notice)
        /\ taken' \in 0..Len(notices')
        /\ phase' = "apply"
    BY <1>4, <2>1 DEF ApplyNotice
  <2> QED BY <1>4, <2>2, <2>3 DEF ApplyNotice
<1>5. CASE GiveUpNotices
  <2>1. Len(notices) > 0 /\ Head(notices) \in Notice
    BY <1>5 DEF GiveUpNotices
  <2>2. snapshot' \in [Files -> Versions \cup {Absent}]
    BY <1>5, <2>1, UpdatedType DEF GiveUpNotices
  <2>3. notices' \in Seq(Notice)
    BY <1>5, <2>1 DEF GiveUpNotices
  <2> QED BY <1>5, <2>2, <2>3 DEF GiveUpNotices, Rescan
<1>6. CASE RefreshDone
  BY <1>6 DEF RefreshDone
<1> QED BY <1>1, <1>2, <1>3, <1>4, <1>5, <1>6 DEF CacheStep

(* A change of the files, with its notice. *)
LEMMA ChangeType ==
    ASSUME TypeOK, NEW notice \in Notice,
           NEW new \in [Files -> Versions \cup {Absent}],
           Change(new), Notify(notice)
    PROVE  TypeOK'
<1> USE DEF TypeOK, Change
<1>1. /\ notices' \in Seq(Notice)
      /\ Len(notices) <= Len(notices')
  BY DEF Notify
<1>2. changes' \in 0..MaxChanges
  BY BoundAssumption
<1> QED BY <1>1, <1>2

(* What each change of the files does to them, and what its notice says. *)
Covers(notice, new) ==
    \A f \in Files :
        /\ new[f] # disk[f] =>
              \/ notice.kind = "ambiguous"
              \/ f \in IF new[f] = Absent THEN Removed(notice)
                       ELSE Refreshed(notice)
        /\ f \in Removed(notice) => new[f] = Absent

LEMMA FileStepNotifies ==
    ASSUME TypeOK, FileStep
    PROVE  \/ \E f \in Files : VanishDuringScan(f)
           \/ \E notice \in Notice, new \in [Files -> Versions \cup {Absent}] :
                 Change(new) /\ Notify(notice) /\ Covers(notice, new)
<1>1. ASSUME NEW f \in Files, NEW v \in Versions, WriteFile(f, v)
      PROVE  \E notice \in Notice, new \in [Files -> Versions \cup {Absent}] :
               Change(new) /\ Notify(notice) /\ Covers(notice, new)
  <2> DEFINE new == [disk EXCEPT ![f] = v]
  <2>1. PICK p \in Paths, kind \in {"refresh", "ambiguous"} :
          f \in Under[p] /\ Notify(About(kind, p))
    BY <1>1 DEF WriteFile
  <2>2. new \in [Files -> Versions \cup {Absent}] /\ Change(new)
    BY <1>1 DEF WriteFile, TypeOK
  <2>3. Covers(About(kind, p), new)
    BY <2>1, PathAssumption DEF Covers, About, Removed, Refreshed, TypeOK
  <2> QED BY <2>1, <2>2, <2>3, AboutType
<1>2. ASSUME NEW p \in Paths, Delete(p)
      PROVE  \E notice \in Notice, new \in [Files -> Versions \cup {Absent}] :
               Change(new) /\ Notify(notice) /\ Covers(notice, new)
  <2> DEFINE new == [f \in Files |-> IF f \in Under[p] THEN Absent ELSE disk[f]]
  <2>1. PICK kind \in {"remove", "ambiguous"} : Notify(About(kind, p))
    BY <1>2 DEF Delete
  <2>2. new \in [Files -> Versions \cup {Absent}] /\ Change(new)
    BY <1>2 DEF Delete, TypeOK
  <2>3. Covers(About(kind, p), new)
    BY <2>1 DEF Covers, About, Removed, Refreshed
  <2> QED BY <2>1, <2>2, <2>3, AboutType
<1>3. ASSUME NEW f \in Files, NEW g \in Files, RenameFile(f, g)
      PROVE  \E notice \in Notice, new \in [Files -> Versions \cup {Absent}] :
               Change(new) /\ Notify(notice) /\ Covers(notice, new)
  <2> DEFINE new    == [disk EXCEPT ![f] = Absent, ![g] = disk[f]]
             rename == [kind |-> "rename", path |-> f, to |-> g]
  <2>1. new \in [Files -> Versions \cup {Absent}] /\ Change(new)
    BY <1>3 DEF RenameFile, TypeOK
  <2>2. rename \in Notice /\ Covers(rename, new)
    <3>1. Removed(rename) = {f} /\ Refreshed(rename) = {g}
      BY PathAssumption DEF Removed, Refreshed
    <3>2. new[f] = Absent /\ new[g] # Absent
      BY <1>3 DEF RenameFile, TypeOK
    <3>3. \A h \in Files \ {f, g} : new[h] = disk[h]
      BY DEF TypeOK
    <3>4. rename \in Notice
      BY DEF Notice, Paths
    <3>5. \A h \in Files : new[h] # disk[h] =>
             h \in IF new[h] = Absent THEN Removed(rename) ELSE Refreshed(rename)
      BY <3>1, <3>2, <3>3
    <3> QED BY <3>1, <3>2, <3>4, <3>5 DEF Covers
  <2>3. Covers(About("ambiguous", f), new) /\ About("ambiguous", f) \in Notice
    BY AboutType DEF Covers, About, Removed, Paths
  <2> QED BY <1>3, <2>1, <2>2, <2>3 DEF RenameFile
<1> QED BY <1>1, <1>2, <1>3 DEF FileStep

LEMMA VanishType ==
    ASSUME TypeOK, NEW f \in Files, VanishDuringScan(f)
    PROVE  TypeOK'
<1> USE DEF TypeOK, VanishDuringScan
<1>1. used' \in BOOLEAN /\ fallback' \in BOOLEAN
  OBVIOUS
<1>2. notices' \in Seq(Notice) /\ taken' \in {0} /\ phase' # "apply"
  OBVIOUS
<1>3. snapshot' \in [Files -> Versions \cup {Absent}]
  BY DEF Nothing
<1>4. changes' \in 0..MaxChanges
  BY BoundAssumption
<1> QED BY <1>1, <1>2, <1>3, <1>4

LEMMA FailureType == TypeOK /\ (WatchFails \/ WatcherFails) => TypeOK'
<1> SUFFICES ASSUME TypeOK, WatchFails \/ WatcherFails PROVE TypeOK'
  OBVIOUS
<1> USE DEF TypeOK
<1>1. failures' \in 0..MaxFailures
  BY BoundAssumption DEF WatchFails, WatcherFails
<1>2. CASE WatchFails
  <2>1. fallback' \in BOOLEAN
    BY <1>2 DEF WatchFails
  <2> QED BY <1>1, <1>2, <2>1 DEF WatchFails
<1>3. CASE WatcherFails
  <2>1. PICK p \in Paths : Notify(About("error", p))
    BY <1>3 DEF WatcherFails
  <2>2. notices' \in Seq(Notice) /\ Len(notices) <= Len(notices')
    BY <2>1, AboutType DEF Notify
  <2> QED BY <1>1, <1>3, <2>2 DEF WatcherFails
<1> QED BY <1>2, <1>3

LEMMA StepType == TypeOK /\ [Next]_vars => TypeOK'
<1> SUFFICES ASSUME TypeOK, [Next]_vars PROVE TypeOK'
  OBVIOUS
<1>1. CASE FileStep
  BY <1>1, FileStepNotifies, ChangeType, VanishType
<1>2. CASE UNCHANGED vars
  BY <1>2 DEF TypeOK, vars
<1> QED BY <1>1, <1>2, RefreshType, CacheStepType, FailureType DEF Next

(* Every reachable state of the cache and the file system is well typed. *)
THEOREM CacheTypeCorrect == Spec => []TypeOK
BY InitType, StepType, PTL DEF Spec

-----------------------------------------------------------------------------
(* The inductive invariant.  A step that leaves files, snapshot and notices *)
(* alone keeps it if it starts no watch and ends no scan too early.         *)

LEMMA InitCache == Init => CacheInv
BY DEF Init, CacheInv, ChangesAccounted, RemovalsMadeGood, QuietWithoutWatch

PendingFor(f) == \E i \in 1..Len(notices) : Settles(notices[i], f)

LEMMA PendingSame ==
    ASSUME NEW f, disk'[f] = disk[f], UNCHANGED notices
    PROVE  PendingFor(f)' <=> PendingFor(f)
BY DEF PendingFor, Settles, Removed, Refreshed

LEMMA SameNotices ==
    ASSUME CacheInv, UNCHANGED <<disk, notices>>
    PROVE  RemovalsMadeGood'
BY DEF CacheInv, RemovalsMadeGood, Removed, Refreshed

(* A step that leaves files, snapshot and notices alone. *)
LEMMA QuietStep ==
    ASSUME CacheInv, UNCHANGED <<disk, snapshot, notices>>,
           Files \ missed' \subseteq Files \ missed,
           phase # "down" \/ scanning' = Files,
           scanning' = scanning \/ scanning' = Files,
           fallback => fallback',
           Watching => Watching' \/ notices = <<>>
    PROVE  CacheInv'
<1>1. ChangesAccounted'
  BY PendingSame DEF CacheInv, ChangesAccounted, PendingFor
<1> QED BY <1>1, SameNotices DEF CacheInv, QuietWithoutWatch

LEMMA RefreshCache == TypeOK /\ CacheInv /\ RefreshStep => CacheInv'
<1> SUFFICES ASSUME TypeOK, CacheInv, RefreshStep PROVE CacheInv'
  OBVIOUS
<1>1. CASE RefreshByScan
  <2>1. notices = <<>>
    BY <1>1 DEF RefreshByScan, CacheInv, QuietWithoutWatch, Watching
  <2> QED BY <1>1, <2>1, QuietStep DEF RefreshByScan, Rescan
<1>2. ASSUME NEW n \in 0..Len(notices), Refresh(n) PROVE CacheInv'
  <2>1. Watching'
    BY <1>2 DEF Refresh, Watching
  <2> QED BY <1>2, <2>1, QuietStep DEF Refresh
<1>3. ASSUME NEW n \in 0..Len(notices), RefreshAfterError(n) PROVE CacheInv'
  <2>1. ChangesAccounted'
    BY <1>3 DEF RefreshAfterError, ChangesAccounted
  <2>2. RemovalsMadeGood' /\ QuietWithoutWatch'
    BY <1>3 DEF RefreshAfterError, RemovalsMadeGood, QuietWithoutWatch
  <2> QED BY <2>1, <2>2 DEF CacheInv
<1> QED BY <1>1, <1>2, <1>3 DEF RefreshStep

(* The first n notices are done with. *)
LEMMA LaterNotices ==
    ASSUME TypeOK, CacheInv, NEW n \in 0..Len(notices), disk' = disk,
           notices' = SubSeq(notices, n + 1, Len(notices))
    PROVE  RemovalsMadeGood'
<1> USE DEF TypeOK
<1>1. /\ Len(notices') = Len(notices) - n
      /\ \A i \in 1..Len(notices') : notices'[i] = notices[i + n]
  OBVIOUS
<1> SUFFICES ASSUME NEW f \in Files, NEW i \in 1..Len(notices'),
                    disk[f] # Absent, f \in Removed(notices'[i])
             PROVE  \E j \in i..Len(notices') :
                       \/ notices'[j].kind \in {"ambiguous", "error"}
                       \/ f \in Refreshed(notices'[j])
  BY DEF RemovalsMadeGood, Removed, Refreshed
<1>2. i + n \in 1..Len(notices) /\ f \in Removed(notices[i + n])
  BY <1>1
<1>3. PICK j \in (i + n)..Len(notices) :
         \/ notices[j].kind \in {"ambiguous", "error"}
         \/ f \in Refreshed(notices[j])
  BY <1>2 DEF CacheInv, RemovalsMadeGood
<1>4. j - n \in i..Len(notices') /\ notices'[j - n] = notices[j]
  BY <1>1
<1> QED BY <1>3, <1>4

LEMMA ApplyCache == TypeOK /\ CacheInv /\ ApplyNotice => CacheInv'
<1> SUFFICES ASSUME TypeOK, CacheInv, ApplyNotice PROVE CacheInv'
  OBVIOUS
<1> USE DEF TypeOK
<1> DEFINE first == notices[1]
<1>1. /\ Len(notices) > 0
      /\ Head(notices) = first
      /\ Tail(notices) = SubSeq(notices, 1 + 1, Len(notices))
      /\ Len(notices') = Len(notices) - 1
      /\ \A i \in 1..Len(notices') : notices'[i] = notices[i + 1]
  BY DEF ApplyNotice
<1>2. /\ CanApply(first)
      /\ snapshot' = Updated(first)
      /\ missed' = {f \in missed : snapshot'[f] # disk[f]}
      /\ UNCHANGED <<disk, phase, scanning, fallback>>
  BY <1>1 DEF ApplyNotice
<1>3. first.kind \notin {"ambiguous", "error"}
  BY <1>2 DEF CanApply
<1>4. ASSUME NEW f \in Files, NEW i \in 2..Len(notices), Settles(notices[i], f)
      PROVE  PendingFor(f)'
  <2>1. i - 1 \in 1..Len(notices') /\ notices'[i - 1] = notices[i]
    BY <1>1
  <2> QED BY <1>2, <1>4, <2>1 DEF PendingFor, Settles, Removed, Refreshed
<1>5. ASSUME NEW f \in Files, f \in missed => snapshot'[f] = disk[f]
      PROVE  \/ snapshot'[f] = disk'[f]
             \/ f \in scanning'
             \/ fallback'
             \/ PendingFor(f)'
  <2>1. CASE disk[f] # Absent /\ f \in Refreshed(first)
    BY <1>2, <2>1 DEF Updated
  <2>2. CASE disk[f] # Absent /\ f \notin Refreshed(first) /\ f \in Removed(first)
    <3>1. 1 \in 1..Len(notices)
      BY <1>1
    <3>2. PICK j \in 1..Len(notices) :
             \/ notices[j].kind \in {"ambiguous", "error"}
             \/ f \in Refreshed(notices[j])
      BY <2>2, <3>1 DEF CacheInv, RemovalsMadeGood
    <3>3. j # 1
      BY <1>3, <2>2, <3>2
    <3>4. Settles(notices[j], f)
      BY <2>2, <3>2 DEF Settles
    <3> QED BY <1>4, <3>3, <3>4
  <2>3. CASE disk[f] = Absent /\ f \in Removed(first)
    BY <1>2, <2>3 DEF Updated, Reduced
  <2>4. CASE /\ f \notin Removed(first)
             /\ disk[f] = Absent \/ f \notin Refreshed(first)
    <3>1. snapshot'[f] = snapshot[f]
      BY <1>2, <2>4 DEF Updated, Reduced
    <3>2. ~ Settles(first, f)
      BY <1>3, <2>4 DEF Settles
    <3>3. \/ snapshot'[f] = disk[f]
          \/ f \in scanning
          \/ fallback
          \/ \E i \in 1..Len(notices) : Settles(notices[i], f)
      BY <1>5, <3>1 DEF CacheInv, ChangesAccounted, ApplyNotice
    <3> QED BY <1>2, <1>4, <3>2, <3>3
  <2> QED BY <2>1, <2>2, <2>3, <2>4
<1>6. ChangesAccounted'
  BY <1>2, <1>5 DEF ChangesAccounted, PendingFor
<1>7. RemovalsMadeGood'
  BY <1>1, <1>2, LaterNotices DEF ApplyNotice
<1>8. QuietWithoutWatch'
  BY <1>1, <1>2 DEF CacheInv, QuietWithoutWatch, Watching
<1> QED BY <1>6, <1>7, <1>8 DEF CacheInv

LEMMA CacheStepCache == TypeOK /\ CacheInv /\ CacheStep => CacheInv'
<1> SUFFICES ASSUME TypeOK, CacheInv, CacheStep PROVE CacheInv'
  OBVIOUS
<1>1. CASE New
  <2>1. notices = <<>>
    BY <1>1 DEF New, CacheInv, QuietWithoutWatch, Watching
  <2> QED BY <1>1, <2>1, QuietStep DEF New
<1>2. ASSUME NEW f \in Files, ScanFile(f) PROVE CacheInv'
  <2>1. ChangesAccounted'
    <3> SUFFICES ASSUME NEW g \in Files \ missed'
                 PROVE  \/ snapshot'[g] = disk'[g]
                        \/ g \in scanning'
                        \/ fallback'
                        \/ PendingFor(g)'
      BY DEF ChangesAccounted, PendingFor
    <3>1. CASE g = f
      BY <1>2, <3>1 DEF ScanFile, TypeOK
    <3>2. CASE g # f
      <4>1. /\ snapshot'[g] = snapshot[g]
            /\ g \in scanning <=> g \in scanning'
            /\ g \notin missed
        BY <1>2, <3>2 DEF ScanFile, TypeOK
      <4>2. phase # "down" /\ UNCHANGED <<disk, fallback, notices>>
        BY <1>2 DEF ScanFile
      <4> QED BY <4>1, <4>2, PendingSame
              DEF CacheInv, ChangesAccounted, PendingFor
    <3> QED BY <3>1, <3>2
  <2> QED BY <1>2, <2>1, SameNotices
          DEF CacheInv, ScanFile, QuietWithoutWatch, Watching
<1>3. CASE Watch
  <2>1. notices = <<>>
    BY <1>3 DEF Watch, CacheInv, QuietWithoutWatch, Watching
  <2> QED BY <1>3, <2>1, QuietStep DEF Watch
<1>4. CASE ApplyNotice
  BY <1>4, ApplyCache
<1>5. CASE GiveUpNotices
  <2>1. taken \in 0..Len(notices)
    BY <1>5 DEF GiveUpNotices, TypeOK
  <2>2. ChangesAccounted'
    BY <1>5 DEF GiveUpNotices, Rescan, ChangesAccounted
  <2>3. RemovalsMadeGood'
    BY <1>5, <2>1, LaterNotices DEF GiveUpNotices
  <2>4. Watching \/ notices' = <<>>
    BY <1>5, <2>1 DEF GiveUpNotices, CacheInv, QuietWithoutWatch, TypeOK
  <2> QED BY <1>5, <2>2, <2>3, <2>4
          DEF GiveUpNotices, Rescan, CacheInv, QuietWithoutWatch, Watching
<1>6. CASE RefreshDone
  BY <1>6, QuietStep DEF RefreshDone, Watching
<1> QED BY <1>1, <1>2, <1>3, <1>4, <1>5, <1>6 DEF CacheStep

LEMMA ChangeCache ==
    ASSUME TypeOK, CacheInv, NEW notice \in Notice,
           NEW new \in [Files -> Versions \cup {Absent}],
           Change(new), Notify(notice), Covers(notice, new)
    PROVE  CacheInv'
<1> USE DEF TypeOK
<1>1. /\ disk' = new
      /\ UNCHANGED <<snapshot, phase, scanning, fallback>>
      /\ phase # "new" => missed' = missed
  BY DEF Change
<1>2. CASE Watching
  <2>1. /\ Len(notices') = Len(notices) + 1
        /\ \A i \in 1..Len(notices) : notices'[i] = notices[i]
        /\ notices'[Len(notices) + 1] = notice
    BY <1>2 DEF Notify
  <2>2. ASSUME NEW f \in Files, new[f] # disk[f] PROVE PendingFor(f)'
    <3>1. \/ notice.kind = "ambiguous"
          \/ f \in IF new[f] = Absent THEN Removed(notice) ELSE Refreshed(notice)
      BY <2>2 DEF Covers
    <3>2. Len(notices) + 1 \in 1..Len(notices')
      BY <2>1
    <3> QED BY <1>1, <2>1, <3>1, <3>2 DEF PendingFor, Settles, Removed, Refreshed
  <2>3. ASSUME NEW f \in Files, new[f] = disk[f], PendingFor(f) PROVE PendingFor(f)'
    BY <1>1, <2>1, <2>3 DEF PendingFor, Settles, Removed, Refreshed
  <2>4. ChangesAccounted'
    <3> SUFFICES ASSUME NEW f \in Files \ missed'
                 PROVE  \/ snapshot'[f] = disk'[f]
                        \/ f \in scanning'
                        \/ fallback'
                        \/ PendingFor(f)'
      BY DEF ChangesAccounted, PendingFor
    <3>1. f \notin missed
      BY <1>1, <1>2 DEF Watching
    <3>2. CASE new[f] # disk[f]
      BY <2>2, <3>2
    <3>3. CASE new[f] = disk[f]
      BY <1>1, <1>2, <2>3, <3>1, <3>3
         DEF CacheInv, ChangesAccounted, Watching, PendingFor
    <3> QED BY <3>2, <3>3
  <2>5. RemovalsMadeGood'
    <3> SUFFICES ASSUME NEW f \in Files, NEW i \in 1..Len(notices'),
                        new[f] # Absent, f \in Removed(notices'[i])
                 PROVE  \E j \in i..Len(notices') :
                           \/ notices'[j].kind \in {"ambiguous", "error"}
                           \/ f \in Refreshed(notices'[j])
      BY <1>1 DEF RemovalsMadeGood, Removed, Refreshed
    <3>1. i \in 1..Len(notices) /\ f \in Removed(notices[i])
      BY <2>1 DEF Covers
    <3>2. CASE disk[f] = Absent
      <4>1. notice.kind = "ambiguous" \/ f \in Refreshed(notice)
        BY <3>2 DEF Covers
      <4>2. Len(notices) + 1 \in i..Len(notices')
        BY <2>1, <3>1
      <4> QED BY <2>1, <4>1, <4>2
    <3>3. CASE disk[f] # Absent
      <4>1. PICK j \in i..Len(notices) :
               \/ notices[j].kind \in {"ambiguous", "error"}
               \/ f \in Refreshed(notices[j])
        BY <3>1, <3>3 DEF CacheInv, RemovalsMadeGood
      <4>2. j \in i..Len(notices') /\ notices'[j] = notices[j]
        BY <2>1, <3>1
      <4> QED BY <4>1, <4>2
    <3> QED BY <3>2, <3>3
  <2>6. QuietWithoutWatch'
    BY <1>1, <1>2 DEF QuietWithoutWatch, Watching
  <2> QED BY <2>4, <2>5, <2>6 DEF CacheInv
<1>3. CASE ~ Watching
  <2>1. notices' = <<>>
    BY <1>3 DEF Notify, CacheInv, QuietWithoutWatch
  <2>2. ChangesAccounted'
    <3>1. CASE phase = "new"
      <4> SUFFICES ASSUME NEW f \in Files \ missed'
                   PROVE  \/ snapshot'[f] = disk'[f]
                          \/ f \in scanning'
                          \/ fallback'
        BY DEF ChangesAccounted
      <4>1. f \notin missed /\ (f \in scanning \/ new[f] = disk[f])
        BY <3>1 DEF Change
      <4>2. ~ PendingFor(f)
        BY <1>3 DEF CacheInv, QuietWithoutWatch, PendingFor
      <4> QED BY <1>1, <3>1, <4>1, <4>2 DEF CacheInv, ChangesAccounted, PendingFor
    <3>2. CASE phase = "down" \/ fallback
      BY <1>1, <3>2 DEF ChangesAccounted
    <3> QED BY <1>3, <3>1, <3>2 DEF Watching
  <2>3. RemovalsMadeGood' /\ QuietWithoutWatch'
    BY <2>1 DEF RemovalsMadeGood, QuietWithoutWatch
  <2> QED BY <2>2, <2>3 DEF CacheInv
<1> QED BY <1>2, <1>3

LEMMA VanishCache ==
    ASSUME NEW f \in Files, VanishDuringScan(f)
    PROVE  CacheInv'
BY DEF VanishDuringScan, CacheInv, ChangesAccounted, RemovalsMadeGood,
       QuietWithoutWatch

LEMMA FailureCache ==
    TypeOK /\ CacheInv /\ (WatchFails \/ WatcherFails) => CacheInv'
<1> SUFFICES ASSUME TypeOK, CacheInv, WatchFails \/ WatcherFails PROVE CacheInv'
  OBVIOUS
<1>1. CASE WatchFails
  <2>1. notices = <<>>
    BY <1>1 DEF WatchFails, CacheInv, QuietWithoutWatch, Watching
  <2> QED BY <1>1, <2>1, QuietStep DEF WatchFails
<1>2. CASE WatcherFails
  <2> USE DEF TypeOK
  <2>1. PICK p \in Paths : notices' = Append(notices, About("error", p))
    BY <1>2 DEF WatcherFails, Notify
  <2>2. /\ Len(notices') = Len(notices) + 1
        /\ \A i \in 1..Len(notices) : notices'[i] = notices[i]
        /\ notices'[Len(notices) + 1].kind = "error"
    BY <2>1 DEF About
  <2>3. ChangesAccounted'
    <3>1. \A f : PendingFor(f)'
      BY <2>2 DEF PendingFor, Settles
    <3> QED BY <3>1 DEF ChangesAccounted, PendingFor
  <2>4. RemovalsMadeGood'
    <3> SUFFICES ASSUME NEW i \in 1..Len(notices')
                 PROVE  \E j \in i..Len(notices') : notices'[j].kind = "error"
      BY DEF RemovalsMadeGood
    <3>1. Len(notices) + 1 \in i..Len(notices')
      BY <2>2
    <3> QED BY <2>2, <3>1
  <2>5. QuietWithoutWatch'
    BY <1>2 DEF WatcherFails, QuietWithoutWatch, Watching
  <2> QED BY <2>3, <2>4, <2>5 DEF CacheInv
<1> QED BY <1>1, <1>2

LEMMA StepCache == TypeOK /\ CacheInv /\ [Next]_vars => CacheInv'
<1> SUFFICES ASSUME TypeOK, CacheInv, [Next]_vars PROVE CacheInv'
  OBVIOUS
<1>1. CASE FileStep
  BY <1>1, FileStepNotifies, ChangeCache, VanishCache
<1>2. CASE UNCHANGED vars
  BY <1>2, QuietStep DEF vars, Watching, CacheInv, ChangesAccounted,
     RemovalsMadeGood, QuietWithoutWatch, Settles, Removed, Refreshed
<1> QED BY <1>1, <1>2, RefreshCache, CacheStepCache, FailureCache DEF Next

(* StorageSnapshotCache (daemon.rs) and the notices (monitor/storage.rs):   *)
(* the inductive invariant of the cache.                                    *)
THEOREM CacheInvHolds == Spec => []CacheInv
BY InitType, InitCache, StepType, StepCache, PTL DEF Spec

(* Whatever the snapshot is wrong about, the cache will still set right,    *)
(* unless it changed between the first scan and the watch.                  *)
THEOREM ChangesAccountedHolds == Spec => []ChangesAccounted
<1>1. CacheInv => ChangesAccounted
  BY DEF CacheInv
<1> QED BY <1>1, CacheInvHolds, PTL

(* The cache and its notices (daemon.rs, monitor/storage.rs): typed, and inductively so. *)
THEOREM CacheIInvHolds == Spec => []CacheIInv
<1>1. TypeOK /\ CacheInv => CacheIInv
  BY DEF CacheIInv
<1> QED BY <1>1, CacheTypeCorrect, CacheInvHolds, PTL
-----------------------------------------------------------------------------
(* Files are left to be scanned during a scan only. *)
ScanAccounted == phase \in {"new", "scan"} \/ scanning = {}

LEMMA ScanAccountedStep == ScanAccounted /\ [Next]_vars => ScanAccounted'
<1> SUFFICES ASSUME ScanAccounted, [Next]_vars PROVE ScanAccounted'
  OBVIOUS
<1>1. CASE RefreshStep
  BY <1>1 DEF RefreshStep, RefreshByScan, Refresh, RefreshAfterError, Rescan,
              ScanAccounted
<1>2. CASE CacheStep
  BY <1>2 DEF CacheStep, New, ScanFile, Watch, ApplyNotice, GiveUpNotices,
              RefreshDone, Rescan, ScanAccounted
<1>3. CASE FileStep
  BY <1>3 DEF FileStep, WriteFile, Delete, RenameFile, Change, VanishDuringScan,
              ScanAccounted
<1>4. CASE WatchFails \/ WatcherFails \/ UNCHANGED vars
  BY <1>4 DEF WatchFails, WatcherFails, vars, ScanAccounted
<1> QED BY <1>1, <1>2, <1>3, <1>4 DEF Next

(* Nothing is in hand: the watch works and has no notice left. *)
AtRest == phase = "idle" /\ ~ fallback /\ notices = <<>>

(* daemon.rs, refresh_if_needed: when the watch works and all of its        *)
(* notices are applied, the snapshot is right about every file, however     *)
(* many changes, renames and late notices there were.                       *)
THEOREM AtRestIsRight ==
    Spec => [](AtRest => \A f \in Files \ missed : snapshot[f] = disk[f])
<1>1. Init => ScanAccounted
  BY DEF Init, ScanAccounted
<1>2. Spec => []ScanAccounted
  BY <1>1, ScanAccountedStep, PTL DEF Spec
<1>3. ScanAccounted /\ CacheInv /\ AtRest =>
        \A f \in Files \ missed : snapshot[f] = disk[f]
  <2> SUFFICES ASSUME ScanAccounted, CacheInv, AtRest, NEW f \in Files \ missed
               PROVE  snapshot[f] = disk[f]
    OBVIOUS
  <2>1. scanning = {} /\ ~ fallback /\ phase # "down"
    BY DEF ScanAccounted, AtRest
  <2>2. 1..Len(notices) = {}
    BY DEF AtRest
  <2> QED BY <2>1, <2>2 DEF CacheInv, ChangesAccounted
<1> QED BY <1>2, <1>3, CacheInvHolds, PTL

-----------------------------------------------------------------------------
(* How many steps are left of a scan, or of a refresh by notices and the    *)
(* scan that it may come to.                                                *)
StepsLeft ==
    CASE phase \in {"new", "scan"} -> Cardinality(scanning) + 1
      [] phase = "apply"           -> taken + Cardinality(Files) + 3
      [] OTHER                     -> 0

Busy == phase \in {"new", "scan", "apply"}

LEMMA StepsLeftIs ==
    /\ phase \in {"new", "scan"} => StepsLeft = Cardinality(scanning) + 1
    /\ phase = "apply" => StepsLeft = taken + Cardinality(Files) + 3
    /\ ~ Busy => StepsLeft = 0
  BY DEF StepsLeft, Busy

LEMMA StepsLeftNextIs ==
    /\ phase' \in {"new", "scan"} => StepsLeft' = Cardinality(scanning') + 1
    /\ phase' = "apply" => StepsLeft' = taken' + Cardinality(Files) + 3
    /\ ~ Busy' => StepsLeft' = 0
  BY DEF StepsLeft, Busy

LEMMA Counts ==
    ASSUME IsFiniteSet(Files), TypeOK, Busy
    PROVE  /\ Cardinality(Files) \in Nat
           /\ Cardinality(scanning) \in Nat
           /\ taken \in Nat
           /\ StepsLeft \in Nat \ {0}
<1>1. Cardinality(Files) \in Nat /\ Cardinality(scanning) \in Nat
  BY FS_Subset, FS_CardinalityType DEF TypeOK
<1>2. taken \in Nat
  BY DEF TypeOK
<1> QED BY <1>1, <1>2, StepsLeftIs DEF Busy

LEMMA CacheStepShortens ==
    ASSUME IsFiniteSet(Files), TypeOK, Busy, CacheStep
    PROVE  StepsLeft' < StepsLeft
<1> USE Counts
<1>1. ~ New
  BY DEF New, Busy
<1>2. ASSUME NEW f \in Files, ScanFile(f) PROVE StepsLeft' < StepsLeft
  <2>1. /\ phase \in {"new", "scan"} /\ phase' = phase
        /\ f \in scanning /\ scanning' = scanning \ {f}
    BY <1>2 DEF ScanFile
  <2>2. Cardinality(scanning') = Cardinality(scanning) - 1
    BY <2>1, FS_Subset, FS_RemoveElement DEF TypeOK
  <2> QED BY <2>1, <2>2, StepsLeftIs, StepsLeftNextIs
<1>3. CASE Watch \/ RefreshDone
  <2>1. ~ Busy'
    BY <1>3 DEF Watch, RefreshDone, Busy
  <2> QED BY <2>1, StepsLeftNextIs
<1>4. CASE ApplyNotice
  <2>1. phase = "apply" /\ phase' = "apply" /\ taken' = taken - 1
    BY <1>4 DEF ApplyNotice
  <2> QED BY <2>1, StepsLeftIs, StepsLeftNextIs
<1>5. CASE GiveUpNotices
  <2>1. phase = "apply" /\ phase' = "scan" /\ scanning' = Files
    BY <1>5 DEF GiveUpNotices, Rescan
  <2> QED BY <2>1, StepsLeftIs, StepsLeftNextIs
<1> QED BY <1>1, <1>2, <1>3, <1>4, <1>5 DEF CacheStep

LEMMA NothingLengthens ==
    ASSUME IsFiniteSet(Files), TypeOK, Busy, [Next]_vars
    PROVE  StepsLeft' <= StepsLeft
<1>1. StepsLeft \in Nat
  BY Counts
<1>2. CASE CacheStep
  <2>1. StepsLeft' < StepsLeft
    BY <1>2, CacheStepShortens
  <2>2. StepsLeft' \in Int \/ StepsLeft' = 0
    <3>1. IsFiniteSet(scanning') /\ taken' \in Int
      <4>1. TypeOK'
        BY <1>2, CacheStepType
      <4> QED BY <4>1, FS_Subset DEF TypeOK
    <3> QED BY <3>1, FS_CardinalityType, StepsLeftNextIs DEF Busy
  <2> QED BY <1>1, <2>1, <2>2
<1>3. ~ RefreshStep
  BY DEF RefreshStep, RefreshByScan, Refresh, RefreshAfterError, Busy
<1>4. CASE ~ Busy'
  BY <1>1, <1>4, StepsLeftNextIs
<1>5. CASE UNCHANGED <<phase, scanning, taken>>
  <2>1. StepsLeft' = StepsLeft
    BY <1>5 DEF StepsLeft
  <2> QED BY <1>1, <2>1
<1>6. FileStep => ~ Busy' \/ UNCHANGED <<phase, scanning, taken>>
  BY DEF FileStep, WriteFile, Delete, RenameFile, Change, VanishDuringScan, Busy
<1>7. WatchFails \/ WatcherFails \/ UNCHANGED vars =>
        ~ Busy' \/ UNCHANGED <<phase, scanning, taken>>
  BY DEF WatchFails, WatcherFails, Busy, vars
<1> QED BY <1>2, <1>3, <1>4, <1>5, <1>6, <1>7 DEF Next

(* daemon.rs, monitor/storage.rs: a refresh that is under way comes to its  *)
(* end in so many steps of its own, whatever changes of the files, notices  *)
(* and failures of the watcher arrive in the meantime.                      *)
THEOREM RefreshShortens ==
    ASSUME IsFiniteSet(Files)
    PROVE  Spec => [][Busy => /\ CacheStep => StepsLeft' < StepsLeft
                              /\ StepsLeft' <= StepsLeft]_vars
<1>1. TypeOK /\ [Next]_vars =>
        [Busy => /\ CacheStep => StepsLeft' < StepsLeft
                 /\ StepsLeft' <= StepsLeft]_vars
  BY CacheStepShortens, NothingLengthens
<1> QED BY <1>1, CacheTypeCorrect, PTL DEF Spec
=============================================================================
