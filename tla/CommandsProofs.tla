--------------------------- MODULE CommandsProofs ---------------------------
(***************************************************************************)
(* What commands that run side by side leave of their evidence, of the     *)
(* socket and of the notices, whom a one-shot guard ends, and that the two *)
(* readers of the configuration agree, for any number of commands,         *)
(* desktops, edits and faults.                                             *)
(***************************************************************************)
EXTENDS Commands, WellFoundedInduction, TLAPS

(* Which steps of the commands concern the socket. *)
LEMMA StepsOfSocket ==
    ASSUME [Next]_vars
    PROVE  \/ UNCHANGED socket_vars
           \/ \E r \in Runners : BeginBind(r) \/ BindStep(r) \/ BindError(r)
                                 \/ Close(r) \/ Abandon(r)
<1>1. CASE UNCHANGED vars
  BY <1>1 DEF vars
<1>2. CASE WorldStep
  <2>1. CASE DesktopChanges \/ EvidenceRemoved \/ OwnerEdits \/ SetupBegins
             \/ AnalyzerExits
    BY <2>1 DEF DesktopChanges, EvidenceRemoved, OwnerEdits, SetupBegins,
                AnalyzerExits, Change
  <2>2. CASE SetupEnds
    BY <2>2 DEF SetupEnds
  <2> QED BY <1>2, <2>1, <2>2 DEF WorldStep
<1>3. ASSUME NEW r \in Runners, CommandStep(r)
      PROVE  \/ UNCHANGED socket_vars
             \/ BeginBind(r) \/ BindStep(r) \/ BindError(r) \/ Close(r) \/ Abandon(r)
  <2>1. CASE (\E command \in DOMAIN Program : Start(r, command)) \/ Exit(r)
    BY <2>1 DEF Start, Exit
  <2>2. CASE \E p \in Paths : NothingToCapture(r, p) \/ BeginRefresh(r, p)
                              \/ EndRefresh(r, p)
    BY <2>2 DEF NothingToCapture, BeginRefresh, EndRefresh
  <2>3. CASE LoadConfig(r)
    BY <2>3 DEF LoadConfig
  <2>4. CASE RunOnce(r) \/ OpensEvidence(r) \/ WritesEvidence(r) \/ FallsBack(r)
             \/ PersistsElsewhere(r)
    BY <2>4 DEF RunOnce, OpensEvidence, WritesEvidence, FallsBack,
                PersistsElsewhere, EvidenceStep
  <2>5. CASE BeginServing(r) \/ BindsSocket(r) \/ FailsToBind(r) \/ DaemonEnds(r)
    BY <2>5 DEF BeginServing, BindsSocket, FailsToBind, DaemonEnds
  <2>6. CASE NotifyTerminated(r) \/ NotifySmoke(r) \/ Notify(r)
    BY <2>6 DEF NotifyTerminated, NotifySmoke, Notify
  <2>7. CASE GuardLoads(r) \/ GuardInline(r) \/ GuardCollects(r) \/ GuardFails(r)
             \/ GuardDone(r)
    BY <2>7 DEF GuardLoads, GuardInline, GuardCollects, GuardFails, GuardDone
  <2>8. CASE \E i \in DOMAIN Samples : GuardEnds(r, i)
    BY <2>8 DEF GuardEnds
  <2>9. CASE Crash(r)
    BY <2>9 DEF Crash
  <2> QED BY <1>3, <2>1, <2>2, <2>3, <2>4, <2>5, <2>6, <2>7, <2>8, <2>9
          DEF CommandStep
<1> QED BY <1>1, <1>2, <1>3 DEF Next

LEMMA SocketInitHolds == Init => SocketInv
BY SocketAssumption DEF Init, SocketInit, SocketInv, SocketTypeOK, SocketServed

LEMMA SocketStep ==
    ASSUME SocketInv, [Next]_vars
    PROVE  SocketInv'
<1>1. CASE UNCHANGED socket_vars
  BY <1>1 DEF socket_vars, SocketInv, SocketTypeOK, SocketServed
<1>2. ASSUME NEW r \in Runners, BeginBind(r) PROVE SocketInv'
  BY <1>2, SocketAssumption DEF BeginBind, SocketInv, SocketTypeOK, SocketServed
<1>3. ASSUME NEW r \in Runners, BindStep(r) PROVE SocketInv'
  <2>1. CASE Exists(r)
    BY <2>1, SocketAssumption DEF Exists, SocketInv, SocketTypeOK, SocketServed
  <2>2. CASE RemoveFile(r)
    BY <2>2, SocketAssumption DEF RemoveFile, SocketInv, SocketTypeOK, SocketServed
  <2>3. CASE Bind(r)
    BY <2>3, SocketAssumption DEF Bind, SocketInv, SocketTypeOK, SocketServed
  <2> QED BY <1>3, <2>1, <2>2, <2>3 DEF BindStep
<1>4. ASSUME NEW r \in Runners, BindError(r) PROVE SocketInv'
  BY <1>4, SocketAssumption
     DEF BindError, Unbound, SocketInv, SocketTypeOK, SocketServed
<1>5. ASSUME NEW r \in Runners, Close(r) PROVE SocketInv'
  BY <1>5, SocketAssumption
     DEF Close, Unbound, SocketInv, SocketTypeOK, SocketServed
<1>6. ASSUME NEW r \in Runners, Abandon(r) PROVE SocketInv'
  BY <1>6, SocketAssumption
     DEF Abandon, Unbound, SocketInv, SocketTypeOK, SocketServed
<1> QED BY <1>1, <1>2, <1>3, <1>4, <1>5, <1>6, StepsOfSocket

(* ipc.rs: a daemon that runs alone gets the socket, whatever an earlier    *)
(* one has left behind, and keeps it, for any number of daemons and kills.  *)
THEOREM SocketServedHolds == Spec => []SocketServed
<1>1. Spec => []SocketInv
  BY SocketInitHolds, SocketStep, PTL DEF Spec
<1>2. SocketInv => SocketServed
  BY DEF SocketInv
<1> QED BY <1>1, <1>2, PTL

-----------------------------------------------------------------------------
(* Which steps of the commands concern the notices. *)
DesktopStep(r) ==
    \/ \E p \in Paths : \/ p \notin refreshing[r] /\ CreateSnapshot(r, p)
                       \/ WriteSnapshot(r, p)
                       \/ BeginNotice(r, p)
    \/ NoticeStep(r)
    \/ \E d \in open \cup {NoDesktop} : Enter(r, d)
    \/ Leave(r)

LEMMA StepsOfDesktop ==
    ASSUME [Next]_vars
    PROVE  \/ UNCHANGED desktop_vars
           \/ \E r \in Runners : DesktopStep(r)
           \/ \E d \in Desktops : Toggle(d)
<1>1. CASE UNCHANGED vars
  BY <1>1 DEF vars
<1>2. CASE WorldStep
  <2>1. CASE EvidenceRemoved \/ OwnerEdits \/ SetupBegins \/ SetupEnds
             \/ AnalyzerExits
    BY <2>1 DEF EvidenceRemoved, OwnerEdits, SetupBegins, SetupEnds,
                AnalyzerExits
  <2>2. CASE DesktopChanges
    BY <2>2 DEF DesktopChanges
  <2> QED BY <1>2, <2>1, <2>2 DEF WorldStep
<1>3. ASSUME NEW r \in Runners, CommandStep(r)
      PROVE  UNCHANGED desktop_vars \/ DesktopStep(r)
  <2>1. CASE \E command \in DOMAIN Program : Start(r, command)
    BY <2>1 DEF Start, DesktopStep
  <2>2. CASE Exit(r) \/ Crash(r)
    BY <2>2 DEF Exit, Crash, Gone, DesktopStep
  <2>3. CASE \E p \in Paths : NothingToCapture(r, p)
    BY <2>3 DEF NothingToCapture
  <2>4. CASE \E p \in Paths : BeginRefresh(r, p) \/ EndRefresh(r, p)
    BY <2>4 DEF BeginRefresh, EndRefresh, DesktopStep
  <2>5. CASE LoadConfig(r)
    BY <2>5 DEF LoadConfig
  <2>6. CASE RunOnce(r) \/ OpensEvidence(r) \/ WritesEvidence(r) \/ FallsBack(r)
             \/ PersistsElsewhere(r)
    BY <2>6 DEF RunOnce, OpensEvidence, WritesEvidence, FallsBack,
                PersistsElsewhere, EvidenceStep
  <2>7. CASE BeginServing(r) \/ BindsSocket(r) \/ FailsToBind(r) \/ DaemonEnds(r)
    BY <2>7 DEF BeginServing, BindsSocket, FailsToBind, DaemonEnds, DaemonStep
  <2>8. CASE NotifyTerminated(r) \/ NotifySmoke(r) \/ Notify(r)
    BY <2>8, CommandsAssumption DEF NotifyTerminated, NotifySmoke, Notify, DesktopStep
  <2>9. CASE GuardLoads(r) \/ GuardInline(r) \/ GuardCollects(r) \/ GuardFails(r)
             \/ GuardDone(r)
    BY <2>9 DEF GuardLoads, GuardInline, GuardCollects, GuardFails, GuardDone
  <2>10. CASE \E i \in DOMAIN Samples : GuardEnds(r, i)
    BY <2>10 DEF GuardEnds
  <2> QED BY <1>3, <2>1, <2>2, <2>3, <2>4, <2>5, <2>6, <2>7, <2>8, <2>9, <2>10
          DEF CommandStep
<1> QED BY <1>1, <1>2, <1>3 DEF Next

LEMMA DesktopInitHolds == Init => DesktopInv
<1> SUFFICES ASSUME Init PROVE DesktopInv
  OBVIOUS
<1>1. \A p \in Paths : SnapshotTells(p)
  BY DEF Init, DesktopInit, SnapshotTells, Refreshers
<1>2. \A r \in Senders : NoticeTells(r)
  BY DEF Init, DesktopInit, NoticeTells
<1> QED BY <1>1, <1>2 DEF Init, DesktopInit, DesktopInv, LossesExplained

(* States of a snapshot, and stages of a notice, are not confused. *)
LEMMA Distinct ==
    /\ Empty.state = "empty" /\ \A t : Whole(t).state = "whole" /\ Whole(t).text = t
    /\ NoNotice.stage = "none"
BY DEF Empty, Whole, NoNotice

(* What leaves the files alone leaves what is known of them. *)
LEMMA SnapshotsUndisturbed ==
    ASSUME DesktopInv, UNCHANGED <<snapshot, captured, refreshing, disturbed>>
    PROVE  \A p \in Paths : SnapshotTells(p)'
BY DEF DesktopInv, SnapshotTells, Refreshers

LEMMA NoticesUndisturbed ==
    ASSUME DesktopInv, UNCHANGED notice
    PROVE  \A r \in Senders : NoticeTells(r)'
BY DEF DesktopInv, NoticeTells

LEMMA CreateKeepsDesktop ==
    ASSUME DesktopInv, NEW r \in Senders, NEW p \in Paths,
           p \notin refreshing[r], CreateSnapshot(r, p)
    PROVE  DesktopInv'
<1>1. \A q \in Paths : SnapshotTells(q)'
  <2> SUFFICES ASSUME NEW q \in Paths, q \notin disturbed' PROVE SnapshotTells(q)'
    BY DEF SnapshotTells
  <2>1. CASE q # p
    <3>1. Refreshers(q)' = Refreshers(q) /\ snapshot'[q] = snapshot[q]
          /\ q \notin disturbed
      BY <2>1 DEF DesktopInv, CreateSnapshot, Refreshers
    <3> QED BY <3>1 DEF DesktopInv, CreateSnapshot, SnapshotTells
  <2>2. CASE q = p
    <3>1. Refreshers(p) = {} /\ snapshot'[p] = Empty
      BY <2>2 DEF DesktopInv, CreateSnapshot
    <3>2. Refreshers(p)' = {r}
      BY <3>1 DEF DesktopInv, CreateSnapshot, Refreshers
    <3> QED BY <2>2, <3>1, <3>2 DEF SnapshotTells
  <2> QED BY <2>1, <2>2
<1>2. \A s \in Senders : NoticeTells(s)'
  BY NoticesUndisturbed DEF CreateSnapshot
<1> QED BY <1>1, <1>2 DEF DesktopInv, CreateSnapshot, LossesExplained

LEMMA WriteKeepsDesktop ==
    ASSUME DesktopInv, NEW r \in Senders, NEW p \in Paths, WriteSnapshot(r, p)
    PROVE  DesktopInv'
<1>1. \A q \in Paths : SnapshotTells(q)'
  <2> SUFFICES ASSUME NEW q \in Paths, q \notin disturbed PROVE SnapshotTells(q)'
    BY DEF SnapshotTells, WriteSnapshot
  <2>1. CASE q # p
    <3>1. Refreshers(q)' = Refreshers(q) /\ snapshot'[q] = snapshot[q]
          /\ captured'[q] = captured[q]
      BY <2>1 DEF DesktopInv, WriteSnapshot, Refreshers
    <3> QED BY <3>1 DEF DesktopInv, WriteSnapshot, SnapshotTells
  <2>2. CASE q = p
    <3>1. Refreshers(p) = {r} /\ snapshot[p] = Empty
      BY <2>2 DEF DesktopInv, WriteSnapshot, SnapshotTells, Refreshers
    <3>2. Refreshers(p)' = {}
      BY <3>1 DEF DesktopInv, WriteSnapshot, Refreshers
    <3>3. snapshot'[p] = Whole(env[r])
      <4>1. Overwritten(snapshot[p], env[r], LongerSnapshot(snapshot[p].text, env[r]))
              = Whole(env[r])
        BY <3>1, Distinct DEF Overwritten
      <4> QED BY <4>1 DEF DesktopInv, WriteSnapshot
    <3>4. captured'[p] = env[r]
      BY DEF DesktopInv, WriteSnapshot
    <3> QED BY <2>2, <3>2, <3>3, <3>4 DEF SnapshotTells
  <2> QED BY <2>1, <2>2
<1>2. \A s \in Senders : NoticeTells(s)'
  BY NoticesUndisturbed DEF WriteSnapshot
<1>3. refreshing' \in [Senders -> SUBSET Paths]
  BY DEF DesktopInv, WriteSnapshot
<1> QED BY <1>1, <1>2, <1>3 DEF DesktopInv, WriteSnapshot, LossesExplained

LEMMA LeaveKeepsDesktop ==
    ASSUME DesktopInv, NEW r \in Senders, Leave(r)
    PROVE  DesktopInv'
<1>1. \A q \in Paths : SnapshotTells(q)'
  <2> SUFFICES ASSUME NEW q \in Paths, q \notin disturbed' PROVE SnapshotTells(q)'
    BY DEF SnapshotTells
  <2>1. Refreshers(q)' = Refreshers(q) /\ q \notin disturbed
    BY DEF DesktopInv, Leave, Refreshers
  <2> QED BY <2>1 DEF DesktopInv, Leave, SnapshotTells
<1>2. \A s \in Senders : NoticeTells(s)'
  BY DEF DesktopInv, Leave, NoticeTells
<1>3. refreshing' \in [Senders -> SUBSET Paths]
  BY DEF DesktopInv, Leave
<1> QED BY <1>1, <1>2, <1>3 DEF DesktopInv, Leave, LossesExplained

(* A notice is lost without being due. *)
LEMMA NoticeKeepsDesktop ==
    ASSUME DesktopInv, NEW r \in Senders, NoticeStep(r)
    PROVE  DesktopInv'
<1>1. UNCHANGED <<open, snapshot, refreshing, captured, disturbed>>
  BY DEF NoticeStep, ShowDirect, DirectFails, LoadSnapshot, RunHelper, HelperFails
<1>2. \A p \in Paths : SnapshotTells(p)'
  BY <1>1, SnapshotsUndisturbed
<1>3. DOMAIN notice' = Senders /\ \A s \in Senders \ {r} : notice'[s] = notice[s]
  BY DEF DesktopInv, NoticeStep, ShowDirect, DirectFails, LoadSnapshot, RunHelper,
         HelperFails, Lost
<1>4. \A d : d \in open => d # NoDesktop
  BY DesktopAssumption DEF DesktopInv
<1>5. NoticeTells(r)' /\ LossesExplained'
  <2>1. CASE ShowDirect(r)
    BY <2>1 DEF DesktopInv, ShowDirect, NoticeTells, LossesExplained
  <2>2. CASE DirectFails(r)
    <3>1. PICK p \in Paths, stage \in {"direct", "load"} :
             notice[r] = [stage |-> stage, path |-> p]
      BY <2>2 DEF DesktopInv, DirectFails, NoticeTells, NoNotice
    <3>2. notice'[r] = [stage |-> "load", path |-> p]
      BY <2>2, <3>1 DEF DesktopInv, DirectFails
    <3> QED BY <2>2, <3>2 DEF DesktopInv, DirectFails, NoticeTells, LossesExplained
  <2>3. CASE LoadSnapshot(r)
    <3>1. PICK p \in Paths : notice[r].path = p
      BY <2>3 DEF DesktopInv, LoadSnapshot, NoticeTells, NoNotice
    <3>2. SnapshotTells(p)
      BY DEF DesktopInv
    <3>3. CASE snapshot[p].state = "whole"
      <4>1. notice'[r] = [stage |-> "helper", desktop |-> snapshot[p].text,
                          due |-> Due(p)]
        BY <2>3, <3>1, <3>3 DEF DesktopInv, LoadSnapshot
      <4>2. Due(p) \in {snapshot[p].text, NoDesktop}
        BY <3>2, Distinct DEF Due, SnapshotTells
      <4>3. unexplained' = unexplained
        BY <2>3, <3>1, <3>3 DEF LoadSnapshot
      <4>4. /\ notice'[r].stage = "helper"
            /\ notice'[r].due \in {notice'[r].desktop, NoDesktop}
        BY <4>1, <4>2
      <4> QED BY <4>3, <4>4 DEF DesktopInv, NoticeTells, LossesExplained
    <3>4. CASE snapshot[p].state # "whole"
      <4>1. Due(p) = NoDesktop
        BY <3>2, <3>4, Distinct DEF Due, SnapshotTells
      <4>2. Lost(r, Due(p))
        BY <2>3, <3>1, <3>4 DEF LoadSnapshot
      <4> QED BY <1>4, <4>1, <4>2 DEF Lost, DesktopInv, NoticeTells, LossesExplained
    <3> QED BY <3>3, <3>4
  <2>4. CASE RunHelper(r)
    BY <2>4 DEF DesktopInv, RunHelper, NoticeTells, LossesExplained
  <2>5. CASE HelperFails(r)
    <3>1. notice[r].due \in {notice[r].desktop, NoDesktop}
      BY <2>5 DEF DesktopInv, HelperFails, NoticeTells, NoNotice
    <3>2. NoDesktop \notin open
      BY <1>4
    <3>3. notice'[r] = NoNotice
      BY <2>5 DEF DesktopInv, HelperFails, Lost
    <3>4. LossesExplained'
      BY <2>5, <3>1, <3>2 DEF DesktopInv, LossesExplained, HelperFails, Lost
    <3> QED BY <3>3, <3>4 DEF NoticeTells
  <2> QED BY <2>1, <2>2, <2>3, <2>4, <2>5 DEF NoticeStep
<1>6. \A s \in Senders : NoticeTells(s)'
  BY <1>3, <1>5 DEF DesktopInv, NoticeTells
<1> QED BY <1>1, <1>2, <1>3, <1>5, <1>6 DEF DesktopInv

LEMMA DesktopStepHolds ==
    ASSUME DesktopInv, [Next]_vars
    PROVE  DesktopInv'
<1>1. CASE UNCHANGED desktop_vars
  <2>1. \A p \in Paths : SnapshotTells(p)'
    BY <1>1, SnapshotsUndisturbed DEF desktop_vars
  <2>2. \A r \in Senders : NoticeTells(r)'
    BY <1>1, NoticesUndisturbed DEF desktop_vars
  <2> QED BY <1>1, <2>1, <2>2 DEF desktop_vars, DesktopInv, LossesExplained
<1>2. ASSUME NEW d \in Desktops, Toggle(d) PROVE DesktopInv'
  <2>1. \A p \in Paths : SnapshotTells(p)'
    BY <1>2, SnapshotsUndisturbed DEF Toggle
  <2>2. \A r \in Senders : NoticeTells(r)'
    BY <1>2, NoticesUndisturbed DEF Toggle
  <2> QED BY <1>2, <2>1, <2>2 DEF Toggle, DesktopInv, LossesExplained
<1>3. ASSUME NEW r \in Senders, DesktopStep(r) PROVE DesktopInv'
  <2>1. CASE \E p \in Paths : p \notin refreshing[r] /\ CreateSnapshot(r, p)
    BY <2>1, CreateKeepsDesktop
  <2>2. CASE \E p \in Paths : WriteSnapshot(r, p)
    BY <2>2, WriteKeepsDesktop
  <2>3. CASE \E p \in Paths : BeginNotice(r, p)
    <3>1. \A p \in Paths : SnapshotTells(p)'
      BY <2>3, SnapshotsUndisturbed DEF BeginNotice
    <3>2. \A s \in Senders : NoticeTells(s)'
      BY <2>3 DEF BeginNotice, DesktopInv, NoticeTells
    <3> QED BY <2>3, <3>1, <3>2 DEF BeginNotice, DesktopInv, LossesExplained
  <2>4. CASE NoticeStep(r)
    BY <2>4, NoticeKeepsDesktop
  <2>5. CASE \E d \in open \cup {NoDesktop} : Enter(r, d)
    <3>1. \A p \in Paths : SnapshotTells(p)'
      BY <2>5, SnapshotsUndisturbed DEF Enter
    <3>2. \A s \in Senders : NoticeTells(s)'
      BY <2>5, NoticesUndisturbed DEF Enter
    <3> QED BY <2>5, <3>1, <3>2 DEF Enter, DesktopInv, LossesExplained
  <2>6. CASE Leave(r)
    BY <2>6, LeaveKeepsDesktop
  <2> QED BY <1>3, <2>1, <2>2, <2>3, <2>4, <2>5, <2>6 DEF DesktopStep
<1> QED BY <1>1, <1>2, <1>3, StepsOfDesktop, CommandsAssumption

(* notifications.rs: no notice is lost while the desktop saved last is      *)
(* open, unless commands were saving at once or one was cut short, or the   *)
(* helper is told of that desktop and fails, for any number of commands,    *)
(* desktops and notices.                                                    *)
THEOREM LossesExplainedHolds == Spec => []LossesExplained
<1>1. Spec => []DesktopInv
  BY DesktopInitHolds, DesktopStepHolds, PTL DEF Spec
<1>2. DesktopInv => LossesExplained
  BY DEF DesktopInv
<1> QED BY <1>1, <1>2, PTL

-----------------------------------------------------------------------------
(* What stands of one evidence file. *)
FileStands(n) ==
    \/ proven[n] = {}
    \/ n \in overlaid
    \/ WritersOf(n) # {}
    \/ files[n].state = "whole" /\ files[n].text \in proven[n]

LEMMA StandsByFile ==
    /\ EvidenceStands <=> \A n \in Names : FileStands(n)
    /\ (EvidenceStands <=> \A n \in Names : FileStands(n))'
BY DEF EvidenceStands, FileStands, Names

(* A writer that is not at the file, and what it leaves alone. *)
LEMMA FileUndisturbed ==
    ASSUME EvidenceInv, NEW n \in Names,
           files'[n] = files[n], proven'[n] = proven[n],
           n \in overlaid => n \in overlaid',
           WritersOf(n)' = WritersOf(n),
           \A s \in WritersOf(n) : writer'[s] = writer[s]
    PROVE  FileStands(n)' /\ WritersAgree(n)'
<1>1. FileStands(n) /\ WritersAgree(n)
  BY StandsByFile DEF EvidenceInv
<1>2. FileStands(n)'
  BY <1>1 DEF FileStands
<1>3. WritersAgree(n)'
  BY <1>1 DEF WritersAgree
<1> QED BY <1>2, <1>3

LEMMA Overlaid ==
    ASSUME NEW n, n \in overlaid'
    PROVE  FileStands(n)' /\ WritersAgree(n)'
BY DEF FileStands, WritersAgree

(* One writer moves on, and is none of any file before or after. *)
LEMMA WriterElsewhere ==
    ASSUME EvidenceInv, NEW r \in Callers, NEW now,
           writer' = [writer EXCEPT ![r] = now],
           writer[r].stage # "write", now.stage # "write",
           UNCHANGED <<files, proof_vars>>,
           WriterTells(r)'
    PROVE  EvidenceInv'
<1>1. /\ DOMAIN writer' = Callers
      /\ writer'[r] = now
      /\ \A s \in Callers \ {r} : writer'[s] = writer[s]
  BY DEF EvidenceInv
<1>2. ASSUME NEW n \in Names PROVE FileStands(n)' /\ WritersAgree(n)'
  <2>1. WritersOf(n)' = WritersOf(n) /\ \A s \in WritersOf(n) : writer'[s] = writer[s]
    BY <1>1, CommandsAssumption DEF WritersOf, NameOf
  <2> QED BY <2>1, FileUndisturbed DEF proof_vars
<1>3. \A s \in Callers : WriterTells(s)'
  BY <1>1 DEF EvidenceInv, WriterTells, NameOf
<1> QED BY <1>1, <1>2, <1>3, StandsByFile DEF EvidenceInv, proof_vars

(* One that gives up spoils the file that it has begun. *)
LEMMA WriterGivesUp ==
    ASSUME EvidenceInv, NEW r \in Callers,
           writer' = [writer EXCEPT ![r] = Idle],
           overlaid' = GivenUp(r),
           UNCHANGED <<files, proven>>
    PROVE  EvidenceInv'
<1>1. /\ DOMAIN writer' = Callers
      /\ writer'[r] = Idle
      /\ \A s \in Callers \ {r} : writer'[s] = writer[s]
  BY DEF EvidenceInv
<1>2. ASSUME NEW n \in Names PROVE FileStands(n)' /\ WritersAgree(n)'
  <2>1. CASE writer[r].stage = "write" /\ NameOf(r) = n
    BY <2>1, Overlaid DEF GivenUp
  <2>2. CASE ~ (writer[r].stage = "write" /\ NameOf(r) = n)
    <3>1. WritersOf(n)' = WritersOf(n) /\ \A s \in WritersOf(n) : writer'[s] = writer[s]
      BY <1>1, <2>2, CommandsAssumption DEF WritersOf, NameOf, Idle
    <3>2. n \in overlaid => n \in overlaid'
      BY DEF GivenUp
    <3> QED BY <3>1, <3>2, FileUndisturbed
  <2> QED BY <2>1, <2>2
<1>3. \A s \in Callers : WriterTells(s)'
  BY <1>1 DEF EvidenceInv, WriterTells, NameOf
<1> QED BY <1>1, <1>2, <1>3, StandsByFile DEF EvidenceInv

LEMMA OpensKeepsEvidence ==
    ASSUME EvidenceInv, NEW r \in Callers, OpensEvidence(r)
    PROVE  EvidenceInv'
<1>1. PICK m, e :
          /\ m \in Names
          /\ m = NameOf(r)
          /\ writer[r] = [stage |-> "open", evidence |-> e]
          /\ e.rationale \in Rationales
  BY DEF EvidenceInv, WriterTells, OpensEvidence, OpenEvidence, Idle
<1>2. /\ DOMAIN writer' = Callers
      /\ writer'[r] = [stage |-> "write", evidence |-> e]
      /\ \A s \in Callers \ {r} : writer'[s] = writer[s]
  BY <1>1 DEF EvidenceInv, OpensEvidence, OpenEvidence, Goto
<1>3. /\ files' = [files EXCEPT ![m] = Empty]
      /\ proven' = proven
      /\ overlaid' = IF \E s \in WritersOf(m) : writer[s].evidence # e
                     THEN overlaid \cup {m} ELSE overlaid \ {m}
  BY <1>1 DEF OpensEvidence, OpenEvidence
<1>4. NameOf(r)' = m
  BY <1>1, <1>2 DEF NameOf
<1>5. WritersOf(m)' = WritersOf(m) \cup {r}
  BY <1>1, <1>2, <1>4, CommandsAssumption DEF WritersOf, NameOf
<1>6. ASSUME NEW n \in Names PROVE FileStands(n)' /\ WritersAgree(n)'
  <2>1. CASE n # m
    <3>1. WritersOf(n)' = WritersOf(n) /\ \A s \in WritersOf(n) : writer'[s] = writer[s]
      BY <1>1, <1>2, <1>4, <2>1, CommandsAssumption DEF WritersOf, NameOf
    <3>2. n \in overlaid => n \in overlaid'
      BY <1>3, <2>1
    <3>3. files'[n] = files[n] /\ proven'[n] = proven[n]
      BY <1>3, <2>1 DEF EvidenceInv
    <3> QED BY <3>1, <3>2, <3>3, FileUndisturbed
  <2>2. CASE n = m /\ \E s \in WritersOf(m) : writer[s].evidence # e
    BY <1>3, <2>2, Overlaid
  <2>3. CASE n = m /\ \A s \in WritersOf(m) : writer[s].evidence = e
    <3>1. \A s \in WritersOf(m)' : writer'[s].evidence = e
      BY <1>2, <1>5, <2>3, CommandsAssumption DEF WritersOf
    <3>2. files'[m] = Empty
      BY <1>1, <1>3 DEF EvidenceInv
    <3>3. FileStands(n)'
      BY <1>5, <2>3 DEF FileStands
    <3>4. WritersAgree(n)'
      BY <2>3, <3>1, <3>2 DEF WritersAgree
    <3> QED BY <3>3, <3>4
  <2> QED BY <2>1, <2>2, <2>3
<1>7. WriterTells(r)'
  BY <1>1, <1>2, <1>4 DEF WriterTells, Names
<1>8. \A s \in Callers : WriterTells(s)'
  BY <1>2, <1>7 DEF EvidenceInv, WriterTells, NameOf
<1>9. DOMAIN files' = Names /\ DOMAIN proven' = Names
  BY <1>3 DEF EvidenceInv
<1> QED BY <1>2, <1>6, <1>8, <1>9, StandsByFile DEF EvidenceInv

(* Who writes a file that others have written or begun, writes the same. *)
LEMMA SameLength ==
    ASSUME NEW e, e.rationale \in Rationales
    PROVE  ~ Longer(e, e)
<1>1. LengthOf(e.rationale) \in Nat
  BY DEF LengthOf, Rationales
<1> QED BY <1>1 DEF Longer

LEMMA WritesKeepsEvidence ==
    ASSUME EvidenceInv, NEW r \in Callers, WritesEvidence(r)
    PROVE  EvidenceInv'
<1>1. PICK m, e :
          /\ m \in Names
          /\ m = NameOf(r) /\ e = writer[r].evidence
          /\ writer[r].stage = "write"
          /\ e.rationale \in Rationales
          /\ r \in WritersOf(m)
  BY CommandsAssumption
     DEF EvidenceInv, WriterTells, WritesEvidence, WriteEvidence, Idle, WritersOf
<1>2. /\ DOMAIN writer' = Callers
      /\ writer'[r] = Idle
      /\ \A s \in Callers \ {r} : writer'[s] = writer[s]
  BY DEF EvidenceInv, WritesEvidence, WriteEvidence
<1>3. /\ files' = [files EXCEPT ![m] = Overwritten(files[m], e, Longer(files[m].text, e))]
      /\ proven' = [proven EXCEPT ![m] = @ \cup {e}]
      /\ overlaid' = overlaid
  BY <1>1 DEF WritesEvidence, WriteEvidence, EvidenceInv
<1>4. WritersOf(m)' = WritersOf(m) \ {r}
  BY <1>1, <1>2, CommandsAssumption DEF WritersOf, NameOf, Idle
<1>5. ASSUME NEW n \in Names, n # m
      PROVE  WritersOf(n)' = WritersOf(n) /\ \A s \in WritersOf(n) : writer'[s] = writer[s]
  BY <1>1, <1>2, <1>5, CommandsAssumption DEF WritersOf, NameOf, Idle
<1>6. ASSUME m \notin overlaid PROVE files'[m] = Whole(e)
  <2>1. files[m] = Empty \/ files[m] = Whole(e)
    BY <1>1, <1>6 DEF EvidenceInv, WritersAgree
  <2>2. Overwritten(files[m], e, Longer(files[m].text, e)) = Whole(e)
    BY <1>1, <2>1, Distinct, SameLength DEF Overwritten
  <2> QED BY <1>1, <1>3, <2>2 DEF EvidenceInv
<1>7. ASSUME m \notin overlaid
      PROVE  \A s \in WritersOf(m) : writer[s].evidence = e
  BY <1>1, <1>7 DEF EvidenceInv, WritersAgree
<1>8. e \in proven'[m]
  BY <1>1, <1>3 DEF EvidenceInv
<1>9. ASSUME NEW n \in Names PROVE FileStands(n)' /\ WritersAgree(n)'
  <2>1. CASE n # m
    <3>1. files'[n] = files[n] /\ proven'[n] = proven[n]
      BY <1>3, <2>1 DEF EvidenceInv
    <3> QED BY <1>3, <1>5, <2>1, <3>1, FileUndisturbed
  <2>2. CASE n = m /\ m \in overlaid
    BY <1>3, <2>2, Overlaid
  <2>3. CASE n = m /\ m \notin overlaid
    <3>1. FileStands(n)'
      BY <1>6, <1>8, <2>3, Distinct DEF FileStands
    <3>2. \A s \in WritersOf(m)' : s \in WritersOf(m) /\ writer'[s] = writer[s]
      BY <1>2, <1>4, CommandsAssumption DEF WritersOf
    <3>3. WritersAgree(n)'
      BY <1>6, <1>7, <2>3, <3>2 DEF WritersAgree
    <3> QED BY <3>1, <3>3
  <2> QED BY <2>1, <2>2, <2>3
<1>10. \A s \in Callers : WriterTells(s)'
  BY <1>2 DEF EvidenceInv, WriterTells, NameOf
<1>11. DOMAIN files' = Names /\ DOMAIN proven' = Names
  BY <1>3 DEF EvidenceInv
<1> QED BY <1>2, <1>9, <1>10, <1>11, StandsByFile DEF EvidenceInv

LEMMA RemovalKeepsEvidence ==
    ASSUME EvidenceInv, NEW m \in Names, RemoveEvidence(m),
           proven' = [proven EXCEPT ![m] = {}], overlaid' = overlaid \ {m}
    PROVE  EvidenceInv'
<1>1. /\ DOMAIN writer' = Callers
      /\ \A s \in Callers : writer'[s] =
             IF writer[s].stage = "write" /\ NameOf(s) = m
             THEN [writer[s] EXCEPT !.stage = "unlinked"] ELSE writer[s]
  BY DEF RemoveEvidence
<1>2. ASSUME NEW s \in Callers
      PROVE  /\ WriterTells(s)'
             /\ NameOf(s) = m => writer'[s].stage # "write"
             /\ NameOf(s) # m => writer'[s] = writer[s]
             /\ NameOf(s)' = NameOf(s)
  <2>1. CASE writer[s].stage = "write" /\ NameOf(s) = m
    <3>1. writer[s] = [stage |-> "write", evidence |-> writer[s].evidence]
          /\ NameOf(s) \in Names /\ writer[s].evidence.rationale \in Rationales
      BY <2>1 DEF EvidenceInv, WriterTells, Idle
    <3>2. writer'[s] = [stage |-> "unlinked", evidence |-> writer[s].evidence]
      BY <1>1, <2>1, <3>1
    <3>3. NameOf(s)' = NameOf(s)
      BY <3>2 DEF NameOf
    <3> QED BY <2>1, <3>1, <3>2, <3>3 DEF WriterTells, Names
  <2>2. CASE ~ (writer[s].stage = "write" /\ NameOf(s) = m)
    BY <1>1, <2>2 DEF EvidenceInv, WriterTells, NameOf
  <2> QED BY <2>1, <2>2
<1>3. ASSUME NEW n \in Names PROVE FileStands(n)' /\ WritersAgree(n)'
  <2>1. CASE n = m
    <3>1. proven'[m] = {} /\ WritersOf(m)' = {}
      BY <1>2, CommandsAssumption DEF EvidenceInv, WritersOf
    <3> QED BY <2>1, <3>1 DEF FileStands, WritersAgree
  <2>2. CASE n # m
    <3>1. WritersOf(n)' = WritersOf(n) /\ \A s \in WritersOf(n) : writer'[s] = writer[s]
      BY <1>2, <2>2, CommandsAssumption DEF WritersOf
    <3>2. files'[n] = files[n] /\ proven'[n] = proven[n]
          /\ (n \in overlaid => n \in overlaid')
      BY <2>2 DEF EvidenceInv, RemoveEvidence
    <3> QED BY <3>1, <3>2, FileUndisturbed
  <2> QED BY <2>1, <2>2
<1>4. DOMAIN files' = Names /\ DOMAIN proven' = Names
  BY DEF EvidenceInv, RemoveEvidence
<1> QED BY <1>1, <1>2, <1>3, <1>4, StandsByFile DEF EvidenceInv

LEMMA NothingWritten ==
    ASSUME EvidenceInv, UNCHANGED <<files, writer, proof_vars>>
    PROVE  EvidenceInv'
BY DEF EvidenceInv, EvidenceStands, WritersAgree, WritersOf, WriterTells, NameOf,
       proof_vars

(* run_once: what it is about to write is a decision that has a length. *)
LEMMA DecisionTold ==
    ASSUME NEW rules, NEW target, NEW signals, NEW past, NEW now,
           decide(rules, target, signals, past, now).proposed
    PROVE  decide(rules, target, signals, past, now).rationale \in Rationales
BY DEF decide, Decision, Rationales

LEMMA RunOnceKeepsEvidence ==
    ASSUME EvidenceInv, NEW r \in Callers, RunOnce(r)
    PROVE  EvidenceInv'
<1>1. PICK now \in Seconds : BeginRunOnce(r, run_once_config(r), now)
  BY DEF RunOnce
<1> DEFINE rules == run_once_config(r)
<1> DEFINE e == build_pre_action_evidence(rules, TargetOf[r], now)
<1> DEFINE decision == decide(rules, TargetOf[r], default_signal_windows(rules),
                              <<>>, now)
<1> DEFINE next == IF decision.proposed THEN [stage |-> "create_dir", evidence |-> e]
                   ELSE Idle
<1>2. /\ ~ Writing(r)
      /\ writer' = [writer EXCEPT ![r] = next]
      /\ UNCHANGED <<files, proof_vars>>
  BY <1>1 DEF BeginRunOnce, RunOnce
<1>3. writer'[r] = next /\ writer[r].stage # "write" /\ next.stage # "write"
  BY <1>2 DEF EvidenceInv, Writing, Idle
<1>4. WriterTells(r)'
  <2>1. CASE ~ decision.proposed
    BY <1>3, <2>1 DEF WriterTells
  <2>2. CASE decision.proposed
    <3>1. decision.rationale \in Rationales
      BY <2>2, DecisionTold
    <3>2. e.at = now /\ e.target = TargetOf[r] /\ e.rationale = decision.rationale
      BY DEF build_pre_action_evidence
    <3>3. writer'[r] = [stage |-> "create_dir", evidence |-> e]
      BY <1>3, <2>2
    <3> HIDE DEF e, decision, next
    <3>4. NameOf(r)' \in Names
      BY <3>2, <3>3 DEF NameOf, pre_action_file_name, Names
    <3> QED BY <3>1, <3>2, <3>3, <3>4 DEF WriterTells, Names
  <2> QED BY <2>1, <2>2
<1> HIDE DEF next
<1> QED BY <1>2, <1>3, <1>4, WriterElsewhere

(* Which steps of the commands concern the evidence. *)
LEMMA EvidenceStepHolds ==
    ASSUME EvidenceInv, [Next]_vars
    PROVE  EvidenceInv'
<1>1. CASE UNCHANGED vars
  BY <1>1, NothingWritten DEF vars, evidence_vars
<1>2. CASE WorldStep
  <2>1. CASE DesktopChanges \/ OwnerEdits \/ SetupBegins \/ SetupEnds
             \/ AnalyzerExits
    BY <2>1, NothingWritten
       DEF DesktopChanges, OwnerEdits, SetupBegins, SetupEnds, AnalyzerExits,
           evidence_vars
  <2>2. CASE EvidenceRemoved
    <3>1. CASE RemoveDir /\ UNCHANGED proof_vars
      BY <3>1, NothingWritten DEF RemoveDir
    <3>2. ASSUME NEW n \in Names, RemoveEvidence(n),
                 proven' = [proven EXCEPT ![n] = {}], overlaid' = overlaid \ {n}
          PROVE  EvidenceInv'
      BY <3>2, RemovalKeepsEvidence
    <3> QED BY <2>2, <3>1, <3>2 DEF EvidenceRemoved
  <2> QED BY <1>2, <2>1, <2>2 DEF WorldStep
<1>3. ASSUME NEW r \in Callers, CommandStep(r) PROVE EvidenceInv'
  <2>1. CASE (\E command \in DOMAIN Program : Start(r, command)) \/ Exit(r)
    BY <2>1, NothingWritten DEF Start, Exit, evidence_vars
  <2>2. CASE \E p \in Paths : NothingToCapture(r, p) \/ BeginRefresh(r, p)
                              \/ EndRefresh(r, p)
    BY <2>2, NothingWritten
       DEF NothingToCapture, BeginRefresh, EndRefresh, evidence_vars
  <2>3. CASE LoadConfig(r)
    BY <2>3, NothingWritten DEF LoadConfig, evidence_vars
  <2>4. CASE RunOnce(r)
    BY <2>4, RunOnceKeepsEvidence
  <2>5. CASE OpensEvidence(r)
    BY <2>5, OpensKeepsEvidence
  <2>6. CASE WritesEvidence(r)
    BY <2>6, WritesKeepsEvidence
  <2>7. CASE FallsBack(r)
    BY <2>7, WriterGivesUp DEF FallsBack, FallBack
  <2>8. CASE PersistsElsewhere(r)
    <3>1. CASE CreateDir(r)
      <4> DEFINE next == [writer[r] EXCEPT !.stage = "open"]
      <4>1. /\ writer[r] = [stage |-> "create_dir", evidence |-> writer[r].evidence]
            /\ NameOf(r) \in Names
            /\ writer[r].evidence.rationale \in Rationales
        BY <3>1 DEF CreateDir, EvidenceInv, WriterTells, Idle
      <4>2. next = [stage |-> "open", evidence |-> writer[r].evidence]
        BY <4>1
      <4>3. writer' = [writer EXCEPT ![r] = next] /\ writer'[r] = next
        BY <3>1 DEF CreateDir, Goto, EvidenceInv
      <4> HIDE DEF next
      <4>4. NameOf(r)' = NameOf(r)
        BY <4>2, <4>3 DEF NameOf
      <4>5. WriterTells(r)'
        BY <4>1, <4>2, <4>3, <4>4 DEF WriterTells, Names
      <4>6. writer[r].stage # "write" /\ next.stage # "write"
        BY <4>1, <4>2
      <4>7. UNCHANGED <<files, proof_vars>>
        BY <2>8, <3>1 DEF PersistsElsewhere, CreateDir
      <4> QED BY <4>3, <4>5, <4>6, <4>7, WriterElsewhere
    <3>2. CASE WriteUnlinked(r)
      <4>1. writer'[r] = Idle /\ Idle.stage # "write" /\ writer[r].stage # "write"
        BY <3>2 DEF WriteUnlinked, EvidenceInv, Idle
      <4>2. WriterTells(r)'
        BY <4>1 DEF WriterTells
      <4> QED BY <2>8, <3>2, <4>1, <4>2, WriterElsewhere
              DEF PersistsElsewhere, WriteUnlinked
    <3> QED BY <2>8, <3>1, <3>2 DEF PersistsElsewhere
  <2>9. CASE BeginServing(r) \/ BindsSocket(r) \/ FailsToBind(r) \/ DaemonEnds(r)
    BY <2>9, NothingWritten
       DEF BeginServing, BindsSocket, FailsToBind, DaemonEnds, DaemonStep,
           evidence_vars
  <2>10. CASE NotifyTerminated(r) \/ NotifySmoke(r) \/ Notify(r)
    BY <2>10, NothingWritten DEF NotifyTerminated, NotifySmoke, Notify, evidence_vars
  <2>11. CASE GuardLoads(r) \/ GuardInline(r) \/ GuardCollects(r) \/ GuardFails(r)
              \/ GuardDone(r)
    BY <2>11, NothingWritten
       DEF GuardLoads, GuardInline, GuardCollects, GuardFails, GuardDone,
           evidence_vars
  <2>12. CASE \E i \in DOMAIN Samples : GuardEnds(r, i)
    BY <2>12, NothingWritten DEF GuardEnds, evidence_vars
  <2>13. CASE Crash(r)
    BY <2>13, WriterGivesUp DEF Crash
  <2> QED BY <1>3, <2>1, <2>2, <2>3, <2>4, <2>5, <2>6, <2>7, <2>8, <2>9, <2>10,
             <2>11, <2>12, <2>13 DEF CommandStep
<1> QED BY <1>1, <1>2, <1>3, CommandsAssumption DEF Next

LEMMA EvidenceInitHolds == Init => EvidenceInv
<1> SUFFICES ASSUME Init PROVE EvidenceInv
  OBVIOUS
<1>1. \A r \in Callers : writer[r] = Idle
  BY DEF Init, EvidenceInit
<1>2. \A r \in Callers : WriterTells(r)
  BY <1>1 DEF WriterTells
<1>3. \A n \in Names : WritersOf(n) = {}
  BY <1>1, CommandsAssumption DEF WritersOf, Idle
<1>4. \A n \in Names : WritersAgree(n)
  BY <1>3 DEF WritersAgree
<1> QED BY <1>2, <1>4 DEF Init, EvidenceInit, EvidenceInv, EvidenceStands

(* evidence.rs: evidence that was written stays readable until somebody     *)
(* removes it or other evidence replaces it as a whole, except where two    *)
(* writers of one second meet with different decisions, or one gives up.    *)
THEOREM EvidenceStandsHolds == Spec => []EvidenceStands
<1>1. Spec => []EvidenceInv
  BY EvidenceInitHolds, EvidenceStepHolds, PTL DEF Spec
<1>2. EvidenceInv => EvidenceStands
  BY DEF EvidenceInv
<1> QED BY <1>1, <1>2, PTL

-----------------------------------------------------------------------------
(* The two readers of config.toml. *)

(* Induction up to n, for a set of numbers. *)
LEMMA Upto ==
    ASSUME NEW n \in Nat, NEW T \in SUBSET (0 .. n), 0 \in T,
           \A m \in T : m < n => m + 1 \in T
    PROVE  T = 0 .. n
<1> DEFINE Left == (0 .. n) \ T
           Less == OpToRel(<, Nat)
<1> SUFFICES ASSUME Left # {} PROVE FALSE
  OBVIOUS
<1>1. IsWellFoundedOn(Less, Nat)
  BY NatLessThanWellFounded
<1>2. \A x, y \in Nat : y < x => <<y, x>> \in Less
  BY DEF OpToRel
<1> HIDE DEF Less
<1>3. PICK x \in Left : \A y \in Left : ~ (<<y, x>> \in Less)
  <2>1. Left \subseteq Nat
    OBVIOUS
  <2> HIDE DEF Left
  <2> QED BY <1>1, <2>1, WFMin, Zenon
<1>4. x # 0 /\ x - 1 \in 0 .. n /\ <<x - 1, x>> \in Less
  BY <1>2
<1>5. x - 1 \in T
  BY <1>3, <1>4
<1> QED BY <1>4, <1>5

(* What has been read up to a table follows from what was read up to the    *)
(* table before it.                                                         *)
ReadStep(document, f, i) ==
    IF i = 0 THEN Beginning(document)
    ELSE ReadTable(f[i - 1], document.tables[i], document.pretty)

LEMMA ReadingStep ==
    ASSUME NEW document, InOrder(document)
    PROVE  Reading(document) =
               [i \in 0 .. Len(document.tables) |->
                   ReadStep(document, Reading(document), i)]
<1> DEFINE n == Len(document.tables)
           Reads(m, f) == f = [i \in 0 .. m |-> ReadStep(document, f, i)]
           T == {m \in 0 .. n : \E f : Reads(m, f)}
<1>1. n \in Nat
  BY DEF InOrder
<1>2. 0 \in T
  <2>1. Reads(0, [i \in 0 .. 0 |-> Beginning(document)])
    BY DEF ReadStep
  <2> QED BY <1>1, <2>1
<1>3. ASSUME NEW m \in T, m < n PROVE m + 1 \in T
  <2>1. PICK f : Reads(m, f)
    OBVIOUS
  <2> DEFINE g == [i \in 0 .. m + 1 |->
                      IF i = m + 1 THEN ReadStep(document, f, m + 1) ELSE f[i]]
  <2>2. ASSUME NEW i \in 0 .. m + 1 PROVE g[i] = ReadStep(document, g, i)
    <3>1. CASE i = 0
      BY <1>1, <2>1, <3>1 DEF ReadStep
    <3>2. CASE i # 0
      <4>1. i - 1 \in 0 .. m /\ i - 1 # m + 1
        BY <1>1, <3>2
      <4>2. g[i - 1] = f[i - 1]
        BY <1>1, <4>1
      <4>3. g[i] = ReadStep(document, f, i)
        BY <1>1, <2>1
      <4> QED BY <3>2, <4>2, <4>3 DEF ReadStep
    <3> QED BY <3>1, <3>2
  <2>3. Reads(m + 1, g)
    BY <2>2
  <2>4. m + 1 \in 0 .. n
    BY <1>1, <1>3
  <2> QED BY <2>3, <2>4
<1>4. T = 0 .. n
  <2> HIDE DEF T
  <2>1. T \in SUBSET (0 .. n)
    BY DEF T
  <2> QED BY <1>1, <1>2, <1>3, <2>1, Upto
<1>5. \E f : Reads(n, f)
  BY <1>1, <1>4
<1>6. Reading(document) = CHOOSE f : Reads(n, f)
  BY DEF Reading, ReadStep
<1>7. Reads(n, Reading(document))
  <2> HIDE DEF Reads
  <2> QED BY <1>5, <1>6
<1> QED BY <1>7

GuardKeys == DOMAIN default_guard

(* A table that the helper takes for the section of the guard. *)
IsGuardTable(table) == table.name = GuardName /\ ~ table.inline

(* What the helper knows after so many tables of a document that load_config *)
(* accepts: the guard of the last guard table, or the default.              *)
ReadTells(document, read, i) ==
    /\ DOMAIN read = {"ok", "section", "mode", "guard", "retry"}
    /\ read.mode = Beginning(document).mode
    /\ DOMAIN read.guard = GuardKeys
    /\ read.ok =>
          \/ \E j \in 1 .. i :
                /\ IsGuardTable(document.tables[j])
                /\ \A key \in GuardKeys :
                      read.guard[key] = document.tables[j].entries[key]
          \/ /\ read.guard = default_guard
             /\ \A j \in 1 .. i : ~ IsGuardTable(document.tables[j])

LEMMA ReadTableTells ==
    ASSUME NEW document, NEW read, NEW i \in Nat, ReadTells(document, read, i),
           complete(document.tables[i + 1])
    PROVE  ReadTells(document,
                     ReadTable(read, document.tables[i + 1], document.pretty),
                     i + 1)
<1> DEFINE table == document.tables[i + 1]
           next  == ReadTable(read, table, document.pretty)
<1> SUFFICES ReadTells(document, next, i + 1)
  OBVIOUS
<1>1. CASE ~ read.ok
  BY <1>1 DEF ReadTable, ReadTells
<1>2. CASE read.ok /\ table.inline
  <2>1. next = read /\ ~ IsGuardTable(table)
    BY <1>2 DEF ReadTable, IsGuardTable
  <2>2. \A j \in 1 .. i + 1 : j \in 1 .. i \/ j = i + 1
    OBVIOUS
  <2> QED BY <1>2, <2>1, <2>2 DEF ReadTells
<1>3. CASE read.ok /\ ~ table.inline
  <2> DEFINE at == Section(read, table.name)
  <2>1. next = Entries(at, table.entries, document.pretty)
    BY <1>3 DEF ReadTable
  <2>2. /\ DOMAIN at = DOMAIN read
        /\ at.guard = read.guard
        /\ at.mode = read.mode
        /\ at.section = GuardName <=> table.name = GuardName
    BY DEF Section, GuardName, ReadTells
  <2> HIDE DEF at
  <2>3. /\ DOMAIN next = DOMAIN read
        /\ next.mode = read.mode
        /\ next.guard = IF at.section = GuardName
                        THEN [key \in DOMAIN at.guard |->
                                 IF key \in DOMAIN table.entries
                                 THEN table.entries[key] ELSE at.guard[key]]
                        ELSE at.guard
    BY <2>1, <2>2 DEF Entries, ReadTells
  <2>4. CASE table.name = GuardName
    <3>1. GuardKeys \subseteq DOMAIN table.entries
      BY <2>4 DEF complete, KeysOf, GuardName, GuardKeys, default_guard
    <3>2. /\ DOMAIN next.guard = GuardKeys
          /\ \A key \in GuardKeys : next.guard[key] = table.entries[key]
      BY <2>2, <2>3, <2>4, <3>1 DEF ReadTells
    <3>3. IsGuardTable(document.tables[i + 1])
      BY <1>3, <2>4 DEF IsGuardTable
    <3>4. i + 1 \in 1 .. i + 1
      OBVIOUS
    <3> HIDE DEF next
    <3> QED BY <2>3, <3>2, <3>3, <3>4 DEF ReadTells
  <2>5. CASE table.name # GuardName
    <3>1. next.guard = read.guard /\ ~ IsGuardTable(document.tables[i + 1])
      BY <2>2, <2>3, <2>5 DEF IsGuardTable
    <3>2. \A j \in 1 .. i + 1 : j \in 1 .. i \/ j = i + 1
      OBVIOUS
    <3> HIDE DEF next
    <3> QED BY <1>3, <2>3, <3>1, <3>2 DEF ReadTells
  <2> QED BY <2>4, <2>5
<1> QED BY <1>1, <1>2, <1>3

LEMMA ReadingTells ==
    ASSUME NEW document, InOrder(document),
           \A i \in DOMAIN document.tables : complete(document.tables[i])
    PROVE  \A i \in 0 .. Len(document.tables) :
               ReadTells(document, Reading(document)[i], i)
<1> DEFINE n == Len(document.tables)
           read == Reading(document)
           T == {i \in 0 .. n : ReadTells(document, read[i], i)}
<1>1. n \in Nat
  BY DEF InOrder
<1>2. \A i \in 0 .. n : read[i] = ReadStep(document, read, i)
  BY ReadingStep
<1>3. 0 \in T
  <2>1. read[0] = Beginning(document)
    BY <1>1, <1>2 DEF ReadStep
  <2>2. ReadTells(document, Beginning(document), 0)
    BY DEF ReadTells, Beginning, GuardKeys
  <2> QED BY <1>1, <2>1, <2>2
<1>4. ASSUME NEW i \in T, i < n PROVE i + 1 \in T
  <2>1. i \in Nat /\ i + 1 \in 1 .. n /\ i + 1 \in 0 .. n
    BY <1>1, <1>4
  <2>2. read[i + 1] = ReadTable(read[i], document.tables[i + 1], document.pretty)
    BY <1>2, <2>1 DEF ReadStep
  <2>3. complete(document.tables[i + 1])
    BY <2>1 DEF InOrder
  <2> QED BY <2>1, <2>2, <2>3, ReadTableTells
<1>5. T = 0 .. n
  <2> HIDE DEF T
  <2>1. T \in SUBSET (0 .. n)
    BY DEF T
  <2> QED BY <1>1, <1>3, <1>4, <2>1, Upto
<1> QED BY <1>5

(* The helper means what load_config means: the same mode, and the same     *)
(* guard, or the default one where no table is a section to it.             *)
HelperAgrees(helper, loaded) ==
    /\ helper.mode = loaded.mode
    /\ \/ \A key \in GuardKeys : helper.guard[key] = loaded.guard[key]
       \/ helper.guard = default_guard

(* parse_ra_guard_config: of a document that both readers accept they read  *)
(* the same, whatever tables stand in it and in whatever order.             *)
THEOREM ReadersAgree ==
    ASSUME NEW document, InOrder(document),
           load_config(document).ok, parse_ra_guard_config(document).ok
    PROVE  /\ HelperAgrees(parse_ra_guard_config(document), load_config(document))
           /\ (\A i \in DOMAIN document.tables : ~ document.tables[i].inline) =>
                 \A key \in GuardKeys :
                     parse_ra_guard_config(document).guard[key]
                         = load_config(document).guard[key]
<1> DEFINE n == Len(document.tables)
           read == Reading(document)[n]
           helper == parse_ra_guard_config(document)
           loaded == load_config(document)
<1>1. /\ document.state = "whole"
      /\ document.mode \in {"none", "observe", "enforce"}
      /\ unique(document)
      /\ \A i \in DOMAIN document.tables : complete(document.tables[i])
  BY DEF load_config, Refused
<1>2. /\ loaded.mode = Beginning(document).mode
      /\ loaded.guard = IF Named(document, GuardName) = {} THEN default_guard
                        ELSE EntriesOf(document, GuardName)
  BY <1>1 DEF load_config, Settings, Beginning
<1>3. /\ read.ok
      /\ helper.mode = read.mode
      /\ helper.guard = read.guard
  BY DEF parse_ra_guard_config, Settings, Refused
<1>4. n \in Nat /\ DOMAIN document.tables = 1 .. n
  BY DEF InOrder
<1>5. ReadTells(document, read, n)
  BY <1>1, <1>4, ReadingTells
<1>6. CASE \E j \in 1 .. n :
              /\ IsGuardTable(document.tables[j])
              /\ \A key \in GuardKeys :
                    read.guard[key] = document.tables[j].entries[key]
  <2>1. PICK j \in 1 .. n :
              /\ IsGuardTable(document.tables[j])
              /\ \A key \in GuardKeys :
                    read.guard[key] = document.tables[j].entries[key]
    BY <1>6
  <2>2. Named(document, GuardName) = {j}
    BY <1>1, <1>4, <2>1 DEF Named, unique, IsGuardTable
  <2>3. EntriesOf(document, GuardName) = document.tables[j].entries
    BY <2>2 DEF EntriesOf
  <2> QED BY <1>2, <1>3, <1>5, <2>1, <2>2, <2>3 DEF HelperAgrees, ReadTells
<1>7. CASE /\ read.guard = default_guard
           /\ \A j \in 1 .. n : ~ IsGuardTable(document.tables[j])
  <2>1. HelperAgrees(helper, loaded)
    BY <1>2, <1>3, <1>5, <1>7 DEF HelperAgrees, ReadTells
  <2>2. ASSUME \A i \in DOMAIN document.tables : ~ document.tables[i].inline
        PROVE  Named(document, GuardName) = {}
    BY <1>4, <1>7, <2>2 DEF Named, IsGuardTable
  <2> QED BY <1>2, <1>3, <1>7, <2>1, <2>2
<1> QED BY <1>3, <1>5, <1>6, <1>7 DEF ReadTells

-----------------------------------------------------------------------------
(* Why the one-shot guard ends what is meant: what it has loaded and chosen. *)

(* Whom the guard would end with its settings, it would with what is meant. *)
SettingsTell(r) ==
    settings[r].ok /\ meant[r].ok =>
        /\ settings[r].mode = meant[r].mode
        /\ one_shot_candidates(settings[r].guard, Samples)
               \subseteq one_shot_candidates(meant[r].guard, Samples)

VictimsTell(r) ==
    \A i \in victims[r] :
        meant[r].ok => /\ meant[r].mode = "enforce"
                       /\ i \in one_shot_candidates(meant[r].guard, Samples)

(* A command loads before it collects, collects once, and has no victims    *)
(* before that.                                                             *)
Preparing == {"load", "guard", "collect"}

Tasks ==
    {"refresh", "load", "refresh_configured", "run_once", "daemon", "notify",
     "guard", "collect", "end", "enforce", "exit"}

TodoTells(r) ==
    /\ todo[r] \in Seq(Tasks)
    /\ todo[r] # <<>> => todo[r][Len(todo[r])] = "exit"
    /\ todo[r] = <<>> => victims[r] = {}
    /\ \A i \in 1 .. Len(todo[r]) :
          /\ todo[r][i] \in Preparing => victims[r] = {}
          /\ todo[r][i] = "collect" =>
                /\ \/ settings[r].ok
                   \/ \E j \in 1 .. i - 1 : todo[r][j] \in {"load", "guard"}
                /\ \A j \in i + 1 .. Len(todo[r]) : todo[r][j] \notin Preparing

GuardInv ==
    /\ InOrder(config) /\ InOrder(installing)
    /\ DOMAIN todo = Runners /\ DOMAIN settings = Runners
    /\ DOMAIN victims = Runners /\ DOMAIN meant = Runners
    /\ \A r \in Runners : TodoTells(r) /\ SettingsTell(r) /\ VictimsTell(r)
    /\ OneShotMeant

(* Whom a guard chooses depends on its six settings alone. *)
LEMMA SameCandidates ==
    ASSUME NEW g, NEW h, \A key \in GuardKeys : g[key] = h[key]
    PROVE  one_shot_candidates(g, Samples) = one_shot_candidates(h, Samples)
<1>1. /\ g.enabled = h.enabled
      /\ g.startup_grace_secs = h.startup_grace_secs
      /\ g.same_uid_only = h.same_uid_only
      /\ g.max_rss_bytes = h.max_rss_bytes
      /\ g.required_consecutive_samples = h.required_consecutive_samples
  BY DEF GuardKeys, default_guard
<1>2. ASSUME NEW sample
      PROVE  /\ sample_matches_guard(g, sample) = sample_matches_guard(h, sample)
             /\ consecutive_over_limit_samples(g, sample)
                    = consecutive_over_limit_samples(h, sample)
  BY <1>1, Zenon DEF sample_matches_guard, consecutive_over_limit_samples
<1> QED BY <1>1, <1>2, Zenon DEF one_shot_candidates

(* By default a guard wants three samples, and a one-shot guard takes one. *)
LEMMA DefaultEndsNobody == one_shot_candidates(default_guard, Samples) = {}
BY DEF one_shot_candidates, consecutive_over_limit_samples, default_guard

LEMMA HelperChoosesFewer ==
    ASSUME NEW helper, NEW loaded, HelperAgrees(helper, loaded)
    PROVE  one_shot_candidates(helper.guard, Samples)
               \subseteq one_shot_candidates(loaded.guard, Samples)
BY SameCandidates, DefaultEndsNobody DEF HelperAgrees

(* A command that proceeds leaves its first task behind. *)
LEMMA Proceeding ==
    ASSUME NEW s \in Seq(Tasks), s # <<>>, s[Len(s)] = "exit", Head(s) # "exit"
    PROVE  /\ Tail(s) \in Seq(Tasks)
           /\ Tail(s) # <<>>
           /\ Len(Tail(s)) = Len(s) - 1
           /\ Tail(s)[Len(Tail(s))] = "exit"
           /\ \A i \in 1 .. Len(Tail(s)) : Tail(s)[i] = s[i + 1]
<1>1. Len(s) \in Nat /\ Len(s) > 0 /\ Head(s) = s[1]
  OBVIOUS
<1>2. Len(s) > 1
  BY <1>1
<1>3. /\ Tail(s) \in Seq(Tasks)
      /\ Len(Tail(s)) = Len(s) - 1
      /\ \A i \in 1 .. Len(Tail(s)) : Tail(s)[i] = s[i + 1]
  BY <1>1
<1> QED BY <1>2, <1>3

LEMMA NotEmpty ==
    ASSUME NEW s, Len(s) # 0
    PROVE  s # <<>>
OBVIOUS

LEMMA ProgramTells ==
    ASSUME NEW command \in DOMAIN Program
    PROVE  LET s == Program[command] IN
           /\ s \in Seq(Tasks)
           /\ s # <<>>
           /\ s[Len(s)] = "exit"
           /\ \A i \in 1 .. Len(s) : s[i] = "collect" =>
                 /\ \E j \in 1 .. i - 1 : s[j] \in {"load", "guard"}
                 /\ \A j \in i + 1 .. Len(s) : s[j] \notin Preparing
<1> DEFINE Tells(s) ==
             /\ s \in Seq(Tasks)
             /\ s # <<>>
             /\ s[Len(s)] = "exit"
             /\ \A i \in 1 .. Len(s) : s[i] = "collect" =>
                   /\ \E j \in 1 .. i - 1 : s[j] \in {"load", "guard"}
                   /\ \A j \in i + 1 .. Len(s) : s[j] \notin Preparing
<1> SUFFICES Tells(Program[command])
  OBVIOUS
<1>1. Tells(<<"refresh", "load", "refresh_configured", "exit">>)
  <2> DEFINE s == <<"refresh", "load", "refresh_configured", "exit">>
  <2>1. s \in Seq(Tasks) /\ Len(s) = 4
    BY DEF Tasks
  <2>2. /\ s[1] = "refresh"
        /\ s[2] = "load"
        /\ s[3] = "refresh_configured"
        /\ s[4] = "exit"
    OBVIOUS
  <2> HIDE DEF s
  <2>3. \A i \in 1 .. 4 : s[i] # "collect"
    BY <2>2
  <2>4. s # <<>>
    BY <2>1, NotEmpty
  <2>5. s[Len(s)] = "exit"
    BY <2>1, <2>2
  <2>6. Tells(s)
    BY <2>1, <2>3, <2>4, <2>5
  <2> QED BY <2>6 DEF s
<1>2. Tells(<<"refresh", "load", "refresh_configured", "run_once", "exit">>)
  <2> DEFINE s == <<"refresh", "load", "refresh_configured", "run_once",
                    "exit">>
  <2>1. s \in Seq(Tasks) /\ Len(s) = 5
    BY DEF Tasks
  <2>2. /\ s[1] = "refresh"
        /\ s[2] = "load"
        /\ s[3] = "refresh_configured"
        /\ s[4] = "run_once"
        /\ s[5] = "exit"
    OBVIOUS
  <2> HIDE DEF s
  <2>3. \A i \in 1 .. 5 : s[i] # "collect"
    BY <2>2
  <2>4. s # <<>>
    BY <2>1, NotEmpty
  <2>5. s[Len(s)] = "exit"
    BY <2>1, <2>2
  <2>6. Tells(s)
    BY <2>1, <2>3, <2>4, <2>5
  <2> QED BY <2>6 DEF s
<1>3. Tells(<<"refresh", "load", "refresh_configured", "daemon", "exit">>)
  <2> DEFINE s == <<"refresh", "load", "refresh_configured", "daemon", "exit">>
  <2>1. s \in Seq(Tasks) /\ Len(s) = 5
    BY DEF Tasks
  <2>2. /\ s[1] = "refresh"
        /\ s[2] = "load"
        /\ s[3] = "refresh_configured"
        /\ s[4] = "daemon"
        /\ s[5] = "exit"
    OBVIOUS
  <2> HIDE DEF s
  <2>3. \A i \in 1 .. 5 : s[i] # "collect"
    BY <2>2
  <2>4. s # <<>>
    BY <2>1, NotEmpty
  <2>5. s[Len(s)] = "exit"
    BY <2>1, <2>2
  <2>6. Tells(s)
    BY <2>1, <2>3, <2>4, <2>5
  <2> QED BY <2>6 DEF s
<1>4. Tells(<<"refresh", "refresh", "notify", "exit">>)
  <2> DEFINE s == <<"refresh", "refresh", "notify", "exit">>
  <2>1. s \in Seq(Tasks) /\ Len(s) = 4
    BY DEF Tasks
  <2>2. /\ s[1] = "refresh"
        /\ s[2] = "refresh"
        /\ s[3] = "notify"
        /\ s[4] = "exit"
    OBVIOUS
  <2> HIDE DEF s
  <2>3. \A i \in 1 .. 4 : s[i] # "collect"
    BY <2>2
  <2>4. s # <<>>
    BY <2>1, NotEmpty
  <2>5. s[Len(s)] = "exit"
    BY <2>1, <2>2
  <2>6. Tells(s)
    BY <2>1, <2>3, <2>4, <2>5
  <2> QED BY <2>6 DEF s
<1>5. Tells(<<"refresh", "exit">>)
  <2> DEFINE s == <<"refresh", "exit">>
  <2>1. s \in Seq(Tasks) /\ Len(s) = 2
    BY DEF Tasks
  <2>2. /\ s[1] = "refresh"
        /\ s[2] = "exit"
    OBVIOUS
  <2> HIDE DEF s
  <2>3. \A i \in 1 .. 2 : s[i] # "collect"
    BY <2>2
  <2>4. s # <<>>
    BY <2>1, NotEmpty
  <2>5. s[Len(s)] = "exit"
    BY <2>1, <2>2
  <2>6. Tells(s)
    BY <2>1, <2>3, <2>4, <2>5
  <2> QED BY <2>6 DEF s
<1>6. Tells(<<"guard", "collect", "end", "exit">>)
  <2> DEFINE s == <<"guard", "collect", "end", "exit">>
  <2>1. s \in Seq(Tasks) /\ Len(s) = 4
    BY DEF Tasks
  <2>2. /\ s[1] = "guard"
        /\ s[2] = "collect"
        /\ s[3] = "end"
        /\ s[4] = "exit"
    OBVIOUS
  <2> HIDE DEF s
  <2>3. \A i \in 1 .. 4 : s[i] = "collect" => i = 2
    BY <2>2
  <2>4. \A j \in 3 .. 4 : s[j] \notin Preparing
    BY <2>2 DEF Preparing
  <2>5. \E j \in 1 .. 1 : s[j] \in {"load", "guard"}
    BY <2>2
  <2>6. s # <<>>
    BY <2>1, NotEmpty
  <2>7. s[Len(s)] = "exit"
    BY <2>1, <2>2
  <2>8. Tells(s)
    BY <2>1, <2>3, <2>4, <2>5, <2>6, <2>7
  <2> QED BY <2>8 DEF s
<1>7. Tells(<<"refresh", "load", "refresh_configured", "collect", "enforce",
              "exit">>)
  <2> DEFINE s == <<"refresh", "load", "refresh_configured", "collect", "enforce",
                    "exit">>
  <2>1. s \in Seq(Tasks) /\ Len(s) = 6
    BY DEF Tasks
  <2>2. /\ s[1] = "refresh"
        /\ s[2] = "load"
        /\ s[3] = "refresh_configured"
        /\ s[4] = "collect"
        /\ s[5] = "enforce"
        /\ s[6] = "exit"
    OBVIOUS
  <2> HIDE DEF s
  <2>3. \A i \in 1 .. 6 : s[i] = "collect" => i = 4
    BY <2>2
  <2>4. \A j \in 5 .. 6 : s[j] \notin Preparing
    BY <2>2 DEF Preparing
  <2>5. \E j \in 1 .. 3 : s[j] \in {"load", "guard"}
    BY <2>2
  <2>6. s # <<>>
    BY <2>1, NotEmpty
  <2>7. s[Len(s)] = "exit"
    BY <2>1, <2>2
  <2>8. Tells(s)
    BY <2>1, <2>3, <2>4, <2>5, <2>6, <2>7
  <2> QED BY <2>8 DEF s
<1> HIDE DEF Tells
<1> QED BY <1>1, <1>2, <1>3, <1>4, <1>5, <1>6, <1>7 DEF Program

(* A step that concerns one command leaves what the others hold. *)
LEMMA OthersTell ==
    ASSUME GuardInv, NEW r \in Runners,
           DOMAIN todo' = Runners, DOMAIN settings' = Runners,
           DOMAIN victims' = Runners, DOMAIN meant' = Runners,
           \A q \in Runners \ {r} :
               /\ todo'[q] = todo[q] /\ settings'[q] = settings[q]
               /\ victims'[q] = victims[q] /\ meant'[q] = meant[q],
           TodoTells(r)', SettingsTell(r)', VictimsTell(r)',
           UNCHANGED <<config, installing>>, OneShotMeant'
    PROVE  GuardInv'
<1>1. ASSUME NEW q \in Runners, q # r
      PROVE  TodoTells(q)' /\ SettingsTell(q)' /\ VictimsTell(q)'
  <2>1. /\ todo'[q] = todo[q] /\ settings'[q] = settings[q]
        /\ victims'[q] = victims[q] /\ meant'[q] = meant[q]
    BY <1>1
  <2>2. TodoTells(q) /\ SettingsTell(q) /\ VictimsTell(q)
    BY DEF GuardInv
  <2> QED BY <2>1, <2>2 DEF TodoTells, SettingsTell, VictimsTell
<1> QED BY <1>1 DEF GuardInv, InOrder

LEMMA ProceedTells ==
    ASSUME GuardInv, NEW r \in Runners, Proceed(r),
           todo[r] # <<>>, Head(todo[r]) # "exit",
           Head(todo[r]) \in {"load", "guard"} => settings'[r].ok,
           Head(todo[r]) \notin {"load", "guard"} => settings'[r] = settings[r],
           Head(todo[r]) # "collect" => victims'[r] \subseteq victims[r]
    PROVE  TodoTells(r)'
<1> DEFINE s == todo[r]
           t == todo'[r]
<1>1. /\ TodoTells(r)
      /\ s \in Seq(Tasks) /\ s[Len(s)] = "exit"
  BY DEF GuardInv, TodoTells
<1>2. t = Tail(s)
  BY DEF GuardInv, Proceed
<1>3. /\ t \in Seq(Tasks) /\ t # <<>>
      /\ Len(t) = Len(s) - 1
      /\ t[Len(t)] = "exit"
      /\ \A i \in 1 .. Len(t) : t[i] = s[i + 1]
  <2>1. ASSUME NEW q \in Seq(Tasks), q # <<>>, q[Len(q)] = "exit",
               Head(q) # "exit"
        PROVE  /\ Tail(q) \in Seq(Tasks) /\ Tail(q) # <<>>
               /\ Len(Tail(q)) = Len(q) - 1
               /\ Tail(q)[Len(Tail(q))] = "exit"
               /\ \A i \in 1 .. Len(Tail(q)) : Tail(q)[i] = q[i + 1]
    BY <2>1, Proceeding
  <2> QED BY <1>1, <1>2, <2>1
<1>4. Len(s) \in Nat /\ Len(t) \in Nat /\ s[1] = Head(s)
  BY <1>1, <1>3
<1>5. ASSUME NEW i \in 1 .. Len(t)
      PROVE  /\ t[i] \in Preparing => victims'[r] = {}
             /\ t[i] = "collect" =>
                   /\ \/ settings'[r].ok
                      \/ \E j \in 1 .. i - 1 : t[j] \in {"load", "guard"}
                   /\ \A j \in i + 1 .. Len(t) : t[j] \notin Preparing
  <2>1. t[i] = s[i + 1] /\ i + 1 \in 1 .. Len(s)
    BY <1>3, <1>4
  <2>2. CASE Head(s) = "collect"
    <3>1. 1 \in 1 .. Len(s) /\ s[1] = "collect"
      BY <1>3, <1>4, <2>2
    <3>2. s[i + 1] \notin Preparing
      BY <1>1, <1>3, <1>4, <3>1 DEF TodoTells
    <3> QED BY <2>1, <3>2 DEF Preparing
  <2>3. CASE Head(s) # "collect"
    <3>1. t[i] \in Preparing => victims'[r] = {}
      BY <1>1, <2>1, <2>3 DEF TodoTells
    <3>2. ASSUME t[i] = "collect"
          PROVE  \/ settings'[r].ok
                 \/ \E j \in 1 .. i - 1 : t[j] \in {"load", "guard"}
      <4>1. CASE Head(s) \in {"load", "guard"}
        BY <4>1
      <4>2. CASE Head(s) \notin {"load", "guard"} /\ settings[r].ok
        BY <4>2
      <4>3. CASE Head(s) \notin {"load", "guard"} /\ ~ settings[r].ok
        <5>1. PICK j \in 1 .. (i + 1) - 1 : s[j] \in {"load", "guard"}
          BY <1>1, <2>1, <3>2, <4>3 DEF TodoTells
        <5>2. j # 1
          BY <1>4, <4>3, <5>1
        <5>3. j - 1 \in 1 .. i - 1 /\ j - 1 \in 1 .. Len(t)
          BY <1>4, <5>2
        <5>4. t[j - 1] = s[j]
          BY <1>3, <5>3
        <5> QED BY <5>1, <5>3, <5>4
      <4> QED BY <4>1, <4>2, <4>3
    <3>3. ASSUME t[i] = "collect", NEW j \in i + 1 .. Len(t)
          PROVE  t[j] \notin Preparing
      <4>1. t[j] = s[j + 1] /\ j + 1 \in (i + 1) + 1 .. Len(s)
        BY <1>3, <1>4
      <4> QED BY <1>1, <2>1, <3>3, <4>1 DEF TodoTells
    <3> QED BY <3>1, <3>2, <3>3
  <2> QED BY <2>2, <2>3
<1> QED BY <1>3, <1>5 DEF TodoTells

LEMMA AbortTells ==
    ASSUME GuardInv, NEW r \in Runners, Abort(r)
    PROVE  TodoTells(r)'
<1>1. todo'[r] = <<"exit">>
  BY DEF GuardInv, Abort
<1> DEFINE s == <<"exit">>
<1>2. /\ s \in Seq(Tasks) /\ Len(s) = 1 /\ s[1] = "exit"
  BY DEF Tasks
<1>3. s # <<>>
  BY <1>2, NotEmpty
<1> HIDE DEF s
<1>4. \A i \in 1 .. Len(s) : s[i] \notin Preparing
  BY <1>2 DEF Preparing
<1>5. todo'[r] = s
  BY <1>1 DEF s
<1> QED BY <1>2, <1>3, <1>4, <1>5 DEF TodoTells, Preparing

(* The steps that leave alone what concerns the guard. *)
LEMMA PlainKeeps ==
    ASSUME GuardInv, NEW r \in Runners,
           UNCHANGED <<settings, victims, meant, ended, config, installing>>,
           \/ UNCHANGED todo
           \/ Abort(r)
           \/ /\ Proceed(r) /\ todo[r] # <<>>
              /\ Head(todo[r]) \notin Preparing \cup {"exit"}
    PROVE  GuardInv'
<1>1. TodoTells(r)'
  <2>1. CASE UNCHANGED todo
    BY <2>1 DEF GuardInv, TodoTells
  <2>2. CASE Abort(r)
    BY <2>2, AbortTells
  <2>3. CASE /\ Proceed(r) /\ todo[r] # <<>>
             /\ Head(todo[r]) \notin Preparing \cup {"exit"}
    BY <2>3, ProceedTells DEF Preparing
  <2> QED BY <2>1, <2>2, <2>3
<1>2. SettingsTell(r)' /\ VictimsTell(r)' /\ OneShotMeant'
  BY DEF GuardInv, SettingsTell, VictimsTell, OneShotMeant
<1>3. DOMAIN todo' = Runners /\ \A q \in Runners \ {r} : todo'[q] = todo[q]
  BY DEF GuardInv, Abort, Proceed
<1> QED BY <1>1, <1>2, <1>3, OthersTell DEF GuardInv

(* A command that loads its configuration as another reader would. *)
LEMMA LoadingKeeps ==
    ASSUME GuardInv, NEW r \in Runners, NEW loaded, NEW intended,
           todo[r] # <<>>, Head(todo[r]) \in {"load", "guard"},
           settings' = [settings EXCEPT ![r] = loaded],
           meant' = [meant EXCEPT ![r] = intended],
           loaded.ok /\ intended.ok =>
               \/ loaded = intended
               \/ HelperAgrees(loaded, intended),
           UNCHANGED <<victims, ended, config, installing>>,
           \/ Abort(r)
           \/ loaded.ok /\ Proceed(r)
           \/ /\ loaded.ok
              /\ todo' = [todo EXCEPT ![r] = <<"collect", "enforce", "exit">>]
    PROVE  GuardInv'
<1>1. settings'[r] = loaded /\ meant'[r] = intended
  BY DEF GuardInv
<1>2. victims[r] = {}
  <2>1. todo[r] \in Seq(Tasks) /\ 1 \in 1 .. Len(todo[r])
        /\ todo[r][1] = Head(todo[r])
    BY DEF GuardInv, TodoTells
  <2> QED BY <2>1 DEF GuardInv, TodoTells, Preparing
<1>3. TodoTells(r)'
  <2>1. CASE Abort(r)
    BY <2>1, AbortTells
  <2>2. CASE loaded.ok /\ Proceed(r)
    BY <1>1, <1>2, <2>2, ProceedTells
  <2>3. CASE /\ loaded.ok
             /\ todo' = [todo EXCEPT ![r] = <<"collect", "enforce", "exit">>]
    <3> DEFINE s == <<"collect", "enforce", "exit">>
    <3>1. todo'[r] = s
      BY <2>3 DEF GuardInv
    <3>2. /\ s \in Seq(Tasks) /\ Len(s) = 3
      BY DEF Tasks
    <3>3. s[1] = "collect" /\ s[2] = "enforce" /\ s[3] = "exit"
      OBVIOUS
    <3> HIDE DEF s
    <3>4. s # <<>>
      <4>1. Len(s) # 0
        BY <3>2
      <4> QED BY <4>1, NotEmpty, Zenon
    <3>5. s[Len(s)] = "exit"
      BY <3>2, <3>3
    <3>6. \A j \in 1 + 1 .. Len(s) : s[j] \notin Preparing
      BY <3>2, <3>3 DEF Preparing
    <3>7. \A i \in 1 .. Len(s) : s[i] = "collect" => i = 1
      BY <3>2, <3>3
    <3> QED BY <1>1, <1>2, <2>3, <3>1, <3>2, <3>4, <3>5, <3>6, <3>7
            DEF TodoTells
  <2> QED BY <2>1, <2>2, <2>3
<1>4. SettingsTell(r)'
  BY <1>1, HelperChoosesFewer DEF SettingsTell, HelperAgrees
<1>5. VictimsTell(r)' /\ OneShotMeant'
  BY <1>2 DEF VictimsTell, OneShotMeant, GuardInv
<1>6. /\ DOMAIN todo' = Runners /\ DOMAIN settings' = Runners
      /\ DOMAIN victims' = Runners /\ DOMAIN meant' = Runners
      /\ \A q \in Runners \ {r} :
            /\ todo'[q] = todo[q] /\ settings'[q] = settings[q]
            /\ victims'[q] = victims[q] /\ meant'[q] = meant[q]
  BY DEF GuardInv, Abort, Proceed
<1> QED BY <1>3, <1>4, <1>5, <1>6, OthersTell

LEMMA CollectsKeeps ==
    ASSUME GuardInv, NEW r \in Runners, GuardCollects(r)
    PROVE  GuardInv'
<1>1. todo[r] # <<>> /\ Head(todo[r]) = "collect" /\ Proceed(r)
  BY DEF GuardCollects, Doing
<1>2. UNCHANGED <<settings, meant, ended, config, installing>>
  BY DEF GuardCollects, config_vars, machine_vars
<1>3. settings[r].ok
  <2>1. todo[r] \in Seq(Tasks) /\ 1 \in 1 .. Len(todo[r])
        /\ todo[r][1] = "collect"
    BY <1>1 DEF GuardInv, TodoTells
  <2> QED BY <2>1 DEF GuardInv, TodoTells
<1>4. TodoTells(r)'
  BY <1>1, <1>2, ProceedTells
<1>5. SettingsTell(r)' /\ OneShotMeant'
  BY <1>2 DEF GuardInv, SettingsTell, OneShotMeant
<1>6. VictimsTell(r)'
  <2>1. victims'[r] = IF settings[r].mode = "enforce"
                      THEN running \cap one_shot_candidates(settings[r].guard,
                                                            Samples)
                      ELSE {}
    BY DEF GuardCollects, GuardInv
  <2>2. SettingsTell(r)
    BY DEF GuardInv
  <2> QED BY <1>2, <1>3, <2>1, <2>2 DEF SettingsTell, VictimsTell
<1>7. /\ DOMAIN todo' = Runners /\ DOMAIN victims' = Runners
      /\ \A q \in Runners \ {r} : todo'[q] = todo[q] /\ victims'[q] = victims[q]
  BY <1>1 DEF GuardInv, GuardCollects, Proceed
<1>8. /\ DOMAIN settings' = Runners /\ DOMAIN meant' = Runners
      /\ \A q \in Runners \ {r} : settings'[q] = settings[q] /\ meant'[q] = meant[q]
  BY <1>2 DEF GuardInv
<1> QED BY <1>2, <1>4, <1>5, <1>6, <1>7, <1>8, OthersTell

LEMMA EndsKeeps ==
    ASSUME GuardInv, NEW r \in Runners, NEW i \in DOMAIN Samples, GuardEnds(r, i)
    PROVE  GuardInv'
<1>1. /\ i \in victims[r]
      /\ victims'[r] = victims[r] \ {i}
      /\ UNCHANGED <<todo, settings, meant, config, installing>>
  BY DEF GuardInv, GuardEnds, config_vars
<1>2. TodoTells(r)'
  BY <1>1 DEF GuardInv, TodoTells
<1>3. SettingsTell(r)' /\ VictimsTell(r)'
  BY <1>1 DEF GuardInv, SettingsTell, VictimsTell
<1>4. OneShotMeant'
  <2>1. ended' \subseteq ended \cup {[who |-> i, meant |-> meant[r]]}
    BY DEF GuardEnds, machine_vars
  <2>2. VictimsTell(r) /\ OneShotMeant
    BY DEF GuardInv
  <2>3. ASSUME NEW e \in ended', e.meant.ok
        PROVE  /\ e.meant.mode = "enforce"
               /\ e.who \in one_shot_candidates(e.meant.guard, Samples)
    <3>1. CASE e \in ended
      BY <2>2, <2>3, <3>1 DEF OneShotMeant
    <3>2. CASE e = [who |-> i, meant |-> meant[r]]
      BY <1>1, <2>2, <2>3, <3>2 DEF VictimsTell
    <3> QED BY <2>1, <3>1, <3>2
  <2> QED BY <2>3 DEF OneShotMeant
<1>5. DOMAIN victims' = Runners
      /\ \A q \in Runners \ {r} : victims'[q] = victims[q]
  BY DEF GuardInv, GuardEnds
<1>6. /\ DOMAIN todo' = Runners /\ DOMAIN settings' = Runners
      /\ DOMAIN meant' = Runners
      /\ \A q \in Runners \ {r} : /\ todo'[q] = todo[q]
                                  /\ settings'[q] = settings[q]
                                  /\ meant'[q] = meant[q]
  BY <1>1 DEF GuardInv
<1> QED BY <1>1, <1>2, <1>3, <1>4, <1>5, <1>6, OthersTell

LEMMA StartKeeps ==
    ASSUME GuardInv, NEW r \in Runners, NEW command \in DOMAIN Program,
           Start(r, command)
    PROVE  GuardInv'
<1>1. /\ todo[r] = <<>>
      /\ todo' = [todo EXCEPT ![r] = Program[command]]
      /\ UNCHANGED <<settings, victims, meant, ended, config, installing>>
  BY DEF Start, config_vars, machine_vars
<1>2. victims'[r] = {} /\ todo'[r] = Program[command]
  BY <1>1 DEF GuardInv, TodoTells
<1>3. TodoTells(r)'
  BY <1>2, ProgramTells DEF TodoTells
<1>4. SettingsTell(r)' /\ VictimsTell(r)' /\ OneShotMeant'
  BY <1>1 DEF GuardInv, SettingsTell, VictimsTell, OneShotMeant
<1>5. /\ DOMAIN todo' = Runners
      /\ \A q \in Runners \ {r} : todo'[q] = todo[q]
  BY <1>1 DEF GuardInv
<1> QED BY <1>1, <1>3, <1>4, <1>5, OthersTell DEF GuardInv

LEMMA GoneKeeps ==
    ASSUME GuardInv, NEW r \in Runners, Gone(r),
           UNCHANGED <<ended, config, installing>>
    PROVE  GuardInv'
<1>1. /\ todo'[r] = <<>> /\ settings'[r] = Refused
      /\ victims'[r] = {} /\ meant'[r] = Refused
  BY DEF GuardInv, Gone
<1>2. TodoTells(r)'
  <2>1. <<>> \in Seq(Tasks) /\ Len(<<>>) = 0
    OBVIOUS
  <2> QED BY <1>1, <2>1 DEF TodoTells
<1>3. SettingsTell(r)' /\ VictimsTell(r)' /\ OneShotMeant'
  BY <1>1 DEF GuardInv, SettingsTell, VictimsTell, OneShotMeant, Refused
<1>4. /\ DOMAIN todo' = Runners /\ DOMAIN settings' = Runners
      /\ DOMAIN victims' = Runners /\ DOMAIN meant' = Runners
      /\ \A q \in Runners \ {r} :
            /\ todo'[q] = todo[q] /\ settings'[q] = settings[q]
            /\ victims'[q] = victims[q] /\ meant'[q] = meant[q]
  BY DEF GuardInv, Gone
<1> QED BY <1>2, <1>3, <1>4, OthersTell

(* What setup writes is a document again. *)
LEMMA InstalledInOrder ==
    ASSUME NEW document, NEW recommended
    PROVE  InOrder(installed_document(document, recommended))
<1> DEFINE guard == installed_guard(document, recommended)
           Written(name) == {Table(name, guard, FALSE),
                             Table(name, EntriesOf(document, name), FALSE)}
           S == UNION {Written(name) : name \in DOMAIN KeysOf}
           Put(name) == Rewritten(document, name, guard)
<1>1. ASSUME NEW name \in DOMAIN KeysOf PROVE Put(name) \in Seq(S)
  <2>1. Written(name) \subseteq S
    OBVIOUS
  <2>2. Put(name) \in Seq(Written(name))
    <3> DEFINE asked == Table(name, guard, FALSE)
               kept == Table(name, EntriesOf(document, name), FALSE)
    <3>1. Put(name) \in {<<asked>>, <<kept>>, <<>>}
      BY DEF Rewritten
    <3>2. Written(name) = {asked, kept}
      OBVIOUS
    <3> HIDE DEF asked, kept, Put, Written
    <3>3. CASE Put(name) = <<asked>>
      BY <3>2, <3>3
    <3>4. CASE Put(name) = <<kept>>
      BY <3>2, <3>4
    <3>5. CASE Put(name) = <<>>
      BY <3>5
    <3> QED BY <3>1, <3>3, <3>4, <3>5
  <2> HIDE DEF Written, S, Put
  <2> QED BY <2>1, <2>2
<1>2. /\ "completion" \in DOMAIN KeysOf /\ "leak_detection" \in DOMAIN KeysOf
      /\ GuardName \in DOMAIN KeysOf /\ "safety" \in DOMAIN KeysOf
  BY DEF KeysOf, GuardName
<1> HIDE DEF S, Put
<1> DEFINE tables == Put("completion") \o Put("leak_detection")
                         \o Put(GuardName) \o Put("safety")
<1>3. tables \in Seq(S)
  BY <1>1, <1>2
<1>4. installed_document(document, recommended).tables = tables
  BY DEF installed_document, Document, Put
<1> HIDE DEF tables
<1> QED BY <1>3, <1>4 DEF InOrder

LEMMA EmptyInOrder == InOrder(EmptyFile) /\ InOrder(NoFile)
<1>1. Len(<<>>) = 0 /\ DOMAIN <<>> = 1 .. 0
  OBVIOUS
<1> QED BY <1>1 DEF InOrder, EmptyFile, NoFile, Document

LEMMA GuardInitHolds == Init => GuardInv
<1> SUFFICES ASSUME Init PROVE GuardInv
  OBVIOUS
<1>1. InOrder(config) /\ InOrder(installing)
  BY EmptyInOrder, CommandsAssumption DEF Init
<1>2. ASSUME NEW r \in Runners
      PROVE  TodoTells(r) /\ SettingsTell(r) /\ VictimsTell(r)
  <2>1. /\ todo[r] = <<>> /\ settings[r] = Refused
        /\ victims[r] = {} /\ meant[r] = Refused
    BY DEF Init
  <2>2. <<>> \in Seq(Tasks) /\ Len(<<>>) = 0
    OBVIOUS
  <2> QED BY <2>1, <2>2 DEF TodoTells, SettingsTell, VictimsTell, Refused
<1>3. OneShotMeant
  BY DEF Init, OneShotMeant
<1> QED BY <1>1, <1>2, <1>3 DEF Init, GuardInv

(* The world changes the configuration and what runs, no command. *)
LEMMA WorldKeeps ==
    ASSUME GuardInv, UNCHANGED <<todo, settings, victims, meant, ended>>,
           InOrder(config'), InOrder(installing')
    PROVE  GuardInv'
<1>1. ASSUME NEW r \in Runners
      PROVE  TodoTells(r)' /\ SettingsTell(r)' /\ VictimsTell(r)'
  <2>1. TodoTells(r) /\ SettingsTell(r) /\ VictimsTell(r)
    BY DEF GuardInv
  <2> QED BY <2>1 DEF TodoTells, SettingsTell, VictimsTell
<1> QED BY <1>1 DEF GuardInv, OneShotMeant, InOrder

LEMMA GuardStepHolds ==
    ASSUME GuardInv, [Next]_vars
    PROVE  GuardInv'
<1>0. InOrder(config) /\ InOrder(installing)
  BY DEF GuardInv
<1>1. CASE UNCHANGED vars
  BY <1>0, <1>1, WorldKeeps DEF vars, run_vars, config_vars, machine_vars
<1>2. CASE WorldStep
  <2>1. CASE DesktopChanges \/ EvidenceRemoved \/ AnalyzerExits
    BY <1>0, <2>1, WorldKeeps
       DEF DesktopChanges, EvidenceRemoved, AnalyzerExits, Change, run_vars,
           config_vars, machine_vars
  <2>2. CASE OwnerEdits
    <3>1. InOrder(config')
      BY <2>2, CommandsAssumption DEF OwnerEdits
    <3> QED BY <1>0, <2>2, <3>1, WorldKeeps
            DEF OwnerEdits, Change, run_vars, machine_vars
  <2>3. CASE SetupBegins
    <3>1. InOrder(config') /\ InOrder(installing')
      BY <2>3, EmptyInOrder, InstalledInOrder DEF SetupBegins
    <3> QED BY <2>3, <3>1, WorldKeeps
            DEF SetupBegins, Change, run_vars, machine_vars
  <2>4. CASE SetupEnds
    <3>1. InOrder(config') /\ InOrder(installing')
      BY <1>0, <2>4, EmptyInOrder DEF SetupEnds
    <3> QED BY <2>4, <3>1, WorldKeeps DEF SetupEnds, run_vars, machine_vars
  <2> QED BY <1>2, <2>1, <2>2, <2>3, <2>4 DEF WorldStep
<1>3. ASSUME NEW r \in Runners, CommandStep(r) PROVE GuardInv'
  <2>1. CASE \E command \in DOMAIN Program : Start(r, command)
    BY <2>1, StartKeeps
  <2>2. CASE Exit(r) \/ Crash(r)
    BY <2>2, GoneKeeps DEF Exit, Crash, config_vars, machine_vars
  <2>3. CASE \E p \in Paths : NothingToCapture(r, p) \/ EndRefresh(r, p)
    <3>1. /\ Proceed(r) /\ todo[r] # <<>>
          /\ Head(todo[r]) \in {"refresh", "refresh_configured"}
      BY <2>3 DEF NothingToCapture, EndRefresh, Refreshing, Doing
    <3>2. UNCHANGED <<settings, victims, meant, ended, config, installing>>
      BY <2>3 DEF NothingToCapture, EndRefresh, config_vars, machine_vars
    <3> QED BY <3>1, <3>2, PlainKeeps DEF Preparing
  <2>4. CASE \E p \in Paths : BeginRefresh(r, p)
    BY <2>4, PlainKeeps DEF BeginRefresh, run_vars, config_vars, machine_vars
  <2>5. CASE LoadConfig(r)
    <3>1. /\ todo[r] # <<>> /\ Head(todo[r]) = "load"
          /\ UNCHANGED <<victims, ended, config, installing>>
          /\ settings' = [settings EXCEPT ![r] = load_config(config)]
          /\ meant' = [meant EXCEPT ![r] = load_config(config)]
          /\ IF load_config(config).ok THEN Proceed(r) ELSE Abort(r)
      BY <2>5 DEF LoadConfig, Doing, config_vars, machine_vars
    <3> QED BY <3>1, LoadingKeeps
  <2>6. CASE RunOnce(r) \/ OpensEvidence(r) \/ WritesEvidence(r) \/ FallsBack(r)
             \/ PersistsElsewhere(r)
    <3>1. /\ Doing(r, "run_once")
          /\ EvidenceStep(r)
      BY <2>6
         DEF RunOnce, OpensEvidence, WritesEvidence, FallsBack,
             PersistsElsewhere
    <3>2. Proceed(r) \/ UNCHANGED todo
      BY <3>1 DEF EvidenceStep, ProceedIfIdle
    <3>3. /\ todo[r] # <<>> /\ Head(todo[r]) = "run_once"
          /\ UNCHANGED <<settings, victims, meant, ended, config, installing>>
      BY <3>1 DEF EvidenceStep, Doing, config_vars, machine_vars
    <3> QED BY <3>2, <3>3, PlainKeeps DEF Preparing
  <2>7. CASE BeginServing(r) \/ BindsSocket(r) \/ FailsToBind(r) \/ DaemonEnds(r)
    <3>1. DaemonStep(r) /\ (Abort(r) \/ UNCHANGED todo)
      BY <2>7 DEF BeginServing, BindsSocket, FailsToBind, DaemonEnds
    <3> QED BY <3>1, PlainKeeps DEF DaemonStep, config_vars, machine_vars
  <2>8. CASE NotifyTerminated(r) \/ NotifySmoke(r)
    BY <2>8, PlainKeeps
       DEF NotifyTerminated, NotifySmoke, run_vars, config_vars, machine_vars
  <2>9. CASE Notify(r)
    <3>1. \/ UNCHANGED todo
          \/ Proceed(r) /\ todo[r] # <<>> /\ Head(todo[r]) = "notify"
      BY <2>9 DEF Notify, Doing
    <3>2. UNCHANGED <<settings, victims, meant, ended, config, installing>>
      BY <2>9 DEF Notify, config_vars, machine_vars
    <3> QED BY <3>1, <3>2, PlainKeeps DEF Preparing
  <2>10. CASE GuardLoads(r)
    <3> DEFINE helper == parse_ra_guard_config(config)
               loaded == load_config(config)
    <3>1. /\ todo[r] # <<>> /\ Head(todo[r]) = "guard"
          /\ UNCHANGED <<victims, ended, config, installing>>
          /\ settings' = [settings EXCEPT ![r] = helper]
          /\ meant' = [meant EXCEPT ![r] = loaded]
          /\ IF helper.ok THEN Proceed(r) ELSE Abort(r)
      BY <2>10 DEF GuardLoads, Doing, machine_vars
    <3>2. helper.ok /\ loaded.ok => HelperAgrees(helper, loaded)
      BY <1>0, ReadersAgree
    <3> HIDE DEF helper, loaded
    <3> QED BY <3>1, <3>2, LoadingKeeps
  <2>11. CASE GuardInline(r)
    <3> DEFINE loaded == load_config(config)
    <3>1. /\ todo[r] # <<>> /\ Head(todo[r]) = "guard"
          /\ UNCHANGED <<victims, ended, config, installing>>
          /\ settings' = [settings EXCEPT ![r] = loaded]
          /\ meant' = [meant EXCEPT ![r] = loaded]
          /\ IF loaded.ok
             THEN todo' = [todo EXCEPT ![r] = <<"collect", "enforce", "exit">>]
             ELSE Abort(r)
      BY <2>11 DEF GuardInline, Doing, config_vars, machine_vars
    <3> HIDE DEF loaded
    <3> QED BY <3>1, LoadingKeeps
  <2>12. CASE GuardCollects(r)
    BY <2>12, CollectsKeeps
  <2>13. CASE GuardFails(r)
    BY <2>13, PlainKeeps DEF GuardFails, config_vars, machine_vars
  <2>14. CASE GuardDone(r)
    <3>1. /\ Proceed(r) /\ todo[r] # <<>>
          /\ Head(todo[r]) \in {"end", "enforce"}
          /\ UNCHANGED <<settings, victims, meant, ended, config, installing>>
      BY <2>14 DEF GuardDone, Ending, Doing, config_vars, machine_vars
    <3> QED BY <3>1, PlainKeeps DEF Preparing
  <2>15. CASE \E i \in DOMAIN Samples : GuardEnds(r, i)
    BY <2>15, EndsKeeps
  <2> QED BY <1>3, <2>1, <2>2, <2>3, <2>4, <2>5, <2>6, <2>7, <2>8, <2>9, <2>10,
             <2>11, <2>12, <2>13, <2>14, <2>15 DEF CommandStep
<1> QED BY <1>1, <1>2, <1>3 DEF Next

(* cancerbroker-ra-guard.rs: the one-shot guard ends a rust-analyzer only   *)
(* if the configuration as load_config reads it enforces a guard that       *)
(* covers it, whatever tables the file has, in whatever order, and however  *)
(* its owner and setup rewrite it meanwhile.                                *)
THEOREM OneShotMeantHolds == Spec => []OneShotMeant
<1>1. Spec => []GuardInv
  BY GuardInitHolds, GuardStepHolds, PTL DEF Spec
<1>2. GuardInv => OneShotMeant
  BY DEF GuardInv
<1> QED BY <1>1, <1>2, PTL
=============================================================================
