------------------------------- MODULE Desktop -------------------------------
(***************************************************************************)
(* Desktop notifications (notifications.rs): commands of a desktop save    *)
(* where it is (notification_session.rs), and a process without one, such  *)
(* as a daemon that the desktop has not started or has left behind, sends  *)
(* its notices through a helper that is told of the desktop saved last.    *)
(***************************************************************************)
EXTENDS SharedFile, Naturals

CONSTANTS
    Senders,    \* processes that refresh the snapshot and send notices
    Desktops,
    NoDesktop,
    Length,     \* of the snapshot of each desktop
    Paths       \* of snapshots: the default, and the configured one

ASSUME DesktopAssumption ==
    /\ NoDesktop \notin Desktops
    /\ Length \in [Desktops -> Nat]

VARIABLES
    open,        \* the desktops that there are
    snapshot,    \* what is in the file of each path
    env,         \* the desktop in the environment of each process
    refreshing,  \* the paths of snapshots that each has emptied and not written
    disabled,    \* NOTIFICATIONS_DISABLED of each process
    notice,      \* what each is sending
    \* history
    captured,    \* the desktop that was saved last at each path
    disturbed,   \* paths where refreshes have met, or one was cut short
    unexplained  \* was a notice lost for no reason?

desktop_vars == <<open, snapshot, env, refreshing, disabled, notice,
                  captured, disturbed, unexplained>>

NoNotice == [stage |-> "none"]

DesktopInit ==
    /\ open = Desktops
    /\ snapshot = [p \in Paths |-> Absent]
    /\ env = [r \in Senders |-> NoDesktop]
    /\ refreshing = [r \in Senders |-> {}]
    /\ disabled = [r \in Senders |-> FALSE]
    /\ notice = [r \in Senders |-> NoNotice]
    /\ captured = [p \in Paths |-> NoDesktop]
    /\ disturbed = {}
    /\ unexplained = FALSE

-----------------------------------------------------------------------------
(* refresh_notification_session_snapshot, of a process with a desktop *)

Refreshers(p) == {r \in Senders : p \in refreshing[r]}

(* Faulty: the file is opened without being emptied. *)
CreateKeepsContent(r, p) ==
    /\ env[r] # NoDesktop
    /\ snapshot' = [snapshot EXCEPT ![p] = IF @ = Absent THEN Empty ELSE @]
    /\ refreshing' = [refreshing EXCEPT ![r] = @ \cup {p}]
    /\ disturbed' = IF Refreshers(p) = {} THEN disturbed \ {p}
                    ELSE disturbed \cup {p}
    /\ UNCHANGED <<open, env, disabled, notice, captured, unexplained>>

CreateSnapshot(r, p) ==
    /\ env[r] # NoDesktop
    /\ snapshot' = [snapshot EXCEPT ![p] = Empty]
    /\ refreshing' = [refreshing EXCEPT ![r] = @ \cup {p}]
    /\ disturbed' = IF Refreshers(p) = {} THEN disturbed \ {p}
                    ELSE disturbed \cup {p}
    /\ UNCHANGED <<open, env, disabled, notice, captured, unexplained>>

LongerSnapshot(d, e) == Length[d] > Length[e]

WriteSnapshot(r, p) ==
    /\ p \in refreshing[r]
    /\ snapshot' = [snapshot EXCEPT ![p] =
                       Overwritten(@, env[r], LongerSnapshot(@.text, env[r]))]
    /\ refreshing' = [refreshing EXCEPT ![r] = @ \ {p}]
    /\ captured' = [captured EXCEPT ![p] = env[r]]
    /\ UNCHANGED <<open, env, disabled, notice, disturbed, unexplained>>

-----------------------------------------------------------------------------
(* notify: the result is ignored by all but notify-smoke. *)

BeginNotice(r, p) ==
    /\ notice[r] = NoNotice
    /\ notice' = [notice EXCEPT ![r] = [stage |-> "direct", path |-> p]]
    /\ UNCHANGED <<open, snapshot, env, refreshing, disabled, captured,
                   disturbed, unexplained>>

(* cancerbroker-notify-helper does no more than a process that shows a      *)
(* notice by itself: it reaches the desktop of its environment, if open.    *)
Shows(d) == d \in open

(* dispatch_notification: a desktop that is open may fail to show a notice, *)
(* and after its first failure a process never shows one by itself again.   *)
ShowDirect(r) ==
    /\ notice[r].stage = "direct"
    /\ ~ disabled[r]
    /\ Shows(env[r])
    /\ notice' = [notice EXCEPT ![r] = NoNotice]
    /\ UNCHANGED <<open, snapshot, env, refreshing, disabled, captured,
                   disturbed, unexplained>>

DirectFails(r) ==
    /\ notice[r].stage = "direct"
    /\ disabled' = [disabled EXCEPT ![r] = TRUE]
    /\ notice' = [notice EXCEPT ![r].stage = "load"]
    /\ UNCHANGED <<open, snapshot, env, refreshing, captured, disturbed,
                   unexplained>>

(* The desktop that a notice should reach, as far as there is one. *)
Due(p) ==
    IF p \in disturbed \/ Refreshers(p) # {} THEN NoDesktop ELSE captured[p]

Lost(r, due) ==
    /\ notice' = [notice EXCEPT ![r] = NoNotice]
    /\ unexplained' = (unexplained \/ due \in open)

(* load_notification_session_snapshot: without a file, or with one that     *)
(* cannot be parsed, the notice is lost.                                    *)
LoadSnapshot(r) ==
    /\ notice[r].stage = "load"
    /\ LET p == notice[r].path
           content == snapshot[p]
       IN  IF content.state = "whole"
           THEN /\ notice' = [notice EXCEPT ![r] =
                                 [stage |-> "helper", desktop |-> content.text,
                                  due |-> Due(p)]]
                /\ UNCHANGED unexplained
           ELSE Lost(r, Due(p))
    /\ UNCHANGED <<open, snapshot, env, refreshing, disabled, captured,
                   disturbed>>

(* dispatch_via_helper *)
RunHelper(r) ==
    /\ notice[r].stage = "helper"
    /\ Shows(notice[r].desktop)
    /\ notice' = [notice EXCEPT ![r] = NoNotice]
    /\ UNCHANGED <<open, snapshot, env, refreshing, disabled, captured,
                   disturbed, unexplained>>

(* resolve_notify_helper_path, dispatch_via_helper: whether its desktop is  *)
(* open or not, the helper may not be there, or exit with a failure.  That  *)
(* explains the loss if it was told of the desktop that was due.            *)
HelperFails(r) ==
    /\ notice[r].stage = "helper"
    /\ Lost(r, IF notice[r].desktop = notice[r].due THEN NoDesktop
               ELSE notice[r].due)
    /\ UNCHANGED <<open, snapshot, env, refreshing, disabled, captured,
                   disturbed>>

NoticeStep(r) ==
    \/ ShowDirect(r) \/ DirectFails(r)
    \/ LoadSnapshot(r)
    \/ RunHelper(r) \/ HelperFails(r)

-----------------------------------------------------------------------------
(* A process begins in some desktop or in none... *)
Enter(r, d) ==
    /\ d \in open \cup {NoDesktop}
    /\ env' = [env EXCEPT ![r] = d]
    /\ UNCHANGED <<open, snapshot, refreshing, disabled, notice, captured,
                   disturbed, unexplained>>

(* ...and leaves what it was writing as it is. *)
Leave(r) ==
    /\ env' = [env EXCEPT ![r] = NoDesktop]
    /\ refreshing' = [refreshing EXCEPT ![r] = {}]
    /\ disabled' = [disabled EXCEPT ![r] = FALSE]
    /\ notice' = [notice EXCEPT ![r] = NoNotice]
    /\ disturbed' = disturbed \cup refreshing[r]
    /\ UNCHANGED <<open, snapshot, captured, unexplained>>

(* Desktops come and go, and come back. *)
Toggle(d) ==
    /\ open' = IF d \in open THEN open \ {d} ELSE open \cup {d}
    /\ UNCHANGED <<snapshot, env, refreshing, disabled, notice, captured,
                   disturbed, unexplained>>

(* notifications.rs and notification_session.rs: no notice is lost while    *)
(* the desktop is open from which a command has saved its environment last, *)
(* unless commands were saving at the same time or one was cut short, or    *)
(* the helper, told of that very desktop, fails.                            *)
LossesExplained == ~ unexplained

(* Why: the file of a path is as its last refresh has left it... *)
SnapshotTells(p) ==
    p \notin disturbed =>
        \/ /\ Refreshers(p) = {}
           /\ captured[p] # NoDesktop => snapshot[p] = Whole(captured[p])
        \/ /\ snapshot[p] = Empty
           /\ \E r \in Senders : Refreshers(p) = {r}

(* ... and a notice given to the helper is for the desktop that it is due.  *)
NoticeTells(r) ==
    \/ notice[r] = NoNotice
    \/ \E p \in Paths, stage \in {"direct", "load"} :
          notice[r] = [stage |-> stage, path |-> p]
    \/ /\ notice[r].stage = "helper"
       /\ notice[r].due \in {notice[r].desktop, NoDesktop}

(* The types of what the argument needs, and the argument. *)
DesktopInv ==
    /\ open \subseteq Desktops
    /\ DOMAIN snapshot = Paths
    /\ DOMAIN captured = Paths
    /\ refreshing \in [Senders -> SUBSET Paths]
    /\ DOMAIN notice = Senders
    /\ \A p \in Paths : SnapshotTells(p)
    /\ \A r \in Senders : NoticeTells(r)
    /\ LossesExplained
=============================================================================
