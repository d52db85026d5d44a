-------------------------------- MODULE Ledger --------------------------------
(***************************************************************************)
(* What completion.rs promises, without files, processes, batches or       *)
(* sockets: a ledger of dedupe keys with a saved copy.  A key is opened by *)
(* an event outside the window of its last completion and closed by a      *)
(* completion; a program that stops falls back to what it saved; a save    *)
(* is not atomic, and one that is cut short leaves nothing to start from.  *)
(* CompletionDaemon implements it (ImplementsLedger).                      *)
(***************************************************************************)
EXTENDS Naturals

CONSTANTS
    Keys,       \* what events are recognised by
    Ttl,        \* how long a completion is remembered
    StartTime   \* the clock in the beginning

VARIABLES
    now,        \* the clock
    running,    \* does the program run?
    entry,      \* what it knows of each key
    saved       \* what it would know after a restart

lvars == <<now, running, entry, saved>>

Idle    == [state |-> "idle", at |-> 0]
Open    == [state |-> "open", at |-> 0]
Done(t) == [state |-> "done", at |-> t]

AllIdle == [k \in Keys |-> Idle]

Expired(k) == entry[k].state = "done" /\ now > entry[k].at + Ttl

Init ==
    /\ now = StartTime
    /\ running = FALSE
    /\ entry = AllIdle
    /\ saved = [readable |-> TRUE, entry |-> AllIdle]

Tick == now' = now + 1 /\ UNCHANGED <<running, entry, saved>>

Start ==
    /\ ~ running
    /\ saved.readable
    /\ running' = TRUE
    /\ entry' = saved.entry
    /\ UNCHANGED <<now, saved>>

(* Decided at a time t that may be older than the clock. *)
Take(k, t) ==
    /\ running
    /\ t <= now
    /\ entry[k].state = "done" => t > entry[k].at + Ttl
    /\ entry' = [entry EXCEPT ![k] = Open]
    /\ UNCHANGED <<now, running, saved>>

Complete(k, t) ==
    /\ running
    /\ t <= now
    /\ entry[k] = Open
    /\ entry' = [entry EXCEPT ![k] = Done(t)]
    /\ UNCHANGED <<now, running, saved>>

BeginSave ==
    /\ running
    /\ saved' = [readable |-> FALSE, entry |-> AllIdle]
    /\ UNCHANGED <<now, running, entry>>

(* Only completions that no longer count may be left out. *)
FinishSave ==
    /\ running
    /\ \E dropped \in SUBSET {k \in Keys : Expired(k)} :
          saved' = [readable |-> TRUE,
                    entry |-> [k \in Keys |-> IF k \in dropped THEN Idle
                                              ELSE entry[k]]]
    /\ UNCHANGED <<now, running, entry>>

Stop ==
    /\ running
    /\ running' = FALSE
    /\ entry' = saved.entry
    /\ UNCHANGED <<now, saved>>

Next ==
    \/ Tick
    \/ Start
    \/ \E k \in Keys, t \in 0..now : Take(k, t) \/ Complete(k, t)
    \/ BeginSave
    \/ FinishSave
    \/ Stop

Spec == Init /\ [][Next]_lvars
=============================================================================
