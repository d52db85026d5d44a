----------------------------- MODULE MCCommands -----------------------------
(* Two commands at a time, of seven; two desktops, of which one has the     *)
(* longer snapshot, saved at one path; and a rust-analyzer over the limit   *)
(* that every edit sets.                                                    *)
EXTENDS Commands, TLC

CONSTANTS r1, r2, d1, d2, path

MCTargets == [r \in Runners |-> "cli-target"]

MCLength == d1 :> 1 @@ d2 :> 2

MCSamples == <<[rss |-> 2000, age |-> 400, own |-> TRUE]>>

MCRecommended ==
    [enabled |-> TRUE, max_rss_bytes |-> 1024, required_consecutive_samples |-> 2,
     startup_grace_secs |-> 120, cooldown_secs |-> 600, same_uid_only |-> TRUE]

GuardTable(enabled) ==
    Table(GuardName,
          [default_guard EXCEPT !.enabled = enabled,
                                !.required_consecutive_samples = 1], FALSE)

LeakTable(enabled) == Table("leak_detection", "enabled" :> enabled, FALSE)

CompletionTable(sources) ==
    Table("completion",
          "enabled_sources" :> sources @@ "cleanup_retry_interval_secs" :> 15, FALSE)

(* An enforcing guard and two completion sources; and a guard that is off,  *)
(* before a leak detection that is on.                                      *)
MCEdits ==
    {Document("enforce", <<CompletionTable(2), GuardTable(TRUE)>>, FALSE),
     Document("enforce", <<GuardTable(FALSE), LeakTable(TRUE)>>, FALSE)}

Alike == Permutations(Runners)
=============================================================================
