------------------------------ MODULE MCSetup ------------------------------
(* A machine of 1 GiB, whose recommended settings are 1 GiB, 2 samples, 120 *)
(* and 600 seconds.  3000 seconds stand for a number beyond a TOML integer. *)
EXTENDS Setup

TypedNumbers ==
    [memory_cap_gb                |-> {1, 2},
     required_consecutive_samples |-> {0, 2},
     startup_grace_secs           |-> {900},
     cooldown_secs                |-> {900, 3000}]

(* Our entry in a layout of the owner's, and another entry as setup would    *)
(* lay it out.                                                              *)
McpEdits ==
    {[entry |-> "ours", canonical |-> FALSE],
     [entry |-> "other", canonical |-> TRUE]}

(* No section, and one whose limit is no whole number of GiB and above the   *)
(* memory of the machine, and whose cooldown is shorter than its grace.     *)
Guards ==
    {NoSection,
     [present |-> TRUE, enabled |-> FALSE, rss |-> 1536,
      required_consecutive_samples |-> 2, startup_grace_secs |-> 900,
      cooldown_secs |-> 600, same_uid_only |-> FALSE]}
=============================================================================
