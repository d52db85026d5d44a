----------------------------- MODULE ConfigFile -----------------------------
(***************************************************************************)
(* The configuration file and its two readers: load_config (config.rs) and *)
(* parse_ra_guard_config (bin/cancerbroker-ra-guard.rs), which goes by the *)
(* lines of the file and looks for a few keys only.                        *)
(***************************************************************************)
EXTENDS Naturals, Sequences

GuardName == "rust_analyzer_memory_guard"

(* Of every section, the keys that the readers tell apart.                  *)
KeysOf ==
    [completion |-> {"enabled_sources", "cleanup_retry_interval_secs"},
     leak_detection |-> {"enabled"},
     rust_analyzer_memory_guard |->
        {"enabled", "max_rss_bytes", "required_consecutive_samples",
         "startup_grace_secs", "cooldown_secs", "same_uid_only"},
     safety |-> {"same_uid_only", "required_command_markers"}]

(* The value of such a key is given by the number of its elements. *)
ArrayKeys == {"enabled_sources", "required_command_markers"}

(* A document: mode is "none" when there is no such key, and tables are in  *)
(* the order of the file; an inline table is a value of the root.  A pretty *)
(* document has arrays of two or more elements on as many lines.            *)
Table(name, entries, inline) ==
    [name |-> name, entries |-> entries, inline |-> inline]

Document(mode, tables, pretty) ==
    [state |-> "whole", mode |-> mode, tables |-> tables, pretty |-> pretty]

(* The tables of a document follow each other. *)
InOrder(document) ==
    /\ Len(document.tables) \in Nat
    /\ DOMAIN document.tables = 1 .. Len(document.tables)

NoFile == [state |-> "absent", mode |-> "none", tables |-> <<>>, pretty |-> FALSE]

(* As a file is that was emptied to be written. *)
EmptyFile == Document("none", <<>>, FALSE)

default_guard ==
    [enabled |-> TRUE, max_rss_bytes |-> 500, required_consecutive_samples |-> 3,
     startup_grace_secs |-> 300, cooldown_secs |-> 1800, same_uid_only |-> TRUE]

default_retry == 15

Settings(mode, guard, retry) ==
    [ok |-> TRUE, mode |-> mode, guard |-> guard, retry |-> retry]

Refused == [ok |-> FALSE]

-----------------------------------------------------------------------------
(* load_config: no table is there twice and none lacks a key of its section,*)
(* and a section that is not there has its defaults.                        *)
complete(table) == KeysOf[table.name] \subseteq DOMAIN table.entries

unique(document) ==
    \A i, j \in DOMAIN document.tables :
        document.tables[i].name = document.tables[j].name => i = j

Named(document, name) ==
    {i \in DOMAIN document.tables : document.tables[i].name = name}

EntriesOf(document, name) ==
    document.tables[CHOOSE i \in Named(document, name) : TRUE].entries

load_config(document) ==
    IF /\ document.state = "whole"
       /\ document.mode \in {"none", "observe", "enforce"}
       /\ unique(document)
       /\ \A i \in DOMAIN document.tables : complete(document.tables[i])
    THEN Settings(
           IF document.mode = "none" THEN "observe" ELSE document.mode,
           IF Named(document, GuardName) = {} THEN default_guard
           ELSE EntriesOf(document, GuardName),
           IF Named(document, "completion") = {} THEN default_retry
           ELSE EntriesOf(document, "completion").cleanup_retry_interval_secs)
    ELSE Refused

-----------------------------------------------------------------------------
(* parse_ra_guard_config: what it keeps from line to line.  A mode stands   *)
(* before all tables.                                                       *)
Beginning(document) ==
    [ok |-> document.mode \in {"none", "observe", "enforce"},
     section |-> "root",
     mode |-> IF document.mode = "none" THEN "observe" ELSE document.mode,
     guard |-> default_guard,
     retry |-> default_retry]

(* Faulty: a section that is not one of the two does not end them. *)
SectionKept(read, name) ==
    IF name \in {GuardName, "completion"} THEN [read EXCEPT !.section = name]
    ELSE read

Section(read, name) ==
    [read EXCEPT !.section = IF name \in {GuardName, "completion"} THEN name
                             ELSE "other"]

(* An array over lines has lines without `=`, which are an error whatever   *)
(* they belong to.                                                          *)
has_bare_lines(entries, pretty) ==
    pretty /\ \E key \in ArrayKeys \cap DOMAIN entries : entries[key] > 1

Entries(read, entries, pretty) ==
    [read EXCEPT
        !.ok = ~ has_bare_lines(entries, pretty),
        !.guard = IF read.section = GuardName
                  THEN [key \in DOMAIN read.guard |->
                           IF key \in DOMAIN entries THEN entries[key]
                           ELSE read.guard[key]]
                  ELSE read.guard,
        !.retry = IF /\ read.section = "completion"
                     /\ "cleanup_retry_interval_secs" \in DOMAIN entries
                  THEN entries.cleanup_retry_interval_secs
                  ELSE read.retry]

(* An inline table is one more line of the root, and has no key that the    *)
(* helper looks for there.                                                  *)
ReadTable(read, table, pretty) ==
    IF ~ read.ok \/ table.inline THEN read
    ELSE Entries(Section(read, table.name), table.entries, pretty)

(* What has been read up to each table. *)
Reading(document) ==
    LET read[i \in 0 .. Len(document.tables)] ==
            IF i = 0 THEN Beginning(document)
            ELSE ReadTable(read[i - 1], document.tables[i], document.pretty)
    IN  read

parse_ra_guard_config(document) ==
    LET read == Reading(document)[Len(document.tables)] IN
    IF document.state = "whole" /\ read.ok
    THEN Settings(read.mode, read.guard, read.retry)
    ELSE Refused

-----------------------------------------------------------------------------
(* setup: a guard table that is complete, in sections in their order, with  *)
(* arrays over lines.  Without questions the answers are what the file      *)
(* says, with the memory cap in whole GiB; rss is in MiB.                   *)
rounded(mib) == IF mib = 0 THEN 1024 ELSE ((mib + 1023) \div 1024) * 1024

installed_guard(document, recommended) ==
    IF document.state = "absent" THEN recommended
    ELSE [load_config(document).guard EXCEPT !.max_rss_bytes = rounded(@)]

(* The section of a name, if it is to be written. *)
Rewritten(document, name, guard) ==
    IF name = GuardName THEN <<Table(name, guard, FALSE)>>
    ELSE IF Named(document, name) = {} THEN <<>>
    ELSE <<Table(name, EntriesOf(document, name), FALSE)>>

installed_document(document, recommended) ==
    LET guard == installed_guard(document, recommended)
        Put(name) == Rewritten(document, name, guard)
    IN  Document(document.mode,
                 Put("completion") \o Put("leak_detection") \o Put(GuardName)
                     \o Put("safety"),
                 TRUE)

-----------------------------------------------------------------------------
(* Whom a one-shot guard would end, of processes given by memory, age and   *)
(* owner: its history begins empty, so that a first sample over the limit   *)
(* counts one (observe_inventory).                                          *)
sample_matches_guard(guard, sample) ==
    /\ guard.enabled
    /\ sample.age >= guard.startup_grace_secs
    /\ guard.same_uid_only => sample.own

consecutive_over_limit_samples(guard, sample) ==
    IF sample.rss >= guard.max_rss_bytes THEN 1 ELSE 0

one_shot_candidates(guard, samples) ==
    {i \in DOMAIN samples :
        /\ sample_matches_guard(guard, samples[i])
        /\ consecutive_over_limit_samples(guard, samples[i])
               >= guard.required_consecutive_samples}
=============================================================================
