--------------------------------- MODULE Mcp ---------------------------------
(***************************************************************************)
(* The MCP server (mcp.rs): one leak detector behind a mutex, and tools    *)
(* that clients may call at the same time.  scan_leaks reads the processes *)
(* before it asks for the mutex, cleanup runs the policy once, and         *)
(* list_evidence walks the directory that cleanup writes to.  status, scan *)
(* and scan_resources only read and keep nothing.                          *)
(***************************************************************************)
EXTENDS LeakDetector, RunOnce

CONSTANTS
    ConfigOf,   \* the configuration that each call loads
    MaxTakes    \* bound: inventories taken by one server

ASSUME McpAssumption ==
    /\ ConfigOf \in [Callers -> RunOnceConfigs]
    /\ MaxTakes \in Nat

VARIABLES
    call,        \* what each call of scan_leaks or list_evidence holds
    truth,       \* history: the inventories in the order they were taken
    observed,    \* history: which of them was observed last
    overtaken,   \* history: has one been observed before an earlier one?
    listing      \* history: what list_evidence has answered just now

call_vars == <<call, truth, observed, overtaken>>

mcp_vars == <<histories, candidates, samples, evidence_vars, call_vars, listing>>

Inventories == [Processes -> 0..MaxRss]

Ready == [stage |-> "ready"]

NoAnswer == [ok |-> TRUE, shown |-> {}, kept |-> {}, lost |-> FALSE]

Free(c) == call[c] = Ready /\ ~ Writing(c)

Listing(c) == call[c].stage \in {"read_dir", "metadata"}

Scanning(c) == call[c].stage = "scan"

Present == {n \in Names : files[n] # Absent}

McpInit ==
    /\ Init
    /\ EvidenceInit
    /\ call = [c \in Callers |-> Ready]
    /\ truth = <<>>
    /\ observed = 0
    /\ overtaken = FALSE
    /\ listing = NoAnswer

-----------------------------------------------------------------------------
(* scan_leaks: the inventory is taken first. *)
scan_leaks(c) ==
    /\ Free(c)
    /\ Len(truth) < MaxTakes
    /\ \E inventory \in Inventories :
          /\ truth' = Append(truth, inventory)
          /\ call' = [call EXCEPT ![c] = [stage |-> "scan", at |-> Len(truth) + 1]]
    /\ listing' = NoAnswer
    /\ UNCHANGED <<observed, overtaken, evidence_vars,
                   histories, candidates, samples>>

Overtakes(c) == \E d \in Callers : Scanning(d) /\ call[d].at < call[c].at

(* Then whoever gets the mutex observes, and answers with the candidates.   *)
build_scan_leaks_output(c) ==
    /\ Scanning(c)
    /\ observe_inventory(truth[call[c].at])
    /\ call' = [call EXCEPT ![c] = Ready]
    /\ observed' = call[c].at
    /\ overtaken' = (overtaken \/ Overtakes(c))
    /\ listing' = NoAnswer
    /\ UNCHANGED <<truth, evidence_vars>>

(* cleanup: run_once, with the evidence directory of the request. *)
cleanup(c) ==
    /\ Free(c)
    /\ \E now \in Seconds : BeginRunOnce(c, ConfigOf[c], now)
    /\ listing' = NoAnswer
    /\ UNCHANGED <<call_vars, histories, candidates, samples>>

CleanupStep(c) ==
    /\ PersistStep(c)
    /\ listing' = NoAnswer
    /\ UNCHANGED <<call_vars, histories, candidates, samples>>

Answer(ok, shown, c) ==
    /\ listing' = [ok |-> ok, shown |-> shown, kept |-> call[c].kept,
                   lost |-> call[c].lost]
    /\ call' = [call EXCEPT ![c] = Ready]

(* list_evidence: no directory, no files; otherwise it is read next. *)
list_evidence(c) ==
    /\ Free(c)
    /\ call' = [call EXCEPT ![c] =
                  IF has_dir THEN [stage |-> "read_dir", todo |-> {}, shown |-> {},
                                   kept |-> Present, lost |-> FALSE]
                  ELSE Ready]
    /\ listing' = NoAnswer
    /\ UNCHANGED <<truth, observed, overtaken, evidence_vars,
                   histories, candidates, samples>>

(* With the names that read_dir gave, each file is looked at. *)
Looking(todo, shown, c) ==
    [stage |-> "metadata", todo |-> todo, shown |-> shown,
     kept |-> call[c].kept, lost |-> call[c].lost]

(* Faulty: files that are being written are left out. *)
ReadDirSkipsEmpty(c) ==
    /\ call[c].stage = "read_dir"
    /\ IF has_dir
       THEN /\ call' = [call EXCEPT ![c] =
                           Looking({n \in Present : files[n] # Empty}, {}, c)]
            /\ listing' = NoAnswer
       ELSE Answer(FALSE, {}, c)
    /\ UNCHANGED <<truth, observed, overtaken, evidence_vars,
                   histories, candidates, samples>>

ReadDir(c) ==
    /\ call[c].stage = "read_dir"
    /\ IF has_dir
       THEN /\ call' = [call EXCEPT ![c] = Looking(Present, {}, c)]
            /\ listing' = NoAnswer
       ELSE Answer(FALSE, {}, c)
    /\ UNCHANGED <<truth, observed, overtaken, evidence_vars,
                   histories, candidates, samples>>

(* One entry that cannot be looked at fails the whole answer. *)
Metadata(c) ==
    /\ call[c].stage = "metadata"
    /\ \E n \in call[c].todo :
          IF n \in Present
          THEN /\ call' = [call EXCEPT ![c] = Looking(call[c].todo \ {n},
                                                         call[c].shown \cup {n}, c)]
               /\ listing' = NoAnswer
          ELSE Answer(FALSE, {}, c)
    /\ UNCHANGED <<truth, observed, overtaken, evidence_vars,
                   histories, candidates, samples>>

ListingDone(c) ==
    /\ call[c].stage = "metadata"
    /\ call[c].todo = {}
    /\ Answer(TRUE, call[c].shown, c)
    /\ UNCHANGED <<truth, observed, overtaken, evidence_vars,
                   histories, candidates, samples>>

(* The server ends with its calls and its detector; files stay as they are. *)
ServerRestart ==
    /\ Restart
    /\ call' = [c \in Callers |-> Ready]
    /\ writer' = [c \in Callers |-> Idle]
    /\ truth' = <<>>
    /\ observed' = 0
    /\ overtaken' = FALSE
    /\ listing' = NoAnswer
    /\ UNCHANGED <<has_dir, files>>

(* The user may remove evidence under a call that lists it. *)
Bereft(n) ==
    [c \in Callers |-> IF Listing(c)
                       THEN [call[c] EXCEPT !.kept = @ \ {n}, !.lost = TRUE]
                       ELSE call[c]]

UserRemoves ==
    /\ \E n \in Names : RemoveEvidence(n) /\ call' = Bereft(n)
    /\ listing' = NoAnswer
    /\ UNCHANGED <<truth, observed, overtaken,
                   histories, candidates, samples>>

UserRemovesDir ==
    /\ RemoveDir
    /\ call' = Bereft(<<>>)
    /\ listing' = NoAnswer
    /\ UNCHANGED <<truth, observed, overtaken,
                   histories, candidates, samples>>

CallStep(c) ==
    \/ scan_leaks(c) \/ build_scan_leaks_output(c)
    \/ cleanup(c) \/ CleanupStep(c)
    \/ list_evidence(c) \/ ReadDir(c) \/ Metadata(c) \/ ListingDone(c)

McpNext ==
    \/ \E c \in Callers : CallStep(c)
    \/ ServerRestart
    \/ UserRemoves \/ UserRemovesDir

McpSpec == McpInit /\ [][McpNext]_mcp_vars

-----------------------------------------------------------------------------
CallTypes ==
    {Ready}
    \cup [stage : {"scan"}, at : 1..Len(truth)]
    \cup [stage : {"read_dir", "metadata"}, todo : SUBSET Names,
          shown : SUBSET Names, kept : SUBSET Names, lost : BOOLEAN]

(* As long as no call has overtaken another, the inventories since the      *)
(* observed one are still held by calls, and the samples of a process are   *)
(* its part of those up to it, without a gap.                               *)
SamplesInOrder ==
    \/ overtaken
    \/ /\ \A i \in observed + 1 .. Len(truth) :
             \E c \in Callers : Scanning(c) /\ call[c].at = i
       /\ \A c \in Callers : Scanning(c) => call[c].at > observed
       /\ \A p \in Processes :
             /\ Seen(p) <= observed
             /\ \A j \in 1..Seen(p) :
                   Rss(p, j) = truth[observed - Seen(p) + j][p]

(* What a call of list_evidence has yet to show, unless it was removed. *)
ListingFollows(c) ==
    /\ call[c].stage = "read_dir" =>
          /\ call[c].kept \subseteq Present
          /\ call[c].lost \/ has_dir
    /\ call[c].stage = "metadata" =>
          /\ call[c].kept \subseteq call[c].shown \cup call[c].todo
          /\ call[c].lost \/ call[c].todo \subseteq Present

(* The server's memory tells what its calls have taken and observed, each   *)
(* call holds an inventory of its own, and all is typed.                    *)
McpIInv ==
    /\ DetectorIInv
    /\ truth \in Seq(Inventories)
    /\ observed \in 0..Len(truth)
    /\ overtaken \in BOOLEAN
    /\ call \in [Callers -> CallTypes]
    /\ DOMAIN files = Names
    /\ \A c, d \in Callers :
          Scanning(c) /\ Scanning(d) /\ call[c].at = call[d].at => c = d
    /\ SamplesInOrder
    /\ \A c \in Callers : ListingFollows(c)

(* From the i-th inventory on the memory never fell, nor grew by less than  *)
(* counts, and by the last observed one it grew by Required minimums.       *)
RoseFrom(p, i) ==
    /\ \A k \in i + 1 .. observed :
          \/ truth[k][p] = truth[k - 1][p]
          \/ truth[k][p] >= truth[k - 1][p] + MinimumGrowth
    /\ truth[observed][p] >= truth[i][p] + Required * MinimumGrowth

(* scan_leaks (mcp.rs): what a client is told to be growing really grew,    *)
(* from one inventory to the next in the order in which they were taken --  *)
(* unless calls ran at the same time and one that took its inventory later  *)
(* was first to get the mutex.                                              *)
ReportedGrowth ==
    \A p \in candidates : overtaken \/ \E i \in 1..observed : RoseFrom(p, i)

(* list_evidence (mcp.rs): an answer shows every file that was there all    *)
(* the time, whatever cleanups write meanwhile; and the tool only fails     *)
(* when somebody has removed evidence under it.                             *)
ListingTrue ==
    IF listing.ok THEN listing.kept \subseteq listing.shown ELSE listing.lost
=============================================================================
