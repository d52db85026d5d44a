--------------------------- MODULE CompletionStore ---------------------------
(***************************************************************************)
(* The dedupe store of completion events (src/src/completion.rs) as        *)
(* operators on its value: a function from dedupe keys to entries.  The    *)
(* Rust BTreeMap is partial; here a key without an entry holds NoEntry.    *)
(***************************************************************************)
EXTENDS Naturals

CONSTANTS
    Keys,       \* the dedupe keys that events can have
    DedupeTtl   \* completion.dedupe_ttl_secs

Entry == [state : {"absent", "pending", "processed"}, updated_at : Nat]

NoEntry      == [state |-> "absent", updated_at |-> 0]
Pending(t)   == [state |-> "pending", updated_at |-> t]
Processed(t) == [state |-> "processed", updated_at |-> t]

Store == [Keys -> Entry]

EmptyStore == [k \in Keys |-> NoEntry]

-----------------------------------------------------------------------------
(* u64::saturating_sub *)
SaturatingSub(a, b) == IF a > b THEN a - b ELSE 0

(* Faulty: an entry whose age is exactly the TTL is taken for expired. *)
WithinTtlExclusive(entry, now) ==
    SaturatingSub(now, entry.updated_at) < DedupeTtl

(* An entry whose age is exactly the TTL still counts. *)
WithinTtl(entry, now) == SaturatingSub(now, entry.updated_at) <= DedupeTtl

(* Faulty: a completion is remembered for ever. *)
IsDuplicateForEver(store, key, now) == store[key].state = "processed"

IsDuplicate(store, key, now) ==
    store[key].state = "processed" /\ WithinTtl(store[key], now)

(* Faulty: a pending entry keeps the instant of its first attempt. *)
BeginKeepsPending(store, key, now) ==
    IF IsDuplicate(store, key, now) \/ store[key].state = "pending" THEN store
    ELSE [store EXCEPT ![key] = Pending(now)]

(* What begin leaves in the store: a duplicate keeps its entry and its age, *)
(* every other outcome leaves a pending entry of this instant.              *)
begin(store, key, now) ==
    IF IsDuplicate(store, key, now) THEN store
    ELSE [store EXCEPT ![key] = Pending(now)]

mark_processed(store, key, now) == [store EXCEPT ![key] = Processed(now)]

(* Faulty: pending entries expire as well. *)
PurgeAllExpired(store, now) ==
    [k \in Keys |-> IF WithinTtl(store[k], now) THEN store[k] ELSE NoEntry]

(* Pending entries never expire. *)
purge_expired(store, now) ==
    [k \in Keys |-> IF store[k].state = "pending" \/ WithinTtl(store[k], now)
                    THEN store[k] ELSE NoEntry]

(* A store file: absent, opened for writing but not written, or complete.  *)
(* Its store component is the value given to the last persist.             *)
StateFile == [kind : {"missing", "torn", "complete"}, store : Store]

NoStateFile == [kind |-> "missing", store |-> EmptyStore]

(* load_completion_state answers an error for a file it cannot parse... *)
loadable(file) == file.kind # "torn"

(* Faulty: the keys without an entry are lost. *)
LoadPresentOnly(file) ==
    IF file.kind = "complete"
    THEN [k \in {k \in Keys : file.store[k].state # "absent"} |-> file.store[k]]
    ELSE EmptyStore

(* ...and an empty store for a file that does not exist. *)
load_completion_state(file) ==
    IF file.kind = "complete" THEN file.store ELSE EmptyStore

(* persist_completion_state truncates the file, then writes it. *)
truncated(store) == [kind |-> "torn", store |-> store]
written(file)    == [file EXCEPT !.kind = "complete"]
=============================================================================
