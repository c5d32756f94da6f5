---------------------------- MODULE VectorSearch ----------------------------
(***************************************************************************)
(* Vector search over a projection: a projector maps log mutations to      *)
(* vector operations and applies them to an index; searches read the       *)
(* index and, through Store.SearchVectors, the projector's status.         *)
(*                                                                         *)
(* The index is an ExactVectorIndex (memory only) or a FileVectorIndex (a  *)
(* file per node, read back on start).  An entry is represented by the     *)
(* sequence number of the upsert it comes from.  How the runtime picks     *)
(* events and saves checkpoints is ProjectorRuntime's business: here one   *)
(* worker takes the event after its checkpoint.                            *)
(***************************************************************************)
EXTENDS Integers, Sequences

CONSTANTS
    Nodes,
    Searches,       \* the searches, each made once
    Persistent,     \* the index is a FileVectorIndex
    MaxSeq          \* bound on the mutations

ASSUME PersistentAssumption == Persistent \in BOOLEAN
ASSUME MaxSeqAssumption == MaxSeq \in Nat

VARIABLES
    log,            \* what the mapper makes of each mutation
    files,          \* the .kvec file of each node: its source_seq, or 0
    entries,        \* the index's entries in memory, likewise
    indexSeq,       \* the index's indexedSeq
    saved,          \* the projector's checkpoint file
    indexed,        \* its checkpoint in memory
    worker,         \* how far the worker is with event indexed + 1
    search          \* the searches

vars == <<log, files, entries, indexSeq, saved, indexed, worker, search>>

\* "skip": the mapper returns ok = FALSE, as for every mutation without a vector.
Operation == [kind : {"upsert", "delete", "skip"}, node : Nodes]

\* What a search asked and has been told.  `seen` is the projector's
\* checkpoint when the index was read: what a caller may have waited for.
Search == [at : {"idle", "read", "done", "direct"},
           min : 0..MaxSeq,
           hits : [Nodes -> 0..MaxSeq],
           indexedSeq : 0..MaxSeq,
           stale : BOOLEAN,
           seen : 0..MaxSeq]

NoEntries == [n \in Nodes |-> 0]
Idle == [at |-> "idle", min |-> 0, hits |-> NoEntries, indexedSeq |-> 0,
         stale |-> FALSE, seen |-> 0]

TypeOK ==
    /\ log \in Seq(Operation)
    /\ Len(log) <= MaxSeq
    /\ files \in [Nodes -> 0..MaxSeq]
    /\ entries \in [Nodes -> 0..MaxSeq]
    /\ indexSeq \in 0..MaxSeq
    /\ saved \in 0..MaxSeq
    /\ indexed \in 0..MaxSeq
    /\ worker \in {"idle", "applied", "saved"}
    /\ search \in [Searches -> Search]

Init ==
    /\ log = <<>>
    /\ files = NoEntries
    /\ entries = NoEntries
    /\ indexSeq = 0
    /\ saved = 0
    /\ indexed = 0
    /\ worker = "idle"
    /\ search = [s \in Searches |-> Idle]

-----------------------------------------------------------------------------
\* The store appends a mutation.
Apply ==
    /\ Len(log) < MaxSeq
    /\ \E op \in Operation : log' = Append(log, op)
    /\ UNCHANGED <<files, entries, indexSeq, saved, indexed, worker, search>>

(***************************************************************************)
(* ApplyVectorOperation for event indexed + 1, the operation's SourceSeq.  *)
(* The index's mutex is held, so a search sees all of it or nothing.       *)
(***************************************************************************)
Event == indexed + 1
Pending == worker = "idle" /\ Event <= Len(log)

\* writeEntry, deleteEntry, or the map's counterpart.
Installed(index, op, seq) ==
    IF op.kind = "skip" THEN index
    ELSE [index EXCEPT ![op.node] = IF op.kind = "upsert" THEN seq ELSE 0]

\* Mutant: a delete forgets the file.
ProjectKeepsFile ==
    /\ Pending
    /\ entries' = Installed(entries, log[Event], Event)
    /\ files' = IF log[Event].kind = "delete" THEN files
                ELSE Installed(files, log[Event], Event)
    /\ indexSeq' = IF log[Event].kind # "skip" /\ Event > indexSeq
                   THEN Event ELSE indexSeq
    /\ worker' = "applied"
    /\ UNCHANGED <<log, saved, indexed, search>>

Project ==
    /\ Pending
    /\ entries' = Installed(entries, log[Event], Event)
    /\ files' = IF Persistent THEN Installed(files, log[Event], Event) ELSE files
    /\ indexSeq' = IF log[Event].kind # "skip" /\ Event > indexSeq
                   THEN Event ELSE indexSeq
    /\ worker' = "applied"
    /\ UNCHANGED <<log, saved, indexed, search>>

\* Mutant: the index's watermark moves although the file could not be written.
ProjectFailsCounted ==
    /\ Pending
    /\ Persistent
    /\ indexSeq' = Event
    /\ UNCHANGED <<log, files, entries, saved, indexed, worker, search>>

\* The rename or the removal is done, but syncDirectory fails: the file is
\* new, the entry in memory old, and the event will be projected again.  A
\* failure before that changes nothing.
ProjectFails ==
    /\ Pending
    /\ Persistent
    /\ files' = Installed(files, log[Event], Event)
    /\ UNCHANGED <<log, entries, indexSeq, saved, indexed, worker, search>>

\* Mutant: the checkpoint is saved before the event is projected.
SaveFirst ==
    /\ Pending
    /\ saved' = Event
    /\ worker' = "saved"
    /\ UNCHANGED <<log, files, entries, indexSeq, indexed, search>>

SaveCheckpoint ==
    /\ worker = "applied"
    /\ saved' = Event
    /\ worker' = "saved"
    /\ UNCHANGED <<log, files, entries, indexSeq, indexed, search>>

\* An error before or after the checkpoint file is in place: the event is
\* projected again.
SaveFails ==
    /\ worker = "applied"
    /\ saved' \in {saved, Event}
    /\ worker' = "idle"
    /\ UNCHANGED <<log, files, entries, indexSeq, indexed, search>>

Advance ==
    /\ worker = "saved"
    /\ indexed' = Event
    /\ worker' = "idle"
    /\ UNCHANGED <<log, files, entries, indexSeq, saved, search>>

\* seq is the largest source_seq of the files that are there (load).
IsLargest(seq, index) ==
    /\ \A n \in Nodes : index[n] <= seq
    /\ seq = 0 \/ \E n \in Nodes : index[n] = seq

\* The process dies and starts again: Open reads the checkpoint, load the
\* files; searches under way are lost.  Without Persistent no file was written.
Restart ==
    /\ entries' = files
    /\ \E seq \in 0..MaxSeq : IsLargest(seq, files) /\ indexSeq' = seq
    /\ indexed' = saved
    /\ worker' = "idle"
    /\ search' = [s \in Searches |->
                     IF search[s].at = "read" THEN Idle ELSE search[s]]
    /\ UNCHANGED <<log, files, saved>>

-----------------------------------------------------------------------------
(***************************************************************************)
(* Searches.  Filters, scores and expansions are left out: hits are the    *)
(* index's entries.                                                        *)
(***************************************************************************)
Read(s, min, at) ==
    /\ search[s].at = "idle"
    /\ search' = [search EXCEPT ![s] =
                     [at |-> at, min |-> min, hits |-> entries,
                      indexedSeq |-> indexSeq, stale |-> min > indexSeq,
                      seen |-> indexed]]
    /\ UNCHANGED <<log, files, entries, indexSeq, saved, indexed, worker>>

\* A search that names no projector is the index's own answer.
SearchDirect(s) == \E min \in 0..MaxSeq : Read(s, min, "direct")

\* Store.SearchVectors calls the index,
SearchIndex(s) == \E min \in 0..MaxSeq : Read(s, min, "read")

\* and then takes Store.mu and puts the projector's status over the answer's.
SearchStatus(s) ==
    /\ search[s].at = "read"
    /\ search' = [search EXCEPT ![s].at = "done",
                                ![s].indexedSeq = indexed,
                                ![s].stale = search[s].min > indexed]
    /\ UNCHANGED <<log, files, entries, indexSeq, saved, indexed, worker>>

Worker == Project \/ ProjectFails \/ SaveCheckpoint \/ SaveFails \/ Advance

Next ==
    \/ Apply
    \/ Worker
    \/ Restart
    \/ \E s \in Searches : SearchDirect(s) \/ SearchIndex(s) \/ SearchStatus(s)

Spec == Init /\ [][Next]_vars

-----------------------------------------------------------------------------
(***************************************************************************)
(* What the entries should be: those of the first n mutations.             *)
(***************************************************************************)
Is(kind, k, n) == log[k].kind = kind /\ log[k].node = n

Live(k, n, last) ==
    /\ Is("upsert", k, n)
    /\ \A j \in (k + 1)..last : ~Is("upsert", j, n) /\ ~Is("delete", j, n)

\* The entry of each node is its last upsert if no delete came after it.
Current(index, last) ==
    \A n \in Nodes :
        IF index[n] = 0 THEN \A k \in 1..last : ~Live(k, n, last)
        ELSE index[n] \in 1..last /\ Live(index[n], n, last)

Reflects(index, seq) == \E last \in seq..Len(log) : Current(index, last)

\* Across restarts, failed writes and retries, the index and its files hold
\* the mutations up to the checkpoint, or one more; no deleted vector comes
\* back and none gets lost (ApplyVectorOperation, load).
IndexCovers ==
    \A index \in {files, entries} :
        \/ Current(index, indexed)
        \/ Event <= Len(log) /\ Current(index, Event)

\* Whoever waited until the projector had indexed a mutation, and searches
\* then, gets an answer with that mutation in it, whichever way it asks
\* (WaitForProjection, then SearchVectors).
SearchCovers ==
    \A s \in Searches :
        search[s].at # "idle" => Reflects(search[s].hits, search[s].seen)

\* The index's own answer holds the mutations up to the IndexedSeq it names,
\* so one it calls fresh is (FileVectorIndex.SearchVectors).
DirectSound ==
    \A s \in Searches :
        search[s].at = "direct" =>
            /\ Reflects(search[s].hits, search[s].indexedSeq)
            /\ ~search[s].stale => Reflects(search[s].hits, search[s].min)

\* The Store's answer, when it is not called stale, holds the mutations up to
\* the MinIndexedSeq the caller asked for (Store.SearchVectors).
FreshIsFresh ==
    \A s \in Searches :
        search[s].at = "done" /\ ~search[s].stale =>
            Reflects(search[s].hits, search[s].min)

-----------------------------------------------------------------------------
(***************************************************************************)
(* The inductive invariant.                                                *)
(***************************************************************************)
\* The checkpoint file is the checkpoint or one event ahead, in the log.
PositionSound ==
    /\ indexed <= Len(log) /\ saved <= Len(log)
    /\ saved \in {indexed, Event}
    /\ worker # "idle" => Event <= Len(log)
    /\ worker = "saved" => saved = Event

\* What has been done for the event the worker handles is in the index, and
\* what the checkpoint file or the watermark claims is there.
EventSound ==
    /\ worker # "idle" => Current(files, Event) /\ Current(entries, Event)
    /\ saved = Event => Current(files, Event)
    /\ indexSeq <= Event
    /\ indexSeq = Event => Event <= Len(log) /\ Current(entries, Event)

\* Index, files, checkpoint and watermark agree, and every answer given is
\* still right when the log has grown.
IndexInv ==
    /\ TypeOK
    /\ PositionSound
    /\ IndexCovers
    /\ EventSound
    /\ SearchCovers
    /\ DirectSound
=============================================================================
