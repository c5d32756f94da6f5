------------------------------ MODULE KiloStore ------------------------------
(***************************************************************************)
(* The durable core of a Kilo store: the active segment log, the catalog   *)
(* snapshot and the compaction manifest on disk; the catalog and its       *)
(* watermarks in memory; and the operations that move between them         *)
(* (Open, Apply, WriteSnapshot, Compact, Close), with the I/O errors each  *)
(* one returns and a process crash between any two of their disk steps.    *)
(*                                                                         *)
(* A mutation is an opaque value: what it does to records, nodes or chunks *)
(* is another module's business.  The catalog is represented by the set of *)
(* (sequence, mutation) pairs that were applied to obtain it, so a lost, a *)
(* duplicated or a reordered mutation is visible in it.                    *)
(***************************************************************************)
EXTENDS Integers, Sequences

CONSTANTS
    Mutations,         \* the mutations callers submit
    Keyed,             \* those that carry an idempotency key (their own)
    Oversized,         \* those whose frame replay() will not read: a line
                       \* above 64 MiB is "token too long", Append has no limit
    Fragment,          \* an undecodable line: part of a frame, or two merged
    Snapshotters,      \* goroutines that call WriteSnapshot
    Faults,            \* the I/O errors the environment may inject
    CallersSerialize,  \* callers never Compact while a WriteSnapshot runs
    MaxSeq,            \* bound on the sequence numbers of a behaviour
    MaxFrames          \* bound on the lines of the active segment

(***************************************************************************)
(* "write" and "torn": write(2) fails with nothing, or with part of the    *)
(* frame, in the file.  "sync": the frame is written and fsync fails.      *)
(* "snapshot" and "compact": a step of writing a snapshot file, or of      *)
(* Compact, returns an error.                                              *)
(***************************************************************************)
FaultKinds == {"write", "torn", "sync", "snapshot", "compact"}

ASSUME KeyedAssumption == Keyed \subseteq Mutations
ASSUME OversizedAssumption == Oversized \subseteq Mutations
ASSUME FragmentAssumption == Fragment \notin Mutations
ASSUME FaultsAssumption == Faults \subseteq FaultKinds
ASSUME SerializeAssumption == CallersSerialize \in BOOLEAN
ASSUME BoundsAssumption == MaxSeq \in Nat /\ MaxFrames \in Nat

VARIABLES
    \* On disk.
    segment,        \* segments/...: header, its base sequence, and frames
    snapshot,       \* snapshots/catalog...: the installed catalog snapshot
    manifestSeq,    \* compacted_seq of the newest compaction manifest, or 0
    \* In memory, of the store that owns the path.
    status,         \* "closed", "replaying" (inside Open), "open", "refused"
    catalog,        \* the mutations applied, with their sequence numbers
    durableSeq,
    snapshotSeq,
    compactionSeq,
    nextSeq,        \* Log.nextSeq
    logOpen,        \* Log.file # nil
    replayAt,       \* the next frame Open replays
    compactStep,    \* how far the Compact that holds Store.mu has come
    snapshotter,    \* the WriteSnapshot calls in flight
    \* Observation only.
    acked           \* the (sequence, mutation) pairs Apply has returned

disk == <<segment, snapshot, manifestSeq>>
memory == <<status, catalog, durableSeq, snapshotSeq, compactionSeq, nextSeq,
            logOpen, replayAt>>
vars == <<disk, memory, compactStep, snapshotter, acked>>

Entry == [seq : Nat, mut : Mutations]
Frame == [seq : Nat, mut : Mutations \union {Fragment}]
\* The header line: there is no file yet, its creation was cut short, or it
\* is there.  base is what it says, or what it will say.
Segment == [header : {"none", "partial", "whole"},
            base : Nat \ {0}, frames : Seq(Frame)]
Snapshot == [seq : Nat, entries : SUBSET Entry]
Writer == [phase : {"idle", "copied", "installed"},
           data : Snapshot, current : BOOLEAN]

\* A missing snapshot file and a snapshot of the empty catalog load alike.
NoSnapshot == [seq |-> 0, entries |-> {}]
Idle == [phase |-> "idle", data |-> NoSnapshot, current |-> FALSE]

TypeOK ==
    /\ segment \in Segment
    /\ snapshot \in Snapshot
    /\ manifestSeq \in Nat
    /\ status \in {"closed", "replaying", "open", "refused"}
    /\ catalog \in SUBSET Entry
    /\ durableSeq \in Nat
    /\ snapshotSeq \in Nat
    /\ compactionSeq \in Nat
    /\ nextSeq \in Nat
    /\ logOpen \in BOOLEAN
    /\ replayAt \in Nat
    /\ compactStep \in {"idle", "snapshotted", "truncated"}
    /\ snapshotter \in [Snapshotters -> Writer]
    /\ acked \in SUBSET Entry

-----------------------------------------------------------------------------
(***************************************************************************)
(* The segment file.                                                       *)
(***************************************************************************)
\* replay() accepts the file, which Open has made if there was none: the
\* header is whole, every line decodes, sequences are contiguous.
Replayable(seg) ==
    /\ seg.header # "partial"
    /\ \A i \in 1..Len(seg.frames) :
          /\ seg.frames[i].mut \notin {Fragment} \union Oversized
          /\ seg.frames[i].seq = seg.base + i - 1

\* The expected sequence replay() returns for a file it accepts.
EndSeq(seg) == seg.base + Len(seg.frames)

\* An unfinished line stays at the end of the file, and what is written next
\* is read back as one undecodable line with it.  No file with such a line is
\* ever replayed, so what follows it is not kept apart.
TornTail(seg) ==
    /\ Len(seg.frames) > 0
    /\ seg.frames[Len(seg.frames)].mut = Fragment

WriteLine(seg, n, m) ==
    IF TornTail(seg) THEN seg
    ELSE [seg EXCEPT !.frames = Append(@, [seq |-> n, mut |-> m])]

\* Mutant: the new header names the last removed frame, not the one after it.
TruncatedBaseLow(seg, n) ==
    [header |-> "whole", base |-> n,
     frames |-> SubSeq(seg.frames, n - seg.base + 2, Len(seg.frames))]

\* The segment CompactThrough(n) installs: the frames after n, base n + 1.
Truncated(seg, n) ==
    [header |-> "whole", base |-> n + 1,
     frames |-> SubSeq(seg.frames, n - seg.base + 2, Len(seg.frames))]

\* createSegment, if there is no file yet.
Created(seg) == [seg EXCEPT !.header = "whole"]

\* CompactThrough(n) reaches its rename: it can replay the file, and at least
\* one frame is at or before n.
CanTruncate(seg, n) ==
    /\ logOpen
    /\ n < nextSeq
    /\ Replayable(seg)
    /\ Len(seg.frames) > 0
    /\ seg.base <= n

\* Mutant: results are not kept by key.
RememberedNever(m) == {}

\* idempotency[m.IdempotencyKey]: the result of an earlier Apply of m.
Remembered(m) == {e \in catalog : e.mut = m /\ m \in Keyed}

-----------------------------------------------------------------------------
Init ==
    /\ segment = [header |-> "none", base |-> 1, frames |-> <<>>]
    /\ snapshot = NoSnapshot
    /\ manifestSeq = 0
    /\ status = "closed"
    /\ catalog = {}
    /\ durableSeq = 0
    /\ snapshotSeq = 0
    /\ compactionSeq = 0
    /\ nextSeq = 0
    /\ logOpen = FALSE
    /\ replayAt = 0
    /\ compactStep = "idle"
    /\ snapshotter = [w \in Snapshotters |-> Idle]
    /\ acked = {}

\* What a Store held is gone when it is closed, refused or its process dies.
ForgetMemory ==
    /\ catalog' = {}
    /\ durableSeq' = 0
    /\ snapshotSeq' = 0
    /\ compactionSeq' = 0
    /\ nextSeq' = 0
    /\ logOpen' = FALSE
    /\ replayAt' = 0

-----------------------------------------------------------------------------
(***************************************************************************)
(* Open.  The owner lock is held from here to Close, so there is one Store *)
(* at a time.                                                              *)
(***************************************************************************)
\* Mutant: a snapshot that reaches exactly the manifest is rejected.
LoadFailsAtBoundary == ~Replayable(segment) \/ snapshot.seq <= manifestSeq

LoadFails == ~Replayable(segment) \/ snapshot.seq < manifestSeq

\* Open fails or its process dies inside createSegment: the file is empty, or
\* holds part of the header, and later Opens find it there.
CreateFails ==
    /\ status = "closed"
    /\ segment.header = "none"
    /\ segment' = [segment EXCEPT !.header = "partial"]
    /\ UNCHANGED <<snapshot, manifestSeq, memory, compactStep, snapshotter,
                   acked>>

OpenRefused ==
    /\ status = "closed"
    /\ LoadFails
    /\ status' = "refused"
    /\ UNCHANGED <<disk, catalog, durableSeq, snapshotSeq, compactionSeq,
                   nextSeq, logOpen, replayAt, compactStep, snapshotter,
                   acked>>

OpenLoad ==
    /\ status \in {"closed", "refused"}
    /\ ~LoadFails
    /\ status' = "replaying"
    /\ segment' = Created(segment)
    /\ catalog' = snapshot.entries
    /\ durableSeq' = snapshot.seq
    /\ snapshotSeq' = snapshot.seq
    /\ compactionSeq' = manifestSeq
    /\ nextSeq' = EndSeq(segment)
    /\ logOpen' = TRUE
    /\ replayAt' = 1
    /\ UNCHANGED <<snapshot, manifestSeq, compactStep, snapshotter, acked>>

\* Mutant: the comparison with durableSeq also drops the frame after it.
ReplaySkipsOneMore ==
    /\ status = "replaying"
    /\ replayAt <= Len(segment.frames)
    /\ LET f == segment.frames[replayAt]
       IN IF f.seq <= durableSeq + 1 /\ durableSeq > 0
          THEN UNCHANGED <<catalog, durableSeq>>
          ELSE /\ catalog' = catalog \union {f}
               /\ durableSeq' = f.seq
    /\ replayAt' = replayAt + 1
    /\ UNCHANGED <<disk, status, snapshotSeq, compactionSeq, nextSeq, logOpen,
                   compactStep, snapshotter, acked>>

\* One turn of Open's loop over the replayed entries: a frame the snapshot
\* covers only feeds the projection queue, one whose key is already known is
\* dropped, any other is applied.
ReplayEntry ==
    /\ status = "replaying"
    /\ replayAt <= Len(segment.frames)
    /\ LET f == segment.frames[replayAt]
       IN IF f.seq <= durableSeq \/ Remembered(f.mut) # {}
          THEN UNCHANGED <<catalog, durableSeq>>
          ELSE /\ catalog' = catalog \union {f}
               /\ durableSeq' = f.seq
    /\ replayAt' = replayAt + 1
    /\ UNCHANGED <<disk, status, snapshotSeq, compactionSeq, nextSeq, logOpen,
                   compactStep, snapshotter, acked>>

OpenDone ==
    /\ status = "replaying"
    /\ replayAt > Len(segment.frames)
    /\ status' = "open"
    /\ replayAt' = 0
    /\ UNCHANGED <<disk, catalog, durableSeq, snapshotSeq, compactionSeq,
                   nextSeq, logOpen, compactStep, snapshotter, acked>>

\* A WriteSnapshot in flight is not waited for: it goes on, but the Store it
\* will update is no longer the one that is open.
Close ==
    /\ status = "open"
    /\ compactStep = "idle"
    /\ status' = "closed"
    /\ ForgetMemory
    /\ snapshotter' = [w \in Snapshotters |->
                          [snapshotter[w] EXCEPT !.current = FALSE]]
    /\ UNCHANGED <<disk, compactStep, acked>>

\* The process dies; what reached the files stays there.
Crash ==
    /\ status' = "closed"
    /\ ForgetMemory
    /\ compactStep' = "idle"
    /\ snapshotter' = [w \in Snapshotters |-> Idle]
    /\ UNCHANGED <<disk, acked>>

-----------------------------------------------------------------------------
(***************************************************************************)
(* Apply.  Store.mu is held throughout, so one call is one step; a crash   *)
(* or an error inside Log.Append leaves what it had written.               *)
(***************************************************************************)
ApplyIdempotent(m) ==
    /\ status = "open"
    /\ compactStep = "idle"
    /\ \E e \in Remembered(m) : acked' = acked \union {e}
    /\ UNCHANGED <<disk, memory, compactStep, snapshotter>>

\* The part of Apply that precedes Log.Append's write.
AppendReady(m) ==
    /\ status = "open"
    /\ compactStep = "idle"
    /\ Remembered(m) = {}
    /\ durableSeq < MaxSeq
    /\ Len(segment.frames) < MaxFrames
    /\ logOpen
    /\ nextSeq = durableSeq + 1

\* Mutant: the frame is buffered, not written, before the caller is answered.
ApplyBuffered(m) ==
    /\ AppendReady(m)
    /\ LET e == [seq |-> durableSeq + 1, mut |-> m]
       IN /\ catalog' = catalog \union {e}
          /\ acked' = acked \union {e}
    /\ durableSeq' = durableSeq + 1
    /\ nextSeq' = nextSeq + 1
    /\ UNCHANGED <<disk, status, snapshotSeq, compactionSeq, logOpen, replayAt,
                   compactStep, snapshotter>>

ApplyCommit(m) ==
    /\ AppendReady(m)
    /\ LET e == [seq |-> durableSeq + 1, mut |-> m]
       IN /\ catalog' = catalog \union {e}
          /\ acked' = acked \union {e}
    /\ segment' = WriteLine(segment, durableSeq + 1, m)
    /\ durableSeq' = durableSeq + 1
    /\ nextSeq' = nextSeq + 1
    /\ UNCHANGED <<snapshot, manifestSeq, status, snapshotSeq, compactionSeq,
                   logOpen, replayAt, compactStep, snapshotter>>

\* Append returns an error.  nextSeq is not advanced and the file is not
\* rewound, whatever had reached it.
ApplyFails(m) ==
    /\ AppendReady(m)
    /\ \/ /\ "write" \in Faults
          /\ UNCHANGED segment
       \/ /\ "torn" \in Faults
          /\ segment' = WriteLine(segment, durableSeq + 1, Fragment)
       \/ /\ "sync" \in Faults
          /\ segment' = WriteLine(segment, durableSeq + 1, m)
    /\ UNCHANGED <<snapshot, manifestSeq, memory, compactStep, snapshotter,
                   acked>>

\* The process dies inside Append with part of the frame, or all of it, in
\* the file and nothing returned to the caller.
CrashInApply(m) ==
    /\ AppendReady(m)
    /\ \E line \in {m, Fragment} :
          segment' = WriteLine(segment, durableSeq + 1, line)
    /\ status' = "closed"
    /\ ForgetMemory
    /\ snapshotter' = [w \in Snapshotters |-> Idle]
    /\ UNCHANGED <<snapshot, manifestSeq, compactStep, acked>>

-----------------------------------------------------------------------------
(***************************************************************************)
(* WriteSnapshot: copy under the read lock, write and rename with no lock, *)
(* then take the lock to raise snapshotSeq.                                *)
(***************************************************************************)
SnapshotCopy(w) ==
    /\ status = "open"
    /\ compactStep = "idle"
    /\ snapshotter[w].phase = "idle"
    /\ snapshotter' = [snapshotter EXCEPT ![w] =
            [phase |-> "copied", current |-> TRUE,
             data |-> [seq |-> durableSeq, entries |-> catalog]]]
    /\ UNCHANGED <<disk, memory, compactStep, acked>>

SnapshotInstall(w) ==
    /\ snapshotter[w].phase = "copied"
    /\ snapshot' = snapshotter[w].data
    /\ snapshotter' = [snapshotter EXCEPT ![w].phase = "installed"]
    /\ UNCHANGED <<segment, manifestSeq, memory, compactStep, acked>>

SnapshotRecord(w) ==
    /\ snapshotter[w].phase = "installed"
    /\ compactStep = "idle"
    /\ snapshotSeq' = IF /\ snapshotter[w].current
                         /\ snapshotter[w].data.seq > snapshotSeq
                      THEN snapshotter[w].data.seq ELSE snapshotSeq
    /\ snapshotter' = [snapshotter EXCEPT ![w] = Idle]
    /\ UNCHANGED <<disk, status, catalog, durableSeq, compactionSeq, nextSeq,
                   logOpen, replayAt, compactStep, acked>>

\* Mutant: the file is written in place, so an error leaves it empty.
SnapshotFailsInPlace(w) ==
    /\ "snapshot" \in Faults
    /\ snapshotter[w].phase = "copied"
    /\ snapshot' = NoSnapshot
    /\ snapshotter' = [snapshotter EXCEPT ![w] = Idle]
    /\ UNCHANGED <<segment, manifestSeq, memory, compactStep, acked>>

\* An error before the rename, or from syncing the directory after it.
SnapshotFails(w) ==
    /\ "snapshot" \in Faults
    /\ snapshotter[w].phase = "copied"
    /\ snapshot' \in {snapshot, snapshotter[w].data}
    /\ snapshotter' = [snapshotter EXCEPT ![w] = Idle]
    /\ UNCHANGED <<segment, manifestSeq, memory, compactStep, acked>>

-----------------------------------------------------------------------------
(***************************************************************************)
(* Compact.  Store.mu is held from the first step to the last, so no other *)
(* locked operation runs in between; the steps are apart because a crash,  *)
(* an error or an unlocked WriteSnapshot can fall between them.  Whether   *)
(* the projectors are ready is ProjectorRuntime's business: here a Compact *)
(* they hold back is one that does not happen.                             *)
(***************************************************************************)
\* Mutant: Compact relies on an earlier WriteSnapshot and writes none itself.
CompactWithoutSnapshot ==
    /\ status = "open"
    /\ compactStep = "idle"
    /\ durableSeq # 0
    /\ CallersSerialize => \A w \in Snapshotters : snapshotter[w].phase = "idle"
    /\ compactStep' = "snapshotted"
    /\ UNCHANGED <<disk, memory, snapshotter, acked>>

CompactWriteSnapshot ==
    /\ status = "open"
    /\ compactStep = "idle"
    /\ durableSeq # 0
    /\ CallersSerialize => \A w \in Snapshotters : snapshotter[w].phase = "idle"
    /\ snapshot' = [seq |-> durableSeq, entries |-> catalog]
    /\ compactStep' = "snapshotted"
    /\ UNCHANGED <<segment, manifestSeq, memory, snapshotter, acked>>

\* Mutant: the reopened log starts counting afresh.
CompactForgetsNext ==
    /\ compactStep = "snapshotted"
    /\ CanTruncate(segment, durableSeq)
    /\ segment' = Truncated(segment, durableSeq)
    /\ nextSeq' = 1
    /\ compactStep' = "truncated"
    /\ UNCHANGED <<snapshot, manifestSeq, status, catalog, durableSeq,
                   snapshotSeq, compactionSeq, logOpen, replayAt, snapshotter,
                   acked>>

CompactTruncate ==
    /\ compactStep = "snapshotted"
    /\ CanTruncate(segment, durableSeq)
    /\ segment' = Truncated(segment, durableSeq)
    /\ nextSeq' = EndSeq(segment')
    /\ compactStep' = "truncated"
    /\ UNCHANGED <<snapshot, manifestSeq, status, catalog, durableSeq,
                   snapshotSeq, compactionSeq, logOpen, replayAt, snapshotter,
                   acked>>

CompactInstallManifest ==
    /\ compactStep = "truncated"
    /\ manifestSeq' = durableSeq
    /\ snapshotSeq' = durableSeq
    /\ compactionSeq' = durableSeq
    /\ compactStep' = "idle"
    /\ UNCHANGED <<segment, snapshot, status, catalog, durableSeq, nextSeq,
                   logOpen, replayAt, snapshotter, acked>>

\* CompactThrough rejects the segment; the new snapshot file stays.
CompactRejected ==
    /\ compactStep = "snapshotted"
    /\ ~CanTruncate(segment, durableSeq)
    /\ compactStep' = "idle"
    /\ UNCHANGED <<disk, memory, snapshotter, acked>>

\* CompactThrough fails before it closes the file; or with the file closed,
\* before the rename or after it.
CompactThroughFails ==
    /\ "compact" \in Faults
    /\ compactStep = "snapshotted"
    /\ CanTruncate(segment, durableSeq)
    /\ \/ UNCHANGED <<segment, logOpen>>
       \/ /\ segment' \in {segment, Truncated(segment, durableSeq)}
          /\ logOpen' = FALSE
    /\ compactStep' = "idle"
    /\ UNCHANGED <<snapshot, manifestSeq, status, catalog, durableSeq,
                   snapshotSeq, compactionSeq, nextSeq, replayAt, snapshotter,
                   acked>>

\* Writing the manifest fails before its rename, or syncing after it.
CompactManifestFails ==
    /\ "compact" \in Faults
    /\ compactStep = "truncated"
    /\ manifestSeq' \in {manifestSeq, durableSeq}
    /\ compactStep' = "idle"
    /\ UNCHANGED <<segment, snapshot, memory, snapshotter, acked>>

-----------------------------------------------------------------------------
OpenNext == CreateFails \/ OpenRefused \/ OpenLoad \/ ReplayEntry \/ OpenDone

ApplyNext ==
    \E m \in Mutations : \/ ApplyIdempotent(m)
                         \/ ApplyCommit(m)
                         \/ ApplyFails(m)
                         \/ CrashInApply(m)

SnapshotNext ==
    \E w \in Snapshotters : \/ SnapshotCopy(w)
                            \/ SnapshotInstall(w)
                            \/ SnapshotRecord(w)
                            \/ SnapshotFails(w)

CompactNext ==
    \/ CompactWriteSnapshot
    \/ CompactTruncate
    \/ CompactInstallManifest
    \/ CompactRejected
    \/ CompactThroughFails
    \/ CompactManifestFails

Next ==
    \/ OpenNext
    \/ ApplyNext
    \/ SnapshotNext
    \/ CompactNext
    \/ Close
    \/ Crash

Spec == Init /\ [][Next]_vars
-----------------------------------------------------------------------------
(***************************************************************************)
(* Properties.                                                             *)
(***************************************************************************)
\* Every mutation whose Apply returned success, in this process or in one
\* before it, is in the catalog of any Store that opens: no crash, restart,
\* compaction or snapshot loses it (Open's replay, Compact's truncation).
AckedNeverLost == status = "open" => acked \subseteq catalog

\* The catalog of an open Store is built from exactly the sequence numbers
\* 1..durableSeq, each once: replay leaves no gap and applies nothing twice.
CatalogContiguous ==
    status = "open" =>
        /\ {e.seq : e \in catalog} = 1..durableSeq
        /\ \A e, f \in catalog : e.seq = f.seq => e = f

\* A mutation with an idempotency key takes effect once, however often it is
\* retried, also when the first answer was lost to a crash or an I/O error
\* and the retry reaches another process.
KeyedOnce ==
    \A e, f \in acked \union catalog :
        e.mut = f.mut /\ e.mut \in Keyed => e = f

\* No sequence number is ever acknowledged for two different mutations, not
\* even across failed appends, crashes and recoveries.
SeqNeverReused == \A e, f \in acked : e.seq = f.seq => e = f

\* Open refuses a store only for what a write to the segment left there: an
\* unfinished last frame, a frame too long to be read back, or an unfinished
\* header, and the last only in a store that never acknowledged anything.  No
\* crash point of Compact, WriteSnapshot or Close makes a store unreadable.
RefusalExplained ==
    status = "refused" =>
        \/ TornTail(segment)
        \/ \E i \in 1..Len(segment.frames) : segment.frames[i].mut \in Oversized
        \/ segment.header = "partial" /\ acked = {}

\* At every moment, between any two disk steps of Compact included, the
\* snapshot file covers all the log has dropped and all a manifest claims.
TruncationCovered ==
    /\ segment.base <= snapshot.seq + 1
    /\ manifestSeq <= snapshot.seq

\* An open Store whose lock is free accepts the next write: the catalog's
\* durableSeq and the log's own nextSeq have not drifted apart.
WritableWhenOpen ==
    status = "open" /\ compactStep = "idle" =>
        logOpen /\ nextSeq = durableSeq + 1

\* The lines of the active segment carry contiguous sequence numbers, apart
\* from an unfinished last one.  A failed fsync followed by another Apply
\* breaks it (Append does not take the written frame back).
SegmentContiguous ==
    \A i \in 1..Len(segment.frames) :
        segment.frames[i].mut # Fragment =>
            segment.frames[i].seq = segment.base + i - 1
=============================================================================
