-------------------------- MODULE ProjectorRuntime --------------------------
(***************************************************************************)
(* The asynchronous projector runtime of a Kilo store: the queue of        *)
(* projection events, one worker goroutine per registered projector, their *)
(* checkpoints in memory and on disk, and the two gates that keep          *)
(* compaction and projectors in step (Compact waits for every known        *)
(* projector; RegisterProjector refuses one that needs compacted events).  *)
(*                                                                         *)
(* The log is reduced to the interval of sequence numbers it holds; how it *)
(* is written and replayed is KiloStore's business.                        *)
(***************************************************************************)
EXTENDS Integers, FiniteSets

CONSTANTS
    Names,          \* projector names
    CompactAtomic,  \* a Compact that has truncated the log gets as far as
                    \* renaming its manifest into place
    MaxSeq          \* bound on the mutations of a behaviour

ASSUME CompactAtomicAssumption == CompactAtomic \in BOOLEAN
ASSUME MaxSeqAssumption == MaxSeq \in Nat

VARIABLES
    \* On disk.
    logBase,        \* the first sequence number the active segment can hold
    durableSeq,     \* the last one it holds
    manifestSeq,    \* compacted_seq of the newest manifest, or 0
    files,          \* the names that have a checkpoint file
    saved,          \* its indexed_seq
    \* In memory, of the open Store.
    status,         \* "down", "open", "closing" (closed, workers not yet done)
    compactionSeq,
    events,         \* the sequence numbers in projectionEvents
    known,          \* the keys of projectorCheckpoints
    indexed,        \* and their indexed_seq
    worker,         \* the worker goroutines
    compactStep,    \* how far the Compact that holds Store.mu has come
    \* What the projectors themselves hold.
    projected       \* the events whose Project has returned nil

disk == <<logBase, durableSeq, manifestSeq, files, saved>>
store == <<status, compactionSeq, events, known, indexed, compactStep>>
vars == <<disk, store, worker, projected>>

(***************************************************************************)
(* Where a worker stands.  "fetch": about to enter nextEvent; "waiting":   *)
(* in projectorCond.Wait; "projecting": in Project; "saving" and "saved":  *)
(* in advanceProjectorCheckpoint, before and after the file is installed;  *)
(* "clearing" and "failing": about to call setError; "sleeping": between   *)
(* retries; "stopping": about to call markStopped.                         *)
(***************************************************************************)
Steps == {"absent", "fetch", "waiting", "projecting", "saving", "saved",
          "clearing", "failing", "sleeping", "stopping"}
Worker == [at : Steps, event : Nat, failed : BOOLEAN]
NoWorker == [at |-> "absent", event |-> 0, failed |-> FALSE]

TypeOK ==
    /\ logBase \in Nat \ {0}
    /\ durableSeq \in Nat
    /\ manifestSeq \in Nat
    /\ files \in SUBSET Names
    /\ saved \in [Names -> Nat]
    /\ status \in {"down", "open", "closing"}
    /\ compactionSeq \in Nat
    /\ events \in SUBSET Nat
    /\ known \in SUBSET Names
    /\ indexed \in [Names -> Nat]
    /\ worker \in [Names -> Worker]
    /\ compactStep \in {"idle", "started", "truncated"}
    /\ projected \in [Names -> SUBSET Nat]

Init ==
    /\ logBase = 1
    /\ durableSeq = 0
    /\ manifestSeq = 0
    /\ files = {}
    /\ saved = [n \in Names |-> 0]
    /\ status = "down"
    /\ compactionSeq = 0
    /\ events = {}
    /\ known = {}
    /\ indexed = [n \in Names |-> 0]
    /\ worker = [n \in Names |-> NoWorker]
    /\ compactStep = "idle"
    /\ projected = [n \in Names |-> {}]

-----------------------------------------------------------------------------
\* Store.mu is free; only Compact keeps it for more than one step.
Unlocked == compactStep = "idle"

\* projectorCond.Broadcast().
Woken(W) == [n \in Names |-> IF W[n].at = "waiting"
                             THEN [W[n] EXCEPT !.at = "fetch"] ELSE W[n]]

Goto(n, step) == [worker EXCEPT ![n].at = step]

\* projectionEventsAfterSeq.
EventsAfter(seq) == {e \in events : e > seq}

\* What nextEvent scans for: the events the checkpoint does not cover.
Pending(n) == EventsAfter(indexed[n])

\* Mutant: nextEvent takes the newest event.
Newest(S) == CHOOSE e \in S : \A f \in S : e >= f

\* The first of them in queue order.
First(S) == CHOOSE e \in S : \A f \in S : e <= f

\* Mutant: the limit keeps the first entries, not the last.
TailOldest(min, limit) ==
    LET since == {e \in events : e >= min}
    IN IF limit = 0 THEN since
       ELSE {e \in since : Cardinality({f \in since : f < e}) < limit}

\* Store.Tail: the newest limit events (all of them, for 0) from min on.
Tail(min, limit) ==
    LET since == {e \in events : e >= min}
    IN IF limit = 0 THEN since
       ELSE {e \in since : Cardinality({f \in since : f > e}) < limit}

-----------------------------------------------------------------------------
(***************************************************************************)
(* The store around the workers.                                           *)
(***************************************************************************)
\* Every frame of the active segment, covered by the snapshot or not, enters
\* the event queue; the checkpoint files are read.
Open ==
    /\ status = "down"
    /\ status' = "open"
    /\ compactionSeq' = manifestSeq
    /\ events' = logBase..durableSeq
    /\ known' = files
    /\ indexed' = [n \in Names |-> IF n \in files THEN saved[n] ELSE 0]
    /\ UNCHANGED <<disk, compactStep, worker, projected>>

\* Mutant: no Broadcast after the event is queued.
ApplyQuiet ==
    /\ status = "open"
    /\ Unlocked
    /\ durableSeq < MaxSeq
    /\ durableSeq' = durableSeq + 1
    /\ events' = events \union {durableSeq + 1}
    /\ UNCHANGED <<logBase, manifestSeq, files, saved, status, compactionSeq,
                   known, indexed, compactStep, worker, projected>>

Apply ==
    /\ status = "open"
    /\ Unlocked
    /\ durableSeq < MaxSeq
    /\ durableSeq' = durableSeq + 1
    /\ events' = events \union {durableSeq + 1}
    /\ worker' = Woken(worker)
    /\ UNCHANGED <<logBase, manifestSeq, files, saved, status, compactionSeq,
                   known, indexed, compactStep, projected>>

\* Mutant: a projector that lacks compacted events is let in.
RegisterUngated(n) ==
    /\ status = "open"
    /\ Unlocked
    /\ worker[n].at = "absent"
    /\ known' = known \union {n}
    /\ worker' = [Woken(worker) EXCEPT ![n] = [NoWorker EXCEPT !.at = "fetch"]]
    /\ UNCHANGED <<disk, status, compactionSeq, events, indexed, compactStep,
                   projected>>

RegisterProjector(n) ==
    /\ status = "open"
    /\ Unlocked
    /\ worker[n].at = "absent"
    /\ compactionSeq > 0 => n \in known /\ indexed[n] >= compactionSeq
    /\ known' = known \union {n}
    /\ worker' = [Woken(worker) EXCEPT ![n] = [NoWorker EXCEPT !.at = "fetch"]]
    /\ UNCHANGED <<disk, status, compactionSeq, events, indexed, compactStep,
                   projected>>

\* Mutant: Close does not wake the waiting workers.
CloseQuiet ==
    /\ status = "open"
    /\ Unlocked
    /\ status' = "closing"
    /\ UNCHANGED <<disk, compactionSeq, events, known, indexed, compactStep,
                   worker, projected>>

\* Close marks the store, cancels projectorCtx and wakes the workers...
CloseStart ==
    /\ status = "open"
    /\ Unlocked
    /\ status' = "closing"
    /\ worker' = Woken(worker)
    /\ UNCHANGED <<disk, compactionSeq, events, known, indexed, compactStep,
                   projected>>

\* ... and, when the last one has stopped, releases the log and the lock.
CloseFinish ==
    /\ status = "closing"
    /\ \A n \in Names : worker[n].at = "absent"
    /\ status' = "down"
    /\ compactionSeq' = 0
    /\ events' = {}
    /\ known' = {}
    /\ indexed' = [n \in Names |-> 0]
    /\ UNCHANGED <<disk, compactStep, worker, projected>>

\* The process dies.  The projectors keep what they have been given.
Crash ==
    /\ status # "down"
    /\ CompactAtomic => compactStep # "truncated"
    /\ status' = "down"
    /\ compactionSeq' = 0
    /\ events' = {}
    /\ known' = {}
    /\ indexed' = [n \in Names |-> 0]
    /\ worker' = [n \in Names |-> NoWorker]
    /\ compactStep' = "idle"
    /\ UNCHANGED <<disk, projected>>

-----------------------------------------------------------------------------
(***************************************************************************)
(* Compact, as far as projectors see it.                                   *)
(***************************************************************************)
\* Mutant: only the projectors with a running worker are waited for.
CompactIgnoresStopped ==
    /\ status = "open"
    /\ Unlocked
    /\ durableSeq # 0
    /\ \A n \in known : worker[n].at # "absent" => indexed[n] >= durableSeq
    /\ logBase <= durableSeq
    /\ compactStep' = "started"
    /\ UNCHANGED <<disk, status, compactionSeq, events, known, indexed, worker,
                   projected>>

\* ensureProjectorsReadyForCompactionLocked(durableSeq) holds, and
\* CompactThrough will find a frame to remove.
CompactStart ==
    /\ status = "open"
    /\ Unlocked
    /\ durableSeq # 0
    /\ \A n \in known : indexed[n] >= durableSeq
    /\ logBase <= durableSeq
    /\ compactStep' = "started"
    /\ UNCHANGED <<disk, status, compactionSeq, events, known, indexed, worker,
                   projected>>

CompactTruncate ==
    /\ compactStep = "started"
    /\ logBase' = durableSeq + 1
    /\ compactStep' = "truncated"
    /\ UNCHANGED <<durableSeq, manifestSeq, files, saved, status,
                   compactionSeq, events, known, indexed, worker, projected>>

CompactFinish ==
    /\ compactStep = "truncated"
    /\ manifestSeq' = durableSeq
    /\ compactionSeq' = durableSeq
    /\ events' = EventsAfter(durableSeq)
    /\ compactStep' = "idle"
    /\ UNCHANGED <<logBase, durableSeq, files, saved, status, known, indexed,
                   worker, projected>>

\* Writing the snapshot or truncating the log fails, or writing the manifest,
\* or syncing its directory after the rename: the manifest is there then, and
\* the store in memory does not know.
CompactFails ==
    /\ \/ compactStep = "started" /\ UNCHANGED manifestSeq
       \/ compactStep = "truncated" /\ ~CompactAtomic /\ UNCHANGED manifestSeq
       \/ compactStep = "truncated" /\ manifestSeq' = durableSeq
    /\ compactStep' = "idle"
    /\ UNCHANGED <<logBase, durableSeq, files, saved, status, compactionSeq,
                   events, known, indexed, worker, projected>>

-----------------------------------------------------------------------------
(***************************************************************************)
(* projectorWorker.run.                                                    *)
(***************************************************************************)
\* nextEvent, from taking Store.mu to returning or to waiting.
NextEvent(n) ==
    /\ worker[n].at = "fetch"
    /\ Unlocked
    /\ worker' =
         IF status # "open" THEN Goto(n, "stopping")
         ELSE IF Pending(n) = {} THEN Goto(n, "waiting")
         ELSE [worker EXCEPT ![n].at = "projecting",
                             ![n].event = First(Pending(n))]
    /\ UNCHANGED <<disk, store, projected>>

ProjectSucceeds(n) ==
    /\ worker[n].at = "projecting"
    /\ projected' = [projected EXCEPT ![n] = @ \union {worker[n].event}]
    /\ worker' = Goto(n, "saving")
    /\ UNCHANGED <<disk, store>>

\* Project returns an error, having taken the event in or not.
ProjectFails(n) ==
    /\ worker[n].at = "projecting"
    /\ \/ UNCHANGED projected
       \/ projected' = [projected EXCEPT ![n] = @ \union {worker[n].event}]
    /\ worker' = Goto(n, IF status = "open" THEN "failing" ELSE "stopping")
    /\ UNCHANGED <<disk, store>>

\* advanceProjectorCheckpoint writes the file (it would not for a checkpoint
\* that is as far already, but only this worker moves it) ...
SaveCheckpoint(n) ==
    /\ worker[n].at = "saving"
    /\ files' = files \union {n}
    /\ saved' = [saved EXCEPT ![n] = worker[n].event]
    /\ worker' = Goto(n, "saved")
    /\ UNCHANGED <<logBase, durableSeq, manifestSeq, store, projected>>

\* ... or fails to, before the rename or syncing the directory after it ...
SaveFails(n) ==
    /\ worker[n].at = "saving"
    /\ \/ UNCHANGED <<files, saved>>
       \/ /\ files' = files \union {n}
          /\ saved' = [saved EXCEPT ![n] = worker[n].event]
    /\ worker' = Goto(n, IF status = "open" THEN "failing" ELSE "stopping")
    /\ UNCHANGED <<logBase, durableSeq, manifestSeq, store, projected>>

\* ... and takes Store.mu to advance the checkpoint in memory.
AdvanceCheckpoint(n) ==
    /\ worker[n].at = "saved"
    /\ Unlocked
    /\ IF indexed[n] >= worker[n].event
       THEN /\ worker' = Goto(n, "clearing")
            /\ UNCHANGED indexed
       ELSE /\ worker' = Woken(Goto(n, "clearing"))
            /\ indexed' = [indexed EXCEPT ![n] = worker[n].event]
    /\ UNCHANGED <<disk, status, compactionSeq, events, known, compactStep,
                   projected>>

\* Mutant: a success does not clear the error of an earlier attempt.
ErrorStays(n) ==
    /\ worker[n].at = "clearing"
    /\ Unlocked
    /\ worker' = Goto(n, "fetch")
    /\ UNCHANGED <<disk, store, projected>>

\* setError(nil), setError(err).
ClearError(n) ==
    /\ worker[n].at = "clearing"
    /\ Unlocked
    /\ worker' = [worker EXCEPT ![n].at = "fetch", ![n].failed = FALSE]
    /\ UNCHANGED <<disk, store, projected>>

SetError(n) ==
    /\ worker[n].at = "failing"
    /\ Unlocked
    /\ worker' = [worker EXCEPT ![n].at = "sleeping", ![n].failed = TRUE]
    /\ UNCHANGED <<disk, store, projected>>

\* sleepProjectorRetry ends: the timer fires, or the context is cancelled.
RetrySleep(n) ==
    /\ worker[n].at = "sleeping"
    /\ \/ worker' = Goto(n, "fetch")
       \/ status # "open" /\ worker' = Goto(n, "stopping")
    /\ UNCHANGED <<disk, store, projected>>

MarkStopped(n) ==
    /\ worker[n].at = "stopping"
    /\ Unlocked
    /\ worker' = [Woken(worker) EXCEPT ![n] = NoWorker]
    /\ UNCHANGED <<disk, store, projected>>

-----------------------------------------------------------------------------
\* What a worker does by itself once it can run.
WorkerRuns(n) ==
    \/ NextEvent(n)
    \/ AdvanceCheckpoint(n)
    \/ ClearError(n)
    \/ SetError(n)
    \/ RetrySleep(n)
    \/ MarkStopped(n)

Projects(n) == ProjectSucceeds(n) \/ ProjectFails(n)
Saves(n) == SaveCheckpoint(n) \/ SaveFails(n)

StoreNext ==
    \/ Open
    \/ Apply
    \/ \E n \in Names : RegisterProjector(n)
    \/ CloseStart
    \/ CloseFinish
    \/ Crash
    \/ CompactStart
    \/ CompactTruncate
    \/ CompactFinish
    \/ CompactFails

Next ==
    \/ StoreNext
    \/ \E n \in Names : WorkerRuns(n) \/ Projects(n) \/ Saves(n)

Spec == Init /\ [][Next]_vars

(***************************************************************************)
(* Goroutines that can run do run; Project and a file write return; Close  *)
(* and Compact, once begun, go on.  A projector or a disk that is retried  *)
(* for ever does not fail every time.                                      *)
(***************************************************************************)
Fairness ==
    /\ \A n \in Names : /\ WF_vars(WorkerRuns(n))
                        /\ WF_vars(Projects(n))
                        /\ WF_vars(Saves(n))
                        /\ SF_vars(ProjectSucceeds(n))
                        /\ SF_vars(SaveCheckpoint(n))
    /\ WF_vars(CloseFinish)
    /\ WF_vars(CompactTruncate \/ CompactFinish \/ CompactFails)

FairSpec == Spec /\ Fairness
-----------------------------------------------------------------------------
(***************************************************************************)
(* Properties.                                                             *)
(***************************************************************************)
\* A checkpoint is a promise: the projector has been given every event up to
\* it, across failed attempts, failed checkpoint writes, restarts and
\* compactions (nextEvent, advanceProjectorCheckpoint, RegisterProjector).
CheckpointCovers ==
    \A n \in Names : /\ n \in files => 1..saved[n] \subseteq projected[n]
                     /\ n \in known => 1..indexed[n] \subseteq projected[n]

\* The step that drops events from the log drops none that a projector with a
\* checkpoint file has not acknowledged, running or not, whatever it is saving
\* at the time: Compact's gate looks at the checkpoints in memory.
CompactionWaits ==
    [][logBase' # logBase => \A n \in files : logBase' <= saved[n] + 1]_vars

\* At every moment the log reaches back to where each checkpoint file stands.
\* It does not: after a Compact that failed with its manifest in place the gate
\* for new projectors is open until the restart, and a checkpoint that is
\* written then lies below the log.
FilesServed == \A n \in files : logBase <= saved[n] + 1

\* A reader that polls Tail from the number after the last one it has seen
\* misses nothing across restarts and compactions: what it is not given is
\* compacted, or displaced by limit newer entries that it is given.
TailMissesNothing ==
    status # "down" =>
        \A min \in 1..(MaxSeq + 1), limit \in 0..MaxSeq :
            \A s \in min..durableSeq :
                \/ s \in Tail(min, limit)
                \/ s <= compactionSeq
                \/ limit > 0 /\
                   Cardinality({f \in Tail(min, limit) : f > s}) = limit

\* A worker that has run out of events reports no error of an earlier attempt.
CaughtUpIsHealthy ==
    \A n \in Names : worker[n].at = "waiting" =>
        ~worker[n].failed /\ (status = "open" => indexed[n] >= durableSeq)

\* A registered projector catches up with the log as long as its store is open.
CatchesUp ==
    \A n \in Names :
        status = "open" /\ worker[n].at # "absent" ~>
            status # "open" \/ indexed[n] = durableSeq

\* The runtime implements the abstract feed: the file checkpoints are the marks.
Feed == INSTANCE ProjectionFeed
            WITH tail <- durableSeq, mark <- saved, given <- projected
ImplementsFeed == Feed!Spec

\* Close returns: every worker notices the cancelled context, wherever it is.
CloseReturns == status = "closing" ~> status = "down"
=============================================================================
