---------------------------- MODULE KiloStoreInv ----------------------------
(***************************************************************************)
(* The inductive invariant behind AckedNeverLost, for callers that never   *)
(* Compact while a WriteSnapshot of theirs is in flight.  It holds under   *)
(* every fault: a segment that a fault has spoilt is not replayable, and   *)
(* most conjuncts then say nothing of it, because no Open will trust it.   *)
(***************************************************************************)
EXTENDS KiloStore

\* What TypeOK needs beside itself: only a file that replay() accepts is being
\* replayed, and Compact runs on an open Store.
TypeInv ==
    /\ TypeOK
    /\ status = "replaying" => Replayable(segment) /\ replayAt > 0
    /\ compactStep # "idle" => status = "open"

\* Every snapshot there is: the installed file, and those being written.
InFlight == {w \in Snapshotters : snapshotter[w].phase = "copied"}
Snaps == {snapshot} \union {snapshotter[w].data : w \in InFlight}

\* What a segment holds, and every mutation some part of the system treats as
\* having happened.
Frames(seg) == {seg.frames[i] : i \in 1..Len(seg.frames)}
Known == acked \union catalog \union UNION {X.entries : X \in Snaps}

\* A snapshot starts where the segment starts or later, and holds nothing
\* newer than its sequence number.
SnapsBounded ==
    \A X \in Snaps :
        /\ segment.base <= X.seq + 1
        /\ \A e \in X.entries : e.seq <= X.seq

\* A snapshot holds everything that happened up to its sequence number.
SnapsComplete ==
    \A X \in Snaps, e \in Known : e.seq <= X.seq => e \in X.entries

\* A replayable segment holds everything that happened since its base, it
\* agrees with the snapshots where they overlap, it reaches at least as far
\* as they do, and it repeats no key.
SegmentComplete ==
    \A e \in Known : e.seq >= segment.base => e \in Frames(segment)

SegmentAgrees ==
    \A f \in Frames(segment), X \in Snaps : f.seq <= X.seq => f \in X.entries

SegmentReaches == \A X \in Snaps : X.seq < EndSeq(segment)

KeysUnique(S) ==
    \A x, y \in S : x.mut = y.mut /\ x.mut \in Keyed => x = y

SegmentSound ==
    Replayable(segment) =>
        /\ SegmentComplete
        /\ SegmentAgrees
        /\ SegmentReaches
        /\ KeysUnique(Known \union Frames(segment))

\* What the disk and the snapshots on their way to it promise a later Open.
DiskSound ==
    /\ KeysUnique(Known)
    /\ SnapsBounded
    /\ SnapsComplete
    /\ SegmentSound

\* While a Store is open its catalog is all that is known to have happened.
OpenSound ==
    status = "open" =>
        /\ Known \subseteq catalog
        /\ \A e \in catalog : e.seq <= durableSeq
        /\ \A X \in Snaps : X.seq <= durableSeq
        /\ durableSeq < nextSeq
        /\ Replayable(segment) =>
              /\ nextSeq <= EndSeq(segment)
              /\ \A f \in Frames(segment) : f.seq <= durableSeq => f \in catalog

\* While Open replays, the catalog holds all that happened up to durableSeq,
\* which has passed the frames replayed so far.
ReplaySound ==
    status = "replaying" =>
        /\ Replayable(segment)
        /\ replayAt \in 1..(Len(segment.frames) + 1)
        /\ \A e \in Known \union Frames(segment) : e.seq <= durableSeq => e \in catalog
        /\ \A e \in catalog : e.seq <= durableSeq
        /\ segment.base + replayAt - 2 <= durableSeq
        /\ segment.base - 1 <= durableSeq
        /\ durableSeq < EndSeq(segment)
        /\ nextSeq = EndSeq(segment)

\* A Compact under way runs alone, on an open Store, and has installed the
\* snapshot of the catalog as it still is.
CompactSound ==
    compactStep # "idle" =>
        /\ status = "open"
        /\ \A w \in Snapshotters : snapshotter[w].phase = "idle"
        /\ snapshot = [seq |-> durableSeq, entries |-> catalog]

\* No compaction manifest claims more than any snapshot that is installed, or
\* can still be installed, covers.
ManifestCovered == \A X \in Snaps : manifestSeq <= X.seq

ClosedForgets == status \in {"closed", "refused"} => catalog = {}

IInv ==
    /\ TypeInv
    /\ DiskSound
    /\ OpenSound
    /\ ReplaySound
    /\ CompactSound
    /\ ClosedForgets

-----------------------------------------------------------------------------
(***************************************************************************)
(* Callers that Compact while a WriteSnapshot runs.                        *)
(***************************************************************************)
\* They can lose what was acknowledged (WriteSnapshot renames its file without
\* the lock), but, if no fsync and no Compact has failed, no more than the
\* entries at the end, and Append then lets no other write take their numbers.
LossContained ==
    status = "open" =>
        /\ \A e \in acked : e.seq <= durableSeq => e \in catalog
        /\ acked \subseteq catalog \/ nextSeq # durableSeq + 1

\* The entries of S have the sequence numbers 1..n, each once.
Dense(S, n) ==
    /\ \A i \in 1..n : \E e \in S : e.seq = i
    /\ \A e \in S : e.seq \in 1..n
    /\ \A e, f \in S : e.seq = f.seq => e = f

SeqsUnique(S) == \A x, y \in S : x.seq = y.seq => x = y
Consistent(S) == KeysUnique(S) /\ SeqsUnique(S)

\* Every catalog there is or was captured is a beginning of one and the same
\* history, and so is it with what a replayable segment adds.
HistoryOne ==
    /\ \A X \in Snaps : Dense(X.entries, X.seq)
    /\ status \in {"open", "replaying"} => Dense(catalog, durableSeq)
    /\ Consistent(Known)
    /\ \A e \in Known : e.seq > 0
    /\ Replayable(segment) =>
          /\ Consistent(Known \union Frames(segment))
          /\ \A X \in Snaps : X.seq < EndSeq(segment)
          /\ \A e \in Known : e.seq < EndSeq(segment)

\* An open store that counts like its log has all of it.
CountsAlike ==
    /\ status \in {"open", "replaying"} =>
          /\ segment.base <= nextSeq
          /\ Replayable(segment) => nextSeq = EndSeq(segment) /\ durableSeq < nextSeq
    /\ status = "replaying" => replayAt <= Len(segment.frames) + 1
    /\ status = "open" /\ nextSeq = durableSeq + 1 =>
          /\ \A X \in Snaps : X.seq <= durableSeq
          /\ \A e \in Known : e.seq <= durableSeq

\* The segment follows on from a snapshot, or a manifest rules that one out.
Follows(X) == segment.base <= X.seq + 1 \/ manifestSeq > X.seq

SnapsFollowed ==
    /\ \A X \in Snaps : Follows(X)
    /\ status = "replaying" => /\ segment.base <= durableSeq + 1
                               /\ segment.base + replayAt - 2 <= durableSeq
    /\ status = "open" => nextSeq = durableSeq + 1

\* Compact has truncated the log, and not yet said so.
JustTruncated ==
    /\ compactStep = "truncated"
    /\ segment.frames = <<>>
    /\ segment.base = durableSeq + 1
    /\ nextSeq = durableSeq + 1

\* It died there, after an older snapshot had replaced its own: the segment is
\* empty, no snapshot reaches it, and nothing can be written any more.
Cut ==
    /\ compactStep # "truncated"
    /\ segment.frames = <<>>
    /\ \A X \in Snaps : X.seq + 1 < segment.base
    /\ status \in {"open", "replaying"} => durableSeq + 1 < segment.base

Connected == (compactStep # "truncated" /\ SnapsFollowed) \/ JustTruncated \/ Cut

OverlapInv == TypeInv /\ HistoryOne /\ CountsAlike /\ Connected

-----------------------------------------------------------------------------
(***************************************************************************)
(* A store implements DurableLog.  While it is open its log is the         *)
(* catalog; while it is not, it is what Open would make of the files.      *)
(***************************************************************************)
Recovered == snapshot.entries \union {f \in Frames(segment) : f.seq > snapshot.seq}

LogThen ==
    IF status = "open" THEN catalog
    ELSE IF Replayable(segment) THEN Recovered ELSE {}

DoubtThen ==
    IF status = "open" /\ Replayable(segment) THEN Recovered \ catalog ELSE {}

Abstract == INSTANCE DurableLog WITH
    state <- IF status = "open" THEN "up" ELSE "down",
    log <- LogThen,
    doubt <- DoubtThen,
    spoilt <- ~Replayable(segment)

\* Whatever Open, Apply, WriteSnapshot, Compact and Close do, fail at or die
\* in, the callers of Apply see a DurableLog: in particular no step but an
\* Apply changes what the next process will find.
ImplementsDurableLog == Abstract!Spec
=============================================================================
