-------------------------- MODULE DurableLogProofs --------------------------
(***************************************************************************)
(* A store implements DurableLog: for any mutations, snapshotters and      *)
(* faults, when callers do not Compact while a WriteSnapshot is in flight. *)
(* On the way, that catalogs have no gaps and sequence numbers are not     *)
(* used again.  Then, what holds unless an fsync or a Compact fails; what  *)
(* every DurableLog promises; and what is left when callers do Compact     *)
(* while a WriteSnapshot is in flight.                                     *)
(***************************************************************************)
EXTENDS KiloStoreProofs

\* Every snapshot, and the catalog that is being built or used, is dense; so
\* what was acknowledged has no number twice.
NoGaps ==
    /\ \A X \in Snaps : Dense(X.entries, X.seq)
    /\ status \in {"open", "replaying"} => Dense(catalog, durableSeq)
    /\ SeqNeverReused

\* An entry with the next number keeps a catalog dense (Apply, Open's replay).
LEMMA DenseGrows ==
    ASSUME NEW S, NEW n \in Nat, Dense(S, n), NEW e, e.seq = n + 1
    PROVE  Dense(S \union {e}, n + 1)
<1>1. \A i \in 1..(n + 1) : i \in 1..n \/ i = n + 1
  OBVIOUS
<1>2. \A x \in S : x.seq \in 1..n
  BY DEF Dense
<1>3. \A i \in 1..(n + 1) : \E x \in S \union {e} : x.seq = i
  BY <1>1 DEF Dense
<1>4. \A x \in S \union {e} : x.seq \in 1..(n + 1)
  BY <1>2
<1>5. \A x, y \in S \union {e} : x.seq = y.seq => x = y
  BY <1>2 DEF Dense
<1> QED
  BY <1>3, <1>4, <1>5 DEF Dense

\* What the snapshots are after a step: those before it, or the catalog of
\* the store that is open.
LEMMA SnapsStep ==
    ASSUME TypeInv, [Next]_vars
    PROVE  \/ Snaps' \subseteq Snaps
           \/ /\ status = "open" /\ status' = "open"
              /\ catalog' = catalog /\ durableSeq' = durableSeq /\ acked' = acked
              /\ segment' = segment
              /\ Snaps' \subseteq
                    Snaps \union {[seq |-> durableSeq, entries |-> catalog]}
<1> USE DEF TypeInv, TypeOK
<1>1. CASE \E w \in Snapshotters : SnapshotCopy(w)
  BY <1>1 DEF SnapshotCopy, disk, memory, Snaps, InFlight
<1>2. CASE CompactWriteSnapshot
  BY <1>2 DEF CompactWriteSnapshot, memory, Snaps, InFlight
<1>3. CASE \/ OpenNext
           \/ \E m \in Mutations :
                 ApplyIdempotent(m) \/ ApplyCommit(m) \/ ApplyFails(m)
           \/ CompactTruncate \/ CompactInstallManifest \/ CompactRejected
           \/ CompactThroughFails \/ CompactManifestFails
           \/ UNCHANGED vars
  BY <1>3 DEF OpenNext, CreateFails, OpenRefused, OpenLoad, ReplayEntry, OpenDone,
              ApplyIdempotent, ApplyCommit, ApplyFails, CompactTruncate,
              CompactInstallManifest, CompactRejected, CompactThroughFails,
              CompactManifestFails, disk, vars, Snaps, InFlight
<1>4. ASSUME NEW w \in Snapshotters,
             SnapshotInstall(w) \/ SnapshotRecord(w) \/ SnapshotFails(w)
      PROVE  Snaps' \subseteq Snaps
  <2>1. snapshot' \in Snaps
    BY <1>4 DEF SnapshotInstall, SnapshotRecord, SnapshotFails, disk, Snaps,
                InFlight
  <2>2. \A v \in Snapshotters : snapshotter'[v].phase = "copied" =>
           v \in InFlight /\ snapshotter'[v].data = snapshotter[v].data
    <3>1. CASE SnapshotInstall(w)
      BY <3>1 DEF SnapshotInstall, InFlight, Writer
    <3>2. CASE SnapshotRecord(w) \/ SnapshotFails(w)
      BY <3>2 DEF SnapshotRecord, SnapshotFails, Idle, InFlight, Writer
    <3>3. QED
      BY <1>4, <3>1, <3>2
  <2>3. QED
    BY <2>1, <2>2 DEF Snaps, InFlight
<1>5. CASE Close \/ Crash \/ \E m \in Mutations : CrashInApply(m)
  <2>1. snapshot' = snapshot
    BY <1>5 DEF Close, Crash, CrashInApply, disk
  <2>2. \A v \in Snapshotters : snapshotter'[v].phase = "copied" =>
           v \in InFlight /\ snapshotter'[v].data = snapshotter[v].data
    <3>1. CASE Close
      BY <3>1 DEF Close, InFlight, Writer
    <3>2. CASE Crash \/ \E m \in Mutations : CrashInApply(m)
      BY <3>2 DEF Crash, CrashInApply, Idle
    <3>3. QED
      BY <1>5, <3>1, <3>2
  <2>3. QED
    BY <2>1, <2>2 DEF Snaps, InFlight
<1>6. QED
  BY <1>1, <1>2, <1>3, <1>4, <1>5 DEF Next, ApplyNext, SnapshotNext, CompactNext

\* No step leaves a gap: the log has the next frame for a replay, and Apply
\* numbers what it adds from the catalog.
LEMMA NoGapsStep ==
    ASSUME IInv, NoGaps, [Next]_vars
    PROVE  NoGaps'
<1>t. /\ durableSeq \in Nat /\ segment.base \in Nat /\ replayAt \in Nat
      /\ Len(segment.frames) \in Nat
  BY DEF IInv, TypeInv, TypeOK, Segment
<1>1. \A X \in Snaps' : Dense(X.entries, X.seq)
  <2>1. status = "open" => Dense([seq |-> durableSeq, entries |-> catalog].entries,
                                 [seq |-> durableSeq, entries |-> catalog].seq)
    BY DEF NoGaps
  <2>2. QED
    BY <2>1, SnapsStep DEF IInv, NoGaps
<1>2. ASSUME NEW m \in Mutations, ApplyCommit(m)
      PROVE  Dense(catalog, durableSeq)' /\ SeqNeverReused'
  <2> DEFINE e == [seq |-> durableSeq + 1, mut |-> m]
  <2>1. /\ status = "open" /\ catalog' = catalog \union {e}
        /\ acked' = acked \union {e} /\ durableSeq' = durableSeq + 1
    BY <1>2 DEF ApplyCommit, AppendReady
  <2>2. Dense(catalog', durableSeq')
    BY <1>t, <2>1, DenseGrows DEF NoGaps
  <2>3. acked' \subseteq catalog'
    BY <2>1 DEF IInv, OpenSound, Known
  <2>4. QED
    BY <2>2, <2>3 DEF Dense, SeqNeverReused
<1>3. ASSUME NEW m \in Mutations, ApplyIdempotent(m)
      PROVE  SeqNeverReused'
  <2>1. status = "open" /\ acked' \subseteq catalog
    BY <1>3 DEF ApplyIdempotent, Remembered, IInv, OpenSound, Known
  <2>2. QED
    BY <2>1 DEF NoGaps, Dense, SeqNeverReused
<1>4. ASSUME ReplayEntry PROVE Dense(catalog, durableSeq)'
  <2> DEFINE f == segment.frames[replayAt]
  <2>1. status = "replaying" /\ replayAt \in 1..Len(segment.frames)
    BY <1>t, <1>4 DEF ReplayEntry, IInv, ReplaySound
  <2>2. Replayable(segment) /\ segment.base + replayAt - 2 <= durableSeq
    BY <2>1 DEF IInv, ReplaySound
  <2>3. f.seq = segment.base + replayAt - 1
    BY <2>1, <2>2 DEF Replayable
  <2>4. \/ catalog' = catalog /\ durableSeq' = durableSeq
        \/ /\ catalog' = catalog \union {f} /\ durableSeq' = f.seq
           /\ ~(f.seq <= durableSeq)
    BY <1>4 DEF ReplayEntry
  <2>5. ~(f.seq <= durableSeq) => f.seq = durableSeq + 1
    <3>1. f.seq \in Int /\ f.seq <= durableSeq + 1
      BY <1>t, <2>2, <2>3
    <3> HIDE DEF f
    <3>2. QED
      BY <1>t, <3>1
  <2>6. Dense(catalog, durableSeq)
    BY <2>1 DEF NoGaps
  <2>7. QED
    BY <1>t, <2>4, <2>5, <2>6, DenseGrows
<1>5. ASSUME OpenLoad PROVE Dense(catalog, durableSeq)'
  BY <1>5 DEF OpenLoad, NoGaps, Snaps
<1>6. ASSUME OpenDone PROVE Dense(catalog, durableSeq)'
  BY <1>6 DEF OpenDone, NoGaps
<1>7. ASSUME status' \in {"open", "replaying"}, ~OpenLoad, ~OpenDone, ~ReplayEntry,
             ~\E m \in Mutations : ApplyCommit(m)
      PROVE  status' = status /\ catalog' = catalog /\ durableSeq' = durableSeq
  BY <1>7 DEF Next, OpenNext, ApplyNext, SnapshotNext, CompactNext, vars, memory,
       disk, CreateFails, OpenRefused, ApplyIdempotent, ApplyFails, CrashInApply, SnapshotCopy,
       SnapshotInstall, SnapshotRecord, SnapshotFails, CompactWriteSnapshot,
       CompactTruncate, CompactInstallManifest, CompactRejected,
       CompactThroughFails, CompactManifestFails, Close, Crash
<1>8. ASSUME ~\E m \in Mutations : ApplyCommit(m) \/ ApplyIdempotent(m)
      PROVE  acked' = acked
  BY <1>8 DEF Next, OpenNext, ApplyNext, SnapshotNext, CompactNext, vars, memory,
       disk, CreateFails, OpenRefused, OpenLoad, OpenDone, ReplayEntry, ApplyFails,
       CrashInApply, SnapshotCopy,
       SnapshotInstall, SnapshotRecord, SnapshotFails, CompactWriteSnapshot,
       CompactTruncate, CompactInstallManifest, CompactRejected,
       CompactThroughFails, CompactManifestFails, Close, Crash
<1>9. status' \in {"open", "replaying"} => Dense(catalog, durableSeq)'
  BY <1>2, <1>4, <1>5, <1>6, <1>7 DEF NoGaps
<1>10. SeqNeverReused'
  BY <1>2, <1>3, <1>8 DEF NoGaps, SeqNeverReused
<1>11. QED
  BY <1>1, <1>9, <1>10 DEF NoGaps

LEMMA NoGapsInit == Init => NoGaps
<1> SUFFICES ASSUME Init PROVE NoGaps
  OBVIOUS
<1>1. Snaps = {NoSnapshot}
  BY DEF Init, Snaps, InFlight, Idle
<1>2. Dense({}, 0)
  BY DEF Dense
<1>3. QED
  BY <1>1, <1>2 DEF Init, NoGaps, NoSnapshot, SeqNeverReused

\* The catalog of an open store has the numbers 1..durableSeq, each once, under
\* every fault: no replay, compaction or snapshot leaves a gap.
THEOREM CatalogDense ==
    ASSUME CallersSerialize
    PROVE  Spec => []CatalogContiguous
<1>1. IInv /\ NoGaps => CatalogContiguous
  <2> SUFFICES ASSUME IInv, NoGaps, status = "open"
               PROVE  /\ {e.seq : e \in catalog} = 1..durableSeq
                      /\ \A e, f \in catalog : e.seq = f.seq => e = f
    BY DEF CatalogContiguous
  <2>1. Dense(catalog, durableSeq)
    BY DEF NoGaps
  <2>2. QED
    BY <2>1 DEF Dense
<1>2. IInv /\ [Next]_vars => IInv'
  BY InductiveStep
<1>3. IInv /\ NoGaps /\ [Next]_vars => NoGaps'
  BY NoGapsStep
<1>4. QED
  BY <1>1, <1>2, <1>3, InductiveInit, NoGapsInit, PTL DEF Spec

\* No sequence number is acknowledged for two mutations, under every fault.
THEOREM SeqUsedOnce ==
    ASSUME CallersSerialize
    PROVE  Spec => []SeqNeverReused
<1>1. NoGaps => SeqNeverReused
  BY DEF NoGaps
<1>2. IInv /\ [Next]_vars => IInv'
  BY InductiveStep
<1>3. IInv /\ NoGaps /\ [Next]_vars => NoGaps'
  BY NoGapsStep
<1>4. QED
  BY <1>1, <1>2, <1>3, InductiveInit, NoGapsInit, PTL DEF Spec

-----------------------------------------------------------------------------
(***************************************************************************)
(* The refinement.                                                         *)
(***************************************************************************)
\* What Open would recover does not depend on which of the snapshots is the
\* installed one (WriteSnapshot's rename).
LEMMA AnySnapshot ==
    ASSUME IInv, Replayable(segment), NEW X \in Snaps, NEW Y \in Snaps
    PROVE  X.entries \union {f \in Frames(segment) : f.seq > X.seq}
              \subseteq Y.entries \union {f \in Frames(segment) : f.seq > Y.seq}
<1>1. /\ X.seq \in Nat /\ Y.seq \in Nat /\ segment.base \in Nat
      /\ \A e \in Known : e.seq \in Nat
      /\ \A f \in Frames(segment) : f.seq \in Nat
  BY KnownType, FrameFacts DEF IInv, TypeInv, TypeOK, Segment, Entry
<1>2. X.entries \subseteq Known
  BY DEF Known
<1>3. /\ \A e \in Known : e.seq <= Y.seq => e \in Y.entries
      /\ segment.base <= Y.seq + 1
      /\ \A e \in Known : e.seq >= segment.base => e \in Frames(segment)
      /\ \A f \in Frames(segment) : f.seq <= Y.seq => f \in Y.entries
  BY DEF IInv, DiskSound, SnapsComplete, SnapsBounded, SegmentSound,
         SegmentComplete, SegmentAgrees
<1>4. \A e \in Known : e.seq > Y.seq => e \in Frames(segment)
  BY <1>1, <1>3
<1> QED
  BY <1>1, <1>2, <1>3, <1>4

\* What failed Applies have left in the log of an open store.
Left == {f \in Frames(segment) : f.seq > durableSeq}

\* It is all that the next Open would find besides the catalog.
LEMMA OpenRecovered ==
    ASSUME IInv, status = "open", Replayable(segment)
    PROVE  /\ Recovered = catalog \union Left
           /\ Left \intersect catalog = {}
<1>1. /\ snapshot.seq \in Nat /\ durableSeq \in Nat /\ segment.base \in Nat
      /\ \A e \in Known : e.seq \in Nat
      /\ \A f \in Frames(segment) : f.seq \in Nat
      /\ snapshot \in Snaps
  BY KnownType, FrameFacts DEF IInv, TypeInv, TypeOK, Segment, Entry, Snaps
<1>2. /\ snapshot.entries \subseteq Known /\ Known \subseteq catalog
      /\ catalog \subseteq Known
      /\ \A e \in catalog : e.seq <= durableSeq
      /\ snapshot.seq <= durableSeq
      /\ \A f \in Frames(segment) : f.seq <= durableSeq => f \in catalog
  BY <1>1 DEF IInv, OpenSound, Known
<1>3. /\ \A e \in Known : e.seq <= snapshot.seq => e \in snapshot.entries
      /\ segment.base <= snapshot.seq + 1
      /\ \A e \in Known : e.seq >= segment.base => e \in Frames(segment)
  BY <1>1 DEF IInv, DiskSound, SnapsComplete, SnapsBounded, SegmentSound,
              SegmentComplete
<1>4. catalog \subseteq Recovered
  <2> SUFFICES ASSUME NEW e \in catalog, e \notin snapshot.entries
               PROVE  e \in Recovered
    BY DEF Recovered
  <2>1. e \in Known /\ e.seq > snapshot.seq
    BY <1>1, <1>2, <1>3
  <2>2. e \in Frames(segment)
    BY <1>1, <1>3, <2>1
  <2>3. QED
    BY <2>1, <2>2 DEF Recovered
<1>5. Recovered \subseteq catalog \union Left
  BY <1>1, <1>2 DEF Recovered, Left
<1>6. Left \subseteq Recovered
  BY <1>1, <1>2 DEF Recovered, Left
<1>7. Left \intersect catalog = {}
  BY <1>1, <1>2 DEF Left
<1> QED
  BY <1>4, <1>5, <1>6, <1>7

\* What a line adds to a file that ends in a whole one (Log.Append).
LEMMA WriteLineFrames ==
    ASSUME NEW seg \in Segment, NEW m \in Mutations, NEW n \in Nat, ~TornTail(seg)
    PROVE  LET new == WriteLine(seg, n, m)
           IN /\ new.header = seg.header /\ new.base = seg.base
              /\ Len(new.frames) = Len(seg.frames) + 1
              /\ \A i \in 1..Len(seg.frames) : new.frames[i] = seg.frames[i]
              /\ new.frames[Len(seg.frames) + 1] = [seq |-> n, mut |-> m]
<1> DEFINE f == [seq |-> n, mut |-> m]
           new == WriteLine(seg, n, m)
<1>1. /\ new.header = seg.header /\ new.base = seg.base
      /\ new.frames = Append(seg.frames, f)
  BY DEF WriteLine, Segment
<1>2. seg.frames \in Seq(Frame) /\ f \in Frame
  BY DEF Segment, Frame
<1> QED
  BY <1>1, <1>2, AppendProperties

\* A file that holds everything Apply has written: the header is not cut short
\* and every line is the whole frame of the number that is expected there.  A
\* replay would accept it but for frames that are too long.
Whole(seg) ==
    /\ seg.header # "partial"
    /\ \A i \in 1..Len(seg.frames) :
          /\ seg.frames[i].mut # Fragment
          /\ seg.frames[i].seq = seg.base + i - 1

\* A whole frame with the number replay() expects keeps a file whole.
LEMMA WriteLineWhole ==
    ASSUME NEW seg \in Segment, NEW m \in Mutations, Whole(seg)
    PROVE  /\ Whole(WriteLine(seg, EndSeq(seg), m))
           /\ EndSeq(WriteLine(seg, EndSeq(seg), m)) = EndSeq(seg) + 1
<1> DEFINE f == [seq |-> EndSeq(seg), mut |-> m]
           new == WriteLine(seg, EndSeq(seg), m)
           len == Len(seg.frames)
<1>1. len \in Nat /\ seg.base \in Nat /\ EndSeq(seg) \in Nat
  BY DEF Segment, EndSeq
<1>2. ~TornTail(seg)
  BY <1>1 DEF TornTail, Whole
<1>3. /\ new.header = seg.header /\ new.base = seg.base
      /\ Len(new.frames) = len + 1
      /\ \A i \in 1..len : new.frames[i] = seg.frames[i]
      /\ new.frames[len + 1] = f
  BY <1>1, <1>2, WriteLineFrames
<1>4. f.mut # Fragment /\ f.seq = seg.base + (len + 1) - 1
  BY <1>1, FragmentAssumption DEF EndSeq
<1>5. EndSeq(new) = EndSeq(seg) + 1
  BY <1>1, <1>3 DEF EndSeq
<1> HIDE DEF new, f, len
<1>6. ASSUME NEW i \in 1..(len + 1)
      PROVE  new.frames[i].mut # Fragment /\ new.frames[i].seq = new.base + i - 1
  <2>1. CASE i = len + 1
    BY <2>1, <1>3, <1>4
  <2>2. CASE i \in 1..len
    BY <2>2, <1>3 DEF Whole, len
  <2>3. QED
    BY <1>1, <2>1, <2>2
<1>7. Whole(new)
  BY <1>3, <1>6 DEF Whole
<1> QED
  BY <1>5, <1>7 DEF new

\* It keeps a file replayable if it is not too long.
LEMMA WriteLineKeeps ==
    ASSUME NEW seg \in Segment, NEW m \in Mutations, Replayable(seg), m \notin Oversized
    PROVE  Replayable(WriteLine(seg, EndSeq(seg), m))
<1> DEFINE f == [seq |-> EndSeq(seg), mut |-> m]
           new == WriteLine(seg, EndSeq(seg), m)
           len == Len(seg.frames)
<1>1. len \in Nat /\ seg.base \in Nat /\ EndSeq(seg) \in Nat
  BY DEF Segment, EndSeq
<1>2. Whole(seg) /\ ~TornTail(seg)
  BY <1>1 DEF TornTail, Replayable, Whole
<1>3. /\ new.header = seg.header
      /\ Len(new.frames) = len + 1
      /\ \A i \in 1..len : new.frames[i] = seg.frames[i]
      /\ new.frames[len + 1] = f
  BY <1>1, <1>2, WriteLineFrames
<1>4. Whole(new)
  BY <1>2, WriteLineWhole
<1> HIDE DEF new, len
<1>5. \A i \in 1..(len + 1) : new.frames[i].mut \notin Oversized
  <2> TAKE i \in 1..(len + 1)
  <2>1. CASE i = len + 1
    BY <2>1, <1>3
  <2>2. CASE i \in 1..len
    BY <2>2, <1>3 DEF Replayable, len
  <2>3. QED
    BY <1>1, <2>1, <2>2
<1>6. Replayable(new)
  BY <1>3, <1>4, <1>5 DEF Replayable, Whole
<1> QED
  BY <1>6 DEF new

\* While an Append is admitted, the numbers after the catalog's are free in
\* the file, or a failed Append has left a frame there.
LEMMA LeftOrFree ==
    ASSUME IInv, NEW m \in Mutations, AppendReady(m), Replayable(segment)
    PROVE  Left = {} <=> EndSeq(segment) = durableSeq + 1
<1>1. /\ segment \in Segment /\ segment.base \in Nat /\ Len(segment.frames) \in Nat
      /\ durableSeq \in Nat /\ snapshot.seq \in Nat /\ snapshot \in Snaps
      /\ EndSeq(segment) = segment.base + Len(segment.frames)
  BY KnownType DEF IInv, TypeInv, TypeOK, Segment, Snaps, EndSeq
<1>2. /\ durableSeq + 1 <= EndSeq(segment)
      /\ snapshot.seq <= durableSeq
      /\ segment.base <= snapshot.seq + 1
  BY <1>1 DEF AppendReady, IInv, OpenSound, DiskSound, SnapsBounded
<1>3. ASSUME EndSeq(segment) # durableSeq + 1
      PROVE  Left # {}
  <2> DEFINE i == durableSeq + 1 - segment.base + 1
  <2>1. i \in 1..Len(segment.frames)
    <3>1. segment.base <= durableSeq + 1 /\ durableSeq + 1 < EndSeq(segment)
      BY <1>1, <1>2, <1>3
    <3>2. i \in Int /\ i >= 1 /\ i <= Len(segment.frames)
      BY <1>1, <3>1
    <3>3. QED
      BY <1>1, <3>2
  <2>2. segment.frames[i].seq = segment.base + i - 1
    BY <2>1 DEF Replayable
  <2>3. segment.frames[i].seq = durableSeq + 1
    BY <1>1, <2>2
  <2>4. segment.frames[i] \in Frames(segment)
    BY <2>1 DEF Frames
  <2>5. QED
    BY <1>1, <2>3, <2>4 DEF Left
<1>4. ASSUME EndSeq(segment) = durableSeq + 1
      PROVE  Left = {}
  <2>1. \A f \in Frames(segment) : f.seq \in Nat /\ f.seq < EndSeq(segment)
    BY <1>1, FrameFacts DEF Entry
  <2>2. QED
    BY <1>1, <1>4, <2>1 DEF Left
<1> QED
  BY <1>3, <1>4

\* What an Append does to the file: a number that is in use spoils it, and so
\* do part of a line and a line that is too long.
LEMMA AppendOutcome ==
    ASSUME IInv, NEW m \in Mutations, AppendReady(m),
           NEW line \in {m, Fragment},
           segment' = WriteLine(segment, durableSeq + 1, line)
    PROVE  /\ Replayable(segment') <=>
                 /\ line = m /\ m \notin Oversized
                 /\ Replayable(segment) /\ Left = {}
           /\ Replayable(segment') =>
                 Frames(segment') =
                    Frames(segment) \union {[seq |-> durableSeq + 1, mut |-> m]}
<1>1. segment \in Segment /\ durableSeq \in Nat /\ durableSeq + 1 \in Nat
  BY DEF IInv, TypeInv, TypeOK
<1>2. ASSUME Replayable(segment')
      PROVE  /\ line = m /\ m \notin Oversized
             /\ Replayable(segment) /\ Left = {}
             /\ Frames(segment') =
                   Frames(segment) \union {[seq |-> durableSeq + 1, mut |-> m]}
  <2>1. /\ Replayable(segment) /\ line \notin {Fragment} \union Oversized
        /\ durableSeq + 1 = EndSeq(segment)
        /\ Frames(segment') =
              Frames(segment) \union {[seq |-> durableSeq + 1, mut |-> line]}
    BY <1>1, <1>2, WriteLineReplayable
  <2>2. QED
    BY <2>1, LeftOrFree
<1>3. ASSUME line = m, m \notin Oversized, Replayable(segment), Left = {}
      PROVE  Replayable(segment')
  <2>1. EndSeq(segment) = durableSeq + 1
    BY <1>3, LeftOrFree
  <2>2. QED
    BY <1>1, <1>3, <2>1, WriteLineKeeps
<1> QED
  BY <1>2, <1>3

LEMMA OpenRecoveredNext ==
    /\ IInv' /\ status' = "open" /\ Replayable(segment')
    => /\ Recovered' = catalog' \union Left'
       /\ Left' \intersect catalog' = {}
<1>1. IInv /\ status = "open" /\ Replayable(segment)
      => Recovered = catalog \union Left /\ Left \intersect catalog = {}
  BY OpenRecovered
<1>2. (IInv /\ status = "open" /\ Replayable(segment)
       => Recovered = catalog \union Left /\ Left \intersect catalog = {})'
  BY <1>1, PTL
<1> QED
  BY <1>2

\* What a DurableLog is told of an open store.
LEMMA OpenView ==
    ASSUME IInv, status = "open"
    PROVE  /\ LogThen = catalog
           /\ DoubtThen = IF Replayable(segment) THEN Left ELSE {}
  BY OpenRecovered DEF LogThen, DoubtThen

LEMMA OpenViewNext ==
    ASSUME IInv', status' = "open"
    PROVE  /\ LogThen' = catalog'
           /\ DoubtThen' = IF Replayable(segment') THEN Left' ELSE {}
  BY OpenRecoveredNext DEF LogThen, DoubtThen

AbstractVars == <<IF status = "open" THEN "up" ELSE "down", LogThen, DoubtThen,
                  ~Replayable(segment), acked>>

\* A step of an open store that leaves the catalog alone, and the frames after
\* it, is none of a DurableLog, whatever it does to the files.
LEMMA OpenStutter ==
    ASSUME IInv, IInv', status = "open", status' = "open",
           catalog' = catalog, durableSeq' = durableSeq, acked' = acked,
           Replayable(segment') <=> Replayable(segment),
           Replayable(segment) => Left' = Left
    PROVE  UNCHANGED AbstractVars
  BY OpenView, OpenViewNext DEF AbstractVars

\* Nor is one of a store that is not open, when it leaves the frames alone.
LEMMA DownStutter ==
    ASSUME IInv, status # "open", status' # "open",
           Frames(segment') = Frames(segment),
           Replayable(segment') <=> Replayable(segment),
           snapshot' \in Snaps, acked' = acked
    PROVE  UNCHANGED AbstractVars
<1>1. Replayable(segment) => Recovered' = Recovered
  <2> SUFFICES ASSUME Replayable(segment) PROVE Recovered' = Recovered
    OBVIOUS
  <2>1. snapshot \in Snaps
    BY DEF Snaps
  <2>2. Recovered' = snapshot'.entries \union
                        {f \in Frames(segment) : f.seq > snapshot'.seq}
    BY DEF Recovered
  <2>3. QED
    BY <2>1, <2>2, AnySnapshot DEF Recovered
<1> QED
  BY <1>1 DEF AbstractVars, LogThen, DoubtThen

\* The end of a process, in Close or by a crash, loses nothing.
LEMMA StopStep ==
    ASSUME IInv, status = "open", status' # "open", segment' = segment,
           snapshot' = snapshot, acked' = acked
    PROVE  Abstract!Stop
<1>1. LogThen' = IF Replayable(segment) THEN Recovered ELSE {}
  BY DEF LogThen, Recovered
<1>2. Replayable(segment) => Recovered = LogThen \union DoubtThen
  BY OpenRecovered, OpenView
<1>3. DoubtThen' = {}
  BY DEF DoubtThen
<1> QED
  BY <1>1, <1>2, <1>3 DEF Abstract!Stop

\* Once the last frame is replayed the catalog is what could be recovered.
LEMMA StartStep ==
    ASSUME IInv, IInv', OpenDone
    PROVE  Abstract!Start
<1>1. /\ status = "replaying" /\ status' = "open" /\ segment' = segment
      /\ catalog' = catalog /\ durableSeq' = durableSeq /\ acked' = acked
      /\ snapshot' = snapshot /\ replayAt > Len(segment.frames)
  BY DEF OpenDone, disk
<1>2. /\ Replayable(segment)
      /\ replayAt \in 1..(Len(segment.frames) + 1)
      /\ segment.base + replayAt - 2 <= durableSeq
  BY <1>1 DEF IInv, ReplaySound
<1>3. /\ segment \in Segment /\ durableSeq \in Nat /\ segment.base \in Nat
      /\ Len(segment.frames) \in Nat /\ replayAt \in Nat
  BY DEF IInv, TypeInv, TypeOK, Segment
<1>4. EndSeq(segment) <= durableSeq + 1
  BY <1>1, <1>2, <1>3 DEF EndSeq
<1>5. Left = {}
  <2>1. \A f \in Frames(segment) : f.seq \in Nat /\ f.seq < EndSeq(segment)
    BY <1>2, <1>3, FrameFacts DEF Entry
  <2>2. EndSeq(segment) \in Nat
    BY <1>3 DEF EndSeq
  <2>3. QED
    BY <1>3, <1>4, <2>1, <2>2 DEF Left
<1>6. Left' = Left /\ Recovered' = Recovered
  BY <1>1 DEF Left, Recovered
<1>7. Recovered = catalog
  BY <1>1, <1>2, <1>5, <1>6, OpenRecoveredNext
<1>8. LogThen = Recovered /\ DoubtThen = {} /\ LogThen' = catalog /\ DoubtThen' = {}
  BY <1>1, <1>2, <1>5, <1>6, <1>7, OpenViewNext DEF LogThen, DoubtThen
<1> QED
  BY <1>1, <1>2, <1>7, <1>8 DEF Abstract!Start

\* The next entry, by the catalog's count.
LEMMA NextEntry ==
    ASSUME IInv, NoGaps, NEW m \in Mutations, AppendReady(m)
    PROVE  LET e == [seq |-> durableSeq + 1, mut |-> m]
           IN e \in Abstract!NextEntries(m) /\ Abstract!IsNext(e, m)
<1> DEFINE e == [seq |-> durableSeq + 1, mut |-> m]
<1>1. /\ status = "open" /\ durableSeq \in Nat
      /\ m \in Keyed => \A x \in catalog : x.mut # m
  BY DEF AppendReady, Remembered, IInv, TypeInv, TypeOK
<1>2. Dense(catalog, durableSeq) /\ LogThen = catalog
  BY <1>1, OpenView DEF NoGaps
<1>3. durableSeq \in {0} \union {x.seq : x \in catalog}
  <2>1. durableSeq = 0 \/ durableSeq \in 1..durableSeq
    BY <1>1
  <2>2. QED
    BY <1>2, <2>1 DEF Dense
<1>4. {x.seq : x \in catalog} = 1..durableSeq
  BY <1>2 DEF Dense
<1>5. (durableSeq + 1) - 1 = durableSeq /\ durableSeq + 1 > 0
  BY <1>1
<1>6. e \in Abstract!NextEntries(m)
  BY <1>2, <1>3 DEF Abstract!NextEntries
<1>7. Abstract!IsNext(e, m)
  BY <1>1, <1>2, <1>4, <1>5 DEF Abstract!IsNext
<1> QED
  BY <1>6, <1>7

\* Apply succeeds: one entry more, and the log is spoilt exactly when a failed
\* Apply had left a frame with its number.
LEMMA SubmitStep ==
    ASSUME IInv, IInv', NoGaps, NEW m \in Mutations, ApplyCommit(m)
    PROVE  Abstract!Submit(m)
<1> DEFINE e == [seq |-> durableSeq + 1, mut |-> m]
<1>1. /\ status = "open" /\ status' = "open" /\ AppendReady(m)
      /\ segment' = WriteLine(segment, durableSeq + 1, m)
      /\ catalog' = catalog \union {e} /\ acked' = acked \union {e}
      /\ durableSeq' = durableSeq + 1 /\ durableSeq \in Nat
  BY DEF ApplyCommit, AppendReady, IInv, TypeInv, TypeOK
<1>2. /\ Replayable(segment') <=>
             m \notin Oversized /\ Replayable(segment) /\ Left = {}
      /\ Replayable(segment') => Frames(segment') = Frames(segment) \union {e}
  BY <1>1, AppendOutcome
<1>3. Replayable(segment') => Left' = {}
  <2>1. Left' = {f \in Frames(segment') : f.seq > durableSeq + 1}
    BY <1>1 DEF Left
  <2>2. Replayable(segment) => \A f \in Frames(segment) : f.seq \in Nat
    BY FrameFacts DEF IInv, TypeInv, TypeOK, Entry
  <2>3. QED
    BY <1>1, <1>2, <2>1, <2>2 DEF Left
<1>4. LogThen' = catalog' /\ DoubtThen' = {}
  BY <1>1, <1>3, OpenViewNext
<1>5. LogThen = catalog /\ DoubtThen = IF Replayable(segment) THEN Left ELSE {}
  BY <1>1, OpenView
<1>6. e \in Abstract!NextEntries(m) /\ Abstract!IsNext(e, m)
  BY <1>1, NextEntry
<1>7. (~Replayable(segment))' =
         (~Replayable(segment) \/ DoubtThen # {} \/ m \in Oversized)
  BY <1>2, <1>5
<1> QED
  BY <1>1, <1>4, <1>5, <1>6, <1>7 DEF Abstract!Submit

\* A known key is answered from the catalog.
LEMMA RepeatStep ==
    ASSUME IInv, IInv', NEW m \in Mutations, ApplyIdempotent(m)
    PROVE  Abstract!Repeat(m)
<1>1. /\ status = "open" /\ status' = "open" /\ segment' = segment
      /\ catalog' = catalog /\ durableSeq' = durableSeq
      /\ m \in Keyed /\ \E e \in catalog : e.mut = m /\ acked' = acked \union {e}
  BY DEF ApplyIdempotent, Remembered, disk, memory
<1>2. Left' = Left
  BY <1>1 DEF Left
<1>3. LogThen = catalog /\ LogThen' = LogThen /\ DoubtThen' = DoubtThen
  BY <1>1, <1>2, OpenView, OpenViewNext
<1> QED
  BY <1>1, <1>3 DEF Abstract!Repeat

\* Apply fails: its frame is left for the next process, or the log is spoilt,
\* or nothing has happened.
LEMMA FailStep ==
    ASSUME IInv, IInv', NoGaps, NEW m \in Mutations, ApplyFails(m)
    PROVE  Abstract!Fail(m) \/ UNCHANGED AbstractVars
<1> DEFINE e == [seq |-> durableSeq + 1, mut |-> m]
<1>1. /\ status = "open" /\ status' = "open" /\ AppendReady(m)
      /\ catalog' = catalog /\ acked' = acked /\ durableSeq' = durableSeq
      /\ durableSeq \in Nat
  BY DEF ApplyFails, AppendReady, memory, IInv, TypeInv, TypeOK
<1>2. /\ LogThen = catalog /\ DoubtThen = IF Replayable(segment) THEN Left ELSE {}
      /\ LogThen' = catalog
      /\ DoubtThen' = IF Replayable(segment') THEN Left' ELSE {}
  BY <1>1, OpenView, OpenViewNext
<1>3. CASE segment' = segment
  <2>1. Left' = Left
    BY <1>1, <1>3 DEF Left
  <2>2. QED
    BY <1>1, <1>3, <2>1, OpenStutter
<1>4. CASE \E line \in {m, Fragment} :
              segment' = WriteLine(segment, durableSeq + 1, line)
  <2>1. PICK line \in {m, Fragment} :
               segment' = WriteLine(segment, durableSeq + 1, line)
    BY <1>4
  <2>2. /\ Replayable(segment') =>
             m \notin Oversized /\ Replayable(segment) /\ Left = {}
        /\ Replayable(segment') => Frames(segment') = Frames(segment) \union {e}
    BY <1>1, <2>1, AppendOutcome
  <2>3. CASE ~Replayable(segment')
    BY <1>1, <1>2, <2>3 DEF Abstract!Fail
  <2>4. CASE Replayable(segment')
    <3>1. Left' = {f \in Frames(segment) \union {e} : f.seq > durableSeq}
      BY <1>1, <2>2, <2>4 DEF Left
    <3>2. Left' = {e}
      BY <1>1, <2>2, <2>4, <3>1 DEF Left
    <3>3. e \in Abstract!NextEntries(m) /\ Abstract!IsNext(e, m)
      BY <1>1, NextEntry
    <3>4. QED
      BY <1>1, <1>2, <2>2, <2>4, <3>2, <3>3 DEF Abstract!Fail
  <2>5. QED
    BY <2>3, <2>4
<1> QED
  BY <1>3, <1>4 DEF ApplyFails

\* The process dies inside Append.
LEMMA InterruptStep ==
    ASSUME IInv, NoGaps, NEW m \in Mutations, CrashInApply(m)
    PROVE  Abstract!Interrupt(m)
<1> DEFINE e == [seq |-> durableSeq + 1, mut |-> m]
<1>1. /\ status = "open" /\ status' = "closed" /\ AppendReady(m)
      /\ snapshot' = snapshot /\ acked' = acked
      /\ durableSeq \in Nat /\ snapshot.seq \in Nat /\ snapshot \in Snaps
  BY KnownType DEF CrashInApply, AppendReady, IInv, TypeInv, TypeOK, Snaps
<1>2. PICK line \in {m, Fragment} :
             segment' = WriteLine(segment, durableSeq + 1, line)
  BY DEF CrashInApply
<1>3. /\ Replayable(segment') =>
             m \notin Oversized /\ Replayable(segment) /\ Left = {}
      /\ Replayable(segment') => Frames(segment') = Frames(segment) \union {e}
  BY <1>1, <1>2, AppendOutcome
<1>4. /\ LogThen = catalog /\ DoubtThen = IF Replayable(segment) THEN Left ELSE {}
      /\ LogThen' = IF Replayable(segment') THEN Recovered' ELSE {}
      /\ DoubtThen' = {}
  BY <1>1, OpenView DEF LogThen, DoubtThen
<1>5. CASE ~Replayable(segment')
  BY <1>1, <1>4, <1>5 DEF Abstract!Interrupt
<1>6. CASE Replayable(segment')
  <2>1. snapshot.seq <= durableSeq
    BY <1>1 DEF IInv, OpenSound
  <2>2. Recovered' = Recovered \union {e}
    BY <1>1, <1>3, <1>6, <2>1 DEF Recovered
  <2>3. Recovered = catalog
    BY <1>1, <1>3, <1>6, OpenRecovered
  <2>4. e \in Abstract!NextEntries(m) /\ Abstract!IsNext(e, m)
    BY <1>1, NextEntry
  <2>5. LogThen' = LogThen \union {e}
    BY <1>4, <1>6, <2>2, <2>3
  <2>6. QED
    BY <1>1, <1>3, <1>4, <1>6, <2>4, <2>5 DEF Abstract!Interrupt
<1> QED
  BY <1>5, <1>6

\* Truncating the log behind the snapshot leaves what failed Applies have left.
LEMMA TruncateLeft ==
    ASSUME IInv, compactStep = "snapshotted", CanTruncate(segment, durableSeq),
           segment' = Truncated(segment, durableSeq), durableSeq' = durableSeq
    PROVE  Replayable(segment) /\ Replayable(segment') /\ Left' = Left
<1>1. /\ segment \in Segment /\ durableSeq \in Nat
      /\ status = "open" /\ Replayable(segment) /\ segment.base <= durableSeq
  BY DEF IInv, TypeInv, TypeOK, CompactSound, CanTruncate
<1>2. durableSeq < EndSeq(segment)
  BY <1>1 DEF IInv, OpenSound, EndSeq, Segment, TypeInv, TypeOK
<1>3. /\ Replayable(segment')
      /\ Frames(segment') = {f \in Frames(segment) : f.seq > durableSeq}
  BY <1>1, <1>2, TruncatedProperties
<1> QED
  BY <1>1, <1>3 DEF Left

\* Only a store that never ran has no header: it holds nothing and has
\* acknowledged nothing.
Pristine ==
    segment.header # "whole" =>
        /\ status \in {"closed", "refused"}
        /\ acked = {}
        /\ segment.frames = <<>>
        /\ snapshot = NoSnapshot
        /\ \A w \in Snapshotters : snapshotter[w].phase = "idle"

LEMMA PristineStep ==
    ASSUME IInv, Pristine, [Next]_vars
    PROVE  Pristine'
<1>t. /\ segment \in Segment /\ durableSeq \in Nat
      /\ compactStep # "idle" => status = "open"
  BY DEF IInv, TypeInv, TypeOK
<1>1. CASE CreateFails
  BY <1>1, <1>t DEF CreateFails, memory, Segment, Pristine
<1>2. CASE OpenLoad
  BY <1>2, <1>t, CreatedProperties DEF OpenLoad, Pristine
<1>3. CASE Crash
  BY <1>3 DEF Crash, disk, Idle, Pristine
<1>4. CASE OpenRefused \/ UNCHANGED vars
  BY <1>4 DEF OpenRefused, disk, vars, memory, Pristine
<1>5. CASE SnapshotNext
  <2>1. PICK w \in Snapshotters : \/ SnapshotCopy(w) \/ SnapshotInstall(w)
                                  \/ SnapshotRecord(w) \/ SnapshotFails(w)
    BY <1>5 DEF SnapshotNext
  <2>2. /\ segment' = segment
        /\ status = "open" \/ snapshotter[w].phase # "idle"
    BY <2>1 DEF SnapshotCopy, SnapshotInstall, SnapshotRecord, SnapshotFails, disk
  <2>3. QED
    BY <2>2 DEF Pristine
<1>6. CASE ReplayEntry \/ OpenDone \/ Close
  BY <1>6 DEF ReplayEntry, OpenDone, Close, disk, Pristine
<1>7. CASE ApplyNext
  <2>1. PICK m \in Mutations : \/ ApplyIdempotent(m) \/ ApplyCommit(m)
                               \/ ApplyFails(m) \/ CrashInApply(m)
    BY <1>7 DEF ApplyNext
  <2>2. /\ status = "open"
        /\ \/ segment' = segment
           \/ \E line \in {m, Fragment} :
                 segment' = WriteLine(segment, durableSeq + 1, line)
    BY <2>1 DEF ApplyIdempotent, ApplyCommit, ApplyFails, CrashInApply,
                AppendReady, disk
  <2>3. segment'.header = segment.header
    BY <1>t, <2>2 DEF WriteLine, Segment
  <2>4. QED
    BY <2>2, <2>3 DEF Pristine
<1>8. CASE CompactNext
  <2>1. status = "open"
    BY <1>8, <1>t DEF CompactNext, CompactWriteSnapshot, CompactTruncate,
       CompactInstallManifest, CompactRejected, CompactThroughFails,
       CompactManifestFails
  <2>2. segment' = segment \/ segment' = Truncated(segment, durableSeq)
    BY <1>8 DEF CompactNext, CompactWriteSnapshot, CompactTruncate,
       CompactInstallManifest, CompactRejected, CompactThroughFails,
       CompactManifestFails, disk
  <2>3. QED
    BY <2>1, <2>2 DEF Truncated, Pristine
<1> QED
  BY <1>1, <1>2, <1>3, <1>4, <1>5, <1>6, <1>7, <1>8 DEF Next, OpenNext

LEMMA PristineInit == Init => Pristine
  BY DEF Init, Pristine, Idle

\* Only an empty log can be spoilt while no process serves it.
LEMMA StillBornStep ==
    ASSUME IInv, Pristine, CreateFails
    PROVE  Abstract!StillBorn
<1>1. /\ status = "closed" /\ status' = "closed" /\ acked' = acked
      /\ segment.header # "whole" /\ segment.frames = <<>>
      /\ acked = {} /\ snapshot = NoSnapshot
  BY DEF CreateFails, memory, Pristine
<1>2. ~Replayable(segment')
  BY DEF CreateFails, Replayable, IInv, TypeInv, TypeOK, Segment
<1>3. Frames(segment) = {}
  BY <1>1, EmptySeq DEF Frames
<1>4. LogThen = {} /\ LogThen' = {} /\ DoubtThen = {} /\ DoubtThen' = {}
  BY <1>1, <1>2, <1>3 DEF LogThen, DoubtThen, Recovered, NoSnapshot
<1> QED
  BY <1>1, <1>2, <1>4 DEF Abstract!StillBorn

\* Every step of a store is one of a DurableLog, or none.
LEMMA AbstractStep ==
    ASSUME IInv, IInv', NoGaps, Pristine, [Next]_vars
    PROVE  [Abstract!Next]_AbstractVars
<1>0. CASE CreateFails
  BY <1>0, StillBornStep DEF Abstract!Next
<1>1. CASE OpenRefused \/ OpenLoad \/ ReplayEntry
  <2>1. /\ status # "open" /\ status' # "open"
        /\ snapshot' = snapshot /\ acked' = acked
        /\ \/ segment' = segment
           \/ segment' = Created(segment) /\ Replayable(segment)
    <3>1. CASE OpenRefused
      BY <3>1 DEF OpenRefused, disk
    <3>2. CASE OpenLoad
      BY <3>2 DEF OpenLoad, LoadFails
    <3>3. CASE ReplayEntry
      BY <3>3 DEF ReplayEntry, disk
    <3>4. QED
      BY <1>1, <3>1, <3>2, <3>3
  <2>2. /\ Frames(segment') = Frames(segment)
        /\ Replayable(segment') <=> Replayable(segment)
    BY <2>1, CreatedProperties DEF Frames, IInv, TypeInv, TypeOK
  <2>3. QED
    BY <2>1, <2>2, DownStutter DEF Snaps
<1>2. CASE OpenDone
  BY <1>2, StartStep DEF Abstract!Next
<1>3. CASE Close \/ Crash
  <2>1. /\ status' = "closed" /\ segment' = segment /\ snapshot' = snapshot
        /\ acked' = acked
    BY <1>3 DEF Close, Crash, disk
  <2>2. CASE status = "open"
    BY <2>1, <2>2, StopStep DEF Abstract!Next
  <2>3. CASE status # "open"
    BY <2>1, <2>3, DownStutter DEF Snaps
  <2>4. QED
    BY <2>2, <2>3
<1>4. CASE ApplyNext
  BY <1>4, RepeatStep, SubmitStep, FailStep, InterruptStep
  DEF ApplyNext, Abstract!Next
<1>5. CASE SnapshotNext
  <2>1. PICK w \in Snapshotters : \/ SnapshotCopy(w) \/ SnapshotInstall(w)
                                  \/ SnapshotRecord(w) \/ SnapshotFails(w)
    BY <1>5 DEF SnapshotNext
  <2>2. /\ segment' = segment /\ acked' = acked /\ status' = status
        /\ catalog' = catalog /\ durableSeq' = durableSeq
    BY <2>1 DEF SnapshotCopy, SnapshotInstall, SnapshotRecord, SnapshotFails,
                disk, memory
  <2>3. snapshot' \in Snaps
    BY <2>1 DEF SnapshotCopy, SnapshotInstall, SnapshotRecord, SnapshotFails,
                disk, Snaps, InFlight
  <2>4. Left' = Left
    BY <2>2 DEF Left
  <2>5. QED
    BY <2>2, <2>3, <2>4, OpenStutter, DownStutter
<1>6. CASE CompactNext
  <2>1. /\ status = "open" /\ status' = "open" /\ acked' = acked
        /\ catalog' = catalog /\ durableSeq' = durableSeq
    BY <1>6 DEF CompactNext, CompactWriteSnapshot, CompactTruncate,
       CompactInstallManifest, CompactRejected, CompactThroughFails,
       CompactManifestFails, disk, memory, IInv, CompactSound
  <2>2. \/ segment' = segment
        \/ /\ compactStep = "snapshotted" /\ CanTruncate(segment, durableSeq)
           /\ segment' = Truncated(segment, durableSeq)
    BY <1>6 DEF CompactNext, CompactWriteSnapshot, CompactTruncate,
       CompactInstallManifest, CompactRejected, CompactThroughFails,
       CompactManifestFails, disk
  <2>3. /\ Replayable(segment') <=> Replayable(segment)
        /\ Replayable(segment) => Left' = Left
    <3>1. CASE segment' = segment
      BY <2>1, <3>1 DEF Left
    <3>2. QED
      BY <2>1, <2>2, <3>1, TruncateLeft
  <2>4. QED
    BY <2>1, <2>3, OpenStutter
<1>7. CASE UNCHANGED vars
  <2>1. Recovered' = Recovered
    BY <1>7 DEF vars, disk, Recovered
  <2>2. QED
    BY <1>7, <2>1 DEF vars, disk, memory, AbstractVars, LogThen, DoubtThen
<1> QED
  BY <1>0, <1>1, <1>2, <1>3, <1>4, <1>5, <1>6, <1>7 DEF Next, OpenNext

LEMMA AbstractInit == Init => Abstract!Init
<1> SUFFICES ASSUME Init PROVE Abstract!Init
  OBVIOUS
<1>1. Frames(segment) = {} /\ Replayable(segment)
  BY EmptySeq DEF Init, Frames, Replayable
<1> QED
  BY <1>1 DEF Init, NoSnapshot, Recovered, LogThen, DoubtThen, Abstract!Init

\* Callers of a store see a DurableLog, whatever I/O errors and crashes occur,
\* provided they do not Compact while a WriteSnapshot runs.
THEOREM StoreIsDurableLog ==
    ASSUME CallersSerialize
    PROVE  Spec => ImplementsDurableLog
<1>1. IInv /\ [Next]_vars => IInv'
  BY InductiveStep
<1>2. IInv /\ NoGaps /\ [Next]_vars => NoGaps'
  BY NoGapsStep
<1>3. IInv /\ Pristine /\ [Next]_vars => Pristine'
  BY PristineStep
<1>4. IInv /\ IInv' /\ NoGaps /\ Pristine /\ [Next]_vars
         => [Abstract!Next]_AbstractVars
  BY AbstractStep
<1> QED
  BY <1>1, <1>2, <1>3, <1>4, InductiveInit, NoGapsInit, PristineInit,
     AbstractInit, PTL
  DEF Spec, ImplementsDurableLog, Abstract!Spec, Abstract!vars, AbstractVars

-----------------------------------------------------------------------------
(***************************************************************************)
(* What fails without harm.  Only a failed fsync makes Append write the    *)
(* same number twice; only a Compact that fails leaves the log closed.     *)
(***************************************************************************)
\* The catalog and the log count alike, and a file that is not whole has an
\* unfinished line at its end, or for a header.
InStep ==
    /\ status = "open" =>
          /\ Whole(segment) \/ TornTail(segment)
          /\ Whole(segment) => EndSeq(segment) = durableSeq + 1
          /\ nextSeq = durableSeq + 1
    /\ "compact" \notin Faults /\ status \in {"replaying", "open"} => logOpen
    /\ Whole(segment) \/ TornTail(segment) \/ segment.header = "partial"
    /\ SegmentContiguous
    /\ RefusalExplained

LEMMA WholeIsNotTorn ==
    ASSUME NEW seg \in Segment, Whole(seg)
    PROVE  ~TornTail(seg)
<1>1. Len(seg.frames) \in Nat
  BY DEF Segment
<1> QED
  BY <1>1 DEF TornTail, Whole

\* Part of a frame at the end of a file leaves the lines before it as they are.
LEMMA FragmentTears ==
    ASSUME NEW seg \in Segment, NEW n \in Nat
    PROVE  LET new == WriteLine(seg, n, Fragment)
           IN /\ TornTail(new)
              /\ new.base = seg.base
              /\ \A i \in 1..Len(new.frames) : new.frames[i].mut # Fragment =>
                    i \in 1..Len(seg.frames) /\ new.frames[i] = seg.frames[i]
<1> DEFINE f == [seq |-> n, mut |-> Fragment]
           len == Len(seg.frames)
<1>1. CASE TornTail(seg)
  BY <1>1 DEF WriteLine
<1>2. CASE ~TornTail(seg)
  <2>1. seg.frames \in Seq(Frame) /\ f \in Frame /\ len \in Nat
    BY DEF Segment, Frame
  <2>2. /\ WriteLine(seg, n, Fragment).frames = Append(seg.frames, f)
        /\ WriteLine(seg, n, Fragment).base = seg.base
    BY <1>2 DEF WriteLine, Segment
  <2>3. /\ Len(Append(seg.frames, f)) = len + 1
        /\ Append(seg.frames, f)[len + 1] = f
        /\ \A i \in 1..len : Append(seg.frames, f)[i] = seg.frames[i]
    BY <2>1, AppendProperties
  <2>4. f.mut = Fragment
    OBVIOUS
  <2> HIDE DEF f
  <2> QED
    BY <2>1, <2>2, <2>3, <2>4 DEF TornTail
<1> QED
  BY <1>1, <1>2

\* Any line Append writes, all of it or a part, with the number that is next.
LEMMA LineWritten ==
    ASSUME IInv, InStep, status = "open", NEW m \in Mutations,
           NEW line \in {m, Fragment},
           segment' = WriteLine(segment, durableSeq + 1, line)
    PROVE  /\ Whole(segment') \/ TornTail(segment')
           /\ Whole(segment') =>
                 line = m /\ EndSeq(segment') = durableSeq + 2
           /\ SegmentContiguous'
<1>1. /\ segment \in Segment /\ segment' \in Segment /\ durableSeq \in Nat
      /\ Whole(segment) \/ TornTail(segment)
      /\ Whole(segment) => EndSeq(segment) = durableSeq + 1
      /\ SegmentContiguous
  <2>1. segment \in Segment /\ durableSeq \in Nat
    BY DEF IInv, TypeInv, TypeOK
  <2>2. WriteLine(segment, durableSeq + 1, line) \in Segment
    BY <2>1, WriteLineType
  <2> QED
    BY <2>1, <2>2 DEF InStep
<1>2. CASE TornTail(segment)
  <2>1. segment' = segment /\ ~Whole(segment)
    BY <1>1, <1>2, WholeIsNotTorn DEF WriteLine
  <2> QED
    BY <1>1, <1>2, <2>1 DEF SegmentContiguous
<1>3. CASE Whole(segment) /\ line = m
  <2>1. Whole(segment') /\ EndSeq(segment') = durableSeq + 2
    BY <1>1, <1>3, WriteLineWhole
  <2> QED
    BY <1>3, <2>1 DEF Whole, SegmentContiguous
<1>4. CASE Whole(segment) /\ line = Fragment
  <2>1. /\ TornTail(segment') /\ segment'.base = segment.base
        /\ \A i \in 1..Len(segment'.frames) : segment'.frames[i].mut # Fragment =>
              i \in 1..Len(segment.frames) /\ segment'.frames[i] = segment.frames[i]
    BY <1>1, <1>4, FragmentTears
  <2>2. ~Whole(segment')
    BY <1>1, <2>1, WholeIsNotTorn
  <2> QED
    BY <1>1, <2>1, <2>2 DEF SegmentContiguous
<1> QED
  BY <1>1, <1>2, <1>3, <1>4

LEMMA InStepStep ==
    ASSUME "sync" \notin Faults, IInv, ManifestCovered, Pristine, InStep, [Next]_vars
    PROVE  InStep'
<1> USE DEF InStep
<1>t. /\ segment \in Segment /\ durableSeq \in Nat /\ nextSeq \in Nat
      /\ snapshot \in Snaps
  BY DEF IInv, TypeInv, TypeOK, Snaps
<1>0. CASE CreateFails
  <2>1. /\ segment'.header = "partial" /\ segment'.base = segment.base
        /\ segment'.frames = segment.frames
        /\ status = "closed" /\ status' = "closed"
    BY <1>0, <1>t DEF CreateFails, memory, Segment
  <2>2. QED
    BY <2>1 DEF RefusalExplained, SegmentContiguous
<1>1. CASE OpenRefused
  <2>1. segment' = segment /\ status' = "refused" /\ acked' = acked /\ ~Replayable(segment)
    BY <1>1, <1>t DEF OpenRefused, LoadFails, disk, ManifestCovered, IInv,
       TypeInv, TypeOK, Snapshot
  <2>2. \/ TornTail(segment)
        \/ segment.header = "partial" /\ acked = {}
        \/ \E i \in 1..Len(segment.frames) : segment.frames[i].mut \in Oversized
    BY <2>1 DEF Whole, Replayable, Pristine
  <2>3. QED
    BY <2>1, <2>2 DEF RefusalExplained, SegmentContiguous
<1>2. CASE OpenLoad
  <2>1. /\ status' = "replaying" /\ logOpen' /\ Replayable(segment')
    BY <1>2, <1>t, CreatedProperties DEF OpenLoad, LoadFails
  <2>2. Whole(segment')
    BY <2>1 DEF Whole, Replayable
  <2>3. QED
    BY <2>1, <2>2 DEF RefusalExplained, SegmentContiguous, Whole
<1>3. CASE ReplayEntry
  BY <1>3 DEF ReplayEntry, disk, RefusalExplained, SegmentContiguous
<1>4. CASE OpenDone
  <2>1. /\ status = "replaying" /\ status' = "open" /\ segment' = segment
        /\ durableSeq' = durableSeq /\ nextSeq' = nextSeq /\ logOpen' = logOpen
        /\ replayAt > Len(segment.frames)
    BY <1>4 DEF OpenDone, disk
  <2>2. /\ Replayable(segment) /\ nextSeq = EndSeq(segment)
        /\ replayAt \in 1..(Len(segment.frames) + 1)
        /\ segment.base + replayAt - 2 <= durableSeq
        /\ durableSeq < EndSeq(segment)
    BY <2>1 DEF IInv, ReplaySound
  <2>3. EndSeq(segment) = durableSeq + 1
    BY <1>t, <2>1, <2>2 DEF EndSeq, Segment
  <2>4. QED
    BY <2>1, <2>2, <2>3 DEF RefusalExplained, Whole, Replayable, SegmentContiguous
<1>5. CASE Close \/ Crash
  BY <1>5 DEF Close, Crash, disk, RefusalExplained, SegmentContiguous
<1>6. ASSUME NEW m \in Mutations, ApplyCommit(m)
      PROVE  InStep'
  <2>1. /\ status = "open" /\ status' = "open" /\ logOpen' = logOpen
        /\ segment' = WriteLine(segment, durableSeq + 1, m)
        /\ durableSeq' = durableSeq + 1 /\ nextSeq' = nextSeq + 1
    BY <1>6 DEF ApplyCommit, AppendReady
  <2>2. /\ Whole(segment') \/ TornTail(segment')
        /\ Whole(segment') => EndSeq(segment') = durableSeq + 2
        /\ SegmentContiguous'
    BY <2>1, LineWritten
  <2>3. QED
    BY <1>t, <2>1, <2>2 DEF RefusalExplained
<1>7. ASSUME NEW m \in Mutations, CrashInApply(m)
      PROVE  InStep'
  <2>1. /\ status = "open" /\ status' = "closed"
        /\ \E line \in {m, Fragment} :
              segment' = WriteLine(segment, durableSeq + 1, line)
    BY <1>7 DEF CrashInApply, AppendReady
  <2>2. (Whole(segment') \/ TornTail(segment')) /\ SegmentContiguous'
    BY <2>1, LineWritten
  <2>3. QED
    BY <2>1, <2>2 DEF RefusalExplained
<1>8. ASSUME NEW m \in Mutations, ApplyFails(m)
      PROVE  InStep'
  <2>1. /\ status = "open" /\ status' = "open" /\ logOpen' = logOpen
        /\ durableSeq' = durableSeq /\ nextSeq' = nextSeq
        /\ \/ segment' = segment
           \/ segment' = WriteLine(segment, durableSeq + 1, Fragment)
    BY <1>8 DEF ApplyFails, AppendReady, memory
  <2>2. CASE segment' = segment
    BY <2>1, <2>2 DEF RefusalExplained, SegmentContiguous
  <2>3. CASE segment' = WriteLine(segment, durableSeq + 1, Fragment)
    <3>1. /\ Whole(segment') \/ TornTail(segment')
          /\ Whole(segment') => Fragment = m
          /\ SegmentContiguous'
      BY <2>1, <2>3, LineWritten
    <3> QED
      BY <2>1, <3>1, FragmentAssumption DEF RefusalExplained
  <2> QED
    BY <2>1, <2>2, <2>3
<1>9. CASE CompactTruncate \/ CompactThroughFails \/ CompactManifestFails
  <2>1. /\ durableSeq' = durableSeq /\ status' = status
        /\ \/ segment' = segment /\ nextSeq' = nextSeq
           \/ /\ compactStep = "snapshotted" /\ CanTruncate(segment, durableSeq)
              /\ segment' = Truncated(segment, durableSeq)
              /\ nextSeq' \in {nextSeq, EndSeq(segment')}
        /\ "compact" \notin Faults => logOpen' = logOpen
        /\ compactStep # "idle"
    BY <1>9 DEF CompactTruncate, CompactThroughFails, CompactManifestFails, memory
  <2>2. status = "open"
    BY <2>1 DEF IInv, CompactSound
  <2>3. CASE segment' = segment /\ nextSeq' = nextSeq
    BY <2>1, <2>2, <2>3 DEF RefusalExplained, SegmentContiguous
  <2>4. CASE segment' # segment \/ nextSeq' # nextSeq
    <3>1. /\ CanTruncate(segment, durableSeq)
          /\ segment' = Truncated(segment, durableSeq)
          /\ nextSeq' \in {nextSeq, EndSeq(segment')}
          /\ Replayable(segment) /\ segment.base <= durableSeq
      BY <2>1, <2>4 DEF CanTruncate
    <3>2. Whole(segment)
      BY <3>1 DEF Replayable, Whole
    <3>3. Replayable(segment') /\ EndSeq(segment') = EndSeq(segment)
      BY <1>t, <2>2, <3>1, <3>2, TruncatedProperties
    <3>4. Whole(segment') /\ SegmentContiguous'
      BY <3>3 DEF Replayable, Whole, SegmentContiguous
    <3> QED
      BY <2>1, <2>2, <3>1, <3>2, <3>3, <3>4 DEF RefusalExplained
  <2> QED
    BY <2>3, <2>4
<1>10. CASE \/ SnapshotNext
            \/ \E m \in Mutations : ApplyIdempotent(m)
            \/ CompactWriteSnapshot \/ CompactInstallManifest \/ CompactRejected
            \/ UNCHANGED vars
  <2>1. /\ segment' = segment /\ status' = status /\ durableSeq' = durableSeq
        /\ nextSeq' = nextSeq /\ logOpen' = logOpen
        /\ status = "refused" => acked' = acked
    BY <1>10 DEF SnapshotNext, SnapshotCopy, SnapshotInstall, SnapshotRecord,
       SnapshotFails, ApplyIdempotent, CompactWriteSnapshot,
       CompactInstallManifest, CompactRejected, disk, memory, vars
  <2>2. QED
    BY <2>1 DEF RefusalExplained, SegmentContiguous
<1> QED
  BY <1>0, <1>1, <1>2, <1>3, <1>4, <1>5, <1>6, <1>7, <1>8, <1>9, <1>10
  DEF Next, OpenNext, ApplyNext, CompactNext

LEMMA InStepAlways ==
    ASSUME CallersSerialize, "sync" \notin Faults
    PROVE  Spec => []InStep
<1>1. Init => ManifestCovered
  BY DEF Init, ManifestCovered, Snaps, InFlight, NoSnapshot, Idle
<1>2. Init => InStep
  BY EmptySeq DEF Init, InStep, Whole, RefusalExplained, SegmentContiguous
<1>3. IInv /\ [Next]_vars => IInv'
  BY InductiveStep
<1>4. IInv /\ ManifestCovered /\ [Next]_vars => ManifestCovered'
  BY ManifestStep
<1>5. IInv /\ Pristine /\ [Next]_vars => Pristine'
  BY PristineStep
<1>6. IInv /\ ManifestCovered /\ Pristine /\ InStep /\ [Next]_vars => InStep'
  BY InStepStep
<1> QED
  BY <1>1, <1>2, <1>3, <1>4, <1>5, <1>6, InductiveInit, PristineInit, PTL DEF Spec

\* An open store accepts the next write, whatever writes and snapshots fail: no
\* crash, replay or compaction lets the catalog's count and the log's drift
\* apart.
THEOREM OpenIsWritable ==
    ASSUME CallersSerialize, Faults \intersect {"sync", "compact"} = {}
    PROVE  Spec => []WritableWhenOpen
<1>1. "sync" \notin Faults /\ "compact" \notin Faults
  OBVIOUS
<1>2. InStep => WritableWhenOpen
  BY <1>1 DEF InStep, WritableWhenOpen
<1> QED
  BY <1>1, <1>2, InStepAlways, PTL

\* Open refuses a store only for an unfinished line, a frame that is too long,
\* or the unfinished header of a first Open that died, which costs nothing that
\* was acknowledged; unless an fsync has failed, which is the one I/O error that
\* can make a store unreadable in any other way.
THEOREM OnlyBadWritesRefused ==
    ASSUME CallersSerialize, "sync" \notin Faults
    PROVE  Spec => []RefusalExplained
<1>1. InStep => RefusalExplained
  BY DEF InStep
<1> QED
  BY <1>1, InStepAlways, PTL

\* The file never holds a number twice or leaves one out, unless an fsync has
\* failed.
THEOREM LinesContiguous ==
    ASSUME CallersSerialize, "sync" \notin Faults
    PROVE  Spec => []SegmentContiguous
<1>1. InStep => SegmentContiguous
  BY DEF InStep
<1> QED
  BY <1>1, InStepAlways, PTL

-----------------------------------------------------------------------------
(***************************************************************************)
(* What a DurableLog promises, whoever implements it.                      *)
(***************************************************************************)
AbstractInv == Abstract!Promise /\ Abstract!DoubtSound

Numbered(S) == \E n \in Nat : {x.seq : x \in S} = 1..n

\* TLC is told where to look for n.
LEMMA NumberedMeans ==
    ASSUME NEW S
    PROVE  Numbered(S) <=> \E n \in {0} \union {x.seq : x \in S} : {x.seq : x \in S} = 1..n
<1>1. ASSUME NEW n \in Nat, {x.seq : x \in S} = 1..n
      PROVE  n \in {0} \union {x.seq : x \in S}
  <2>1. n = 0 \/ n \in 1..n
    OBVIOUS
  <2> QED
    BY <1>1, <2>1
<1>2. ASSUME NEW n \in {0} \union {x.seq : x \in S}, {x.seq : x \in S} = 1..n
      PROVE  n \in Nat
  <2>1. n = 0 \/ n \in 1..n
    BY <1>2
  <2> QED
    BY <2>1
<1> QED
  BY <1>1, <1>2 DEF Numbered

\* The next entry keeps the numbers dense and the keys unique.
LEMMA NextEntryFits ==
    ASSUME NEW S, NEW e, {x.seq : x \in S} = 1..(e.seq - 1),
           e.seq \in {n + 1 : n \in {0} \union {x.seq : x \in S}},
           e.mut \in Keyed => \A x \in S : x.mut # e.mut,
           Numbered(S), SeqsUnique(S), KeysUnique(S)
    PROVE  /\ Numbered(S \union {e})
           /\ SeqsUnique(S \union {e})
           /\ KeysUnique(S \union {e})
<1>1. PICK n \in Nat : {x.seq : x \in S} = 1..n
  BY DEF Numbered
<1>2. e.seq \in Nat /\ e.seq > 0
  BY <1>1
<1>3. \A x \in S : x.seq # e.seq
  BY <1>2
<1>4. {x.seq : x \in S \union {e}} = 1..e.seq
  <2>1. {x.seq : x \in S \union {e}} = {x.seq : x \in S} \union {e.seq}
    OBVIOUS
  <2>2. 1..(e.seq - 1) \union {e.seq} = 1..e.seq
    BY <1>2
  <2> QED
    BY <2>1, <2>2
<1> QED
  BY <1>2, <1>3, <1>4 DEF Numbered, SeqsUnique, KeysUnique

\* The same, of an entry as DurableLog describes it.
LEMMA EntryFits ==
    ASSUME NEW m, NEW e \in Abstract!NextEntries(m), Abstract!IsNext(e, m),
           Numbered(LogThen), SeqsUnique(LogThen), KeysUnique(LogThen)
    PROVE  /\ Numbered(LogThen \union {e})
           /\ SeqsUnique(LogThen \union {e})
           /\ KeysUnique(LogThen \union {e})
<1>1. /\ e.mut = m
      /\ {x.seq : x \in LogThen} = 1..(e.seq - 1)
      /\ m \in Keyed => \A x \in LogThen : x.mut # m
  BY DEF Abstract!IsNext
<1>2. e.seq \in {n + 1 : n \in {0} \union {x.seq : x \in LogThen}}
  BY DEF Abstract!NextEntries
<1> QED
  BY <1>1, <1>2, NextEntryFits

\* The promise in the terms above.
LEMMA PromiseMeans ==
    Abstract!Promise <=>
        /\ status = "open" \/ Replayable(segment) => acked \subseteq LogThen
        /\ Numbered(LogThen)
        /\ SeqsUnique(LogThen \union acked)
        /\ KeysUnique(LogThen \union acked)
  BY NumberedMeans DEF Abstract!Promise, Abstract!Serves, SeqsUnique, KeysUnique

LEMMA PromiseMeansNext ==
    Abstract!Promise' <=>
        /\ status' = "open" \/ Replayable(segment') => acked' \subseteq LogThen'
        /\ Numbered(LogThen')
        /\ SeqsUnique(LogThen' \union acked')
        /\ KeysUnique(LogThen' \union acked')
  BY NumberedMeans DEF Abstract!Promise, Abstract!Serves, SeqsUnique, KeysUnique

\* Every step of a DurableLog keeps what it promises.
LEMMA PromiseStep ==
    ASSUME AbstractInv, [Abstract!Next]_AbstractVars
    PROVE  AbstractInv'
<1> DEFINE up == status = "open"
           sound == Replayable(segment)
<1>0. /\ up \/ sound => acked \subseteq LogThen
      /\ Numbered(LogThen)
      /\ SeqsUnique(LogThen \union acked) /\ SeqsUnique(LogThen)
      /\ KeysUnique(LogThen \union acked) /\ KeysUnique(LogThen)
  BY PromiseMeans DEF AbstractInv, SeqsUnique, KeysUnique
<1>d. /\ \A e \in DoubtThen : e \in Abstract!NextEntries(e.mut) /\ Abstract!IsNext(e, e.mut)
      /\ \A e, f \in DoubtThen : e = f
      /\ DoubtThen # {} => up /\ sound
  BY DEF AbstractInv, Abstract!DoubtSound
\* One entry more in the log, and perhaps among what was acknowledged.
<1>g. ASSUME NEW m, NEW e \in Abstract!NextEntries(m), Abstract!IsNext(e, m),
             LogThen' = LogThen \union {e}, acked' \subseteq acked \union {e},
             up \/ sound, DoubtThen' = {}
      PROVE  AbstractInv'
  <2>1. /\ Numbered(LogThen') /\ SeqsUnique(LogThen') /\ KeysUnique(LogThen')
    BY <1>0, <1>g, EntryFits
  <2>2. acked' \subseteq LogThen' /\ LogThen' \union acked' = LogThen'
    BY <1>0, <1>g
  <2> QED
    BY <1>g, <2>1, <2>2, PromiseMeansNext DEF AbstractInv, Abstract!DoubtSound
\* A log that no later process accepts.
<1>s. ASSUME LogThen' = {}, acked' = acked, DoubtThen' = {}, ~up', ~sound'
      PROVE  AbstractInv'
  <2>1. {x.seq : x \in LogThen'} = 1..0 /\ 0 \in Nat
    BY <1>s
  <2>2. Numbered(LogThen')
    BY <2>1 DEF Numbered
  <2>3. SeqsUnique(LogThen' \union acked') /\ KeysUnique(LogThen' \union acked')
    BY <1>0, <1>s DEF SeqsUnique, KeysUnique
  <2> QED
    BY <1>s, <2>2, <2>3, PromiseMeansNext DEF AbstractInv, Abstract!DoubtSound
\* A step of a log that stays as it is.
<1>k. ASSUME LogThen' = LogThen, acked' \subseteq acked \union LogThen,
             acked \subseteq LogThen \/ acked' = acked,
             up' \/ sound' => acked' \subseteq LogThen, Abstract!DoubtSound'
      PROVE  AbstractInv'
  <2>1. LogThen' \union acked' \subseteq LogThen \union acked
    BY <1>k
  <2>2. SeqsUnique(LogThen' \union acked') /\ KeysUnique(LogThen' \union acked')
    BY <1>0, <2>1 DEF SeqsUnique, KeysUnique
  <2> QED
    BY <1>0, <1>k, <2>2, PromiseMeansNext DEF AbstractInv
<1>1. ASSUME NEW m \in Mutations, Abstract!Submit(m)
      PROVE  AbstractInv'
  BY <1>1, <1>g DEF Abstract!Submit
<1>2. ASSUME NEW m \in Mutations, Abstract!Repeat(m)
      PROVE  AbstractInv'
  <2>1. up /\ up' /\ LogThen' = LogThen /\ DoubtThen' = DoubtThen /\ (sound' <=> sound)
        /\ acked \subseteq LogThen /\ acked' \subseteq acked \union LogThen
    BY <1>0, <1>2 DEF Abstract!Repeat
  <2>2. Abstract!DoubtSound'
    BY <1>d, <2>1 DEF Abstract!DoubtSound, Abstract!NextEntries, Abstract!IsNext
  <2> QED
    BY <2>1, <2>2, <1>k
<1>3. ASSUME NEW m \in Mutations, Abstract!Fail(m)
      PROVE  AbstractInv'
  <2>1. up /\ up' /\ LogThen' = LogThen /\ acked' = acked /\ acked \subseteq LogThen
    BY <1>0, <1>3 DEF Abstract!Fail
  <2>2. \/ DoubtThen' = {}
        \/ /\ sound' /\ sound
           /\ \E e \in Abstract!NextEntries(m) :
                 Abstract!IsNext(e, m) /\ DoubtThen' = {e}
    BY <1>3 DEF Abstract!Fail
  <2>3. Abstract!DoubtSound'
    BY <2>1, <2>2 DEF Abstract!DoubtSound, Abstract!NextEntries, Abstract!IsNext
  <2> QED
    BY <2>1, <2>3, <1>k
<1>4. ASSUME NEW m \in Mutations, Abstract!Interrupt(m)
      PROVE  AbstractInv'
  BY <1>4, <1>g, <1>s DEF Abstract!Interrupt
<1>5. CASE Abstract!Stop
  <2>1. up /\ ~up' /\ acked' = acked /\ DoubtThen' = {} /\ (sound' <=> sound)
        /\ LogThen' = IF ~sound THEN {} ELSE LogThen \union DoubtThen
    BY <1>5 DEF Abstract!Stop
  <2>2. CASE ~sound
    BY <2>1, <2>2, <1>s
  <2>3. CASE sound /\ DoubtThen = {}
    BY <1>0, <2>1, <2>3, <1>k DEF Abstract!DoubtSound
  <2>4. CASE sound /\ DoubtThen # {}
    <3>1. PICK e \in DoubtThen : TRUE
      BY <2>4
    <3>2. DoubtThen = {e}
      BY <1>d, <3>1
    <3>3. e \in Abstract!NextEntries(e.mut) /\ Abstract!IsNext(e, e.mut)
      BY <1>d
    <3> QED
      BY <2>1, <2>4, <3>2, <3>3, <1>g
  <2> QED
    BY <2>2, <2>3, <2>4
<1>6. CASE Abstract!Start
  <2>1. sound /\ LogThen' = LogThen /\ DoubtThen' = DoubtThen
        /\ ~up /\ acked \subseteq LogThen /\ acked' = acked
    BY <1>0, <1>6 DEF Abstract!Start
  <2>2. Abstract!DoubtSound'
    BY <1>d, <2>1 DEF Abstract!DoubtSound
  <2> QED
    BY <2>1, <2>2, <1>k
<1>7. CASE Abstract!StillBorn
  <2>1. /\ ~up' /\ ~sound' /\ LogThen' = {} /\ acked' = acked
        /\ DoubtThen' = {} /\ acked = {}
    BY <1>d, <1>7 DEF Abstract!StillBorn
  <2> QED
    BY <2>1, <1>s
<1>8. CASE UNCHANGED AbstractVars
  <2>1. LogThen' = LogThen /\ DoubtThen' = DoubtThen /\ (sound' <=> sound)
        /\ (up' <=> up) /\ acked' = acked
    BY <1>8 DEF AbstractVars
  <2>2. Abstract!DoubtSound'
    BY <1>d, <2>1 DEF Abstract!DoubtSound, Abstract!NextEntries, Abstract!IsNext
  <2> QED
    BY <1>0, <2>1, <2>2, <1>k
<1> QED
  BY <1>1, <1>2, <1>3, <1>4, <1>5, <1>6, <1>7, <1>8 DEF Abstract!Next

LEMMA PromiseInit == Abstract!Init => AbstractInv
<1> SUFFICES ASSUME Abstract!Init PROVE AbstractInv
  OBVIOUS
<1>1. LogThen = {} /\ acked = {} /\ DoubtThen = {}
  BY DEF Abstract!Init
<1>2. {x.seq : x \in LogThen} = 1..0 /\ 0 \in Nat
  BY <1>1
<1>3. Numbered(LogThen)
  BY <1>2 DEF Numbered
<1> QED
  BY <1>1, <1>3, PromiseMeans DEF AbstractInv, Abstract!DoubtSound, SeqsUnique, KeysUnique

\* Whatever is a DurableLog keeps what was acknowledged, in order, once; so the
\* specification that stores implement says all that callers need.
THEOREM LogKeepsPromise ==
    Abstract!Spec => []Abstract!Promise
<1>1. AbstractInv => Abstract!Promise
  BY DEF AbstractInv
<1> QED
  BY <1>1, PromiseInit, PromiseStep, PTL
  DEF Abstract!Spec, Abstract!vars, AbstractVars

\* Every store keeps that promise, in the state its files and its memory make.
THEOREM StoreKeepsPromise ==
    ASSUME CallersSerialize
    PROVE  Spec => []Abstract!Promise
<1> QED
  BY StoreIsDurableLog, LogKeepsPromise, PTL DEF ImplementsDurableLog

-----------------------------------------------------------------------------
(***************************************************************************)
(* Callers that do Compact while a WriteSnapshot is in flight.             *)
(***************************************************************************)
\* What has happened is all in a catalog that reaches as far, and what comes
\* next is consistent with it.
LEMMA NextIsConsistent ==
    ASSUME NEW C, NEW n \in Nat, Dense(C, n), NEW S, Consistent(S), C \subseteq S,
           \A x \in S : x.seq \in 1..n,
           NEW e, e.seq = n + 1, e.mut \in Keyed => \A c \in C : c.mut # e.mut
    PROVE  S \subseteq C /\ Consistent(S \union {e})
<1>1. S \subseteq C
  <2> SUFFICES ASSUME NEW x \in S PROVE x \in C
    OBVIOUS
  <2>1. PICK c \in C : c.seq = x.seq
    BY DEF Dense
  <2> QED
    BY <2>1 DEF Consistent, SeqsUnique
<1>2. KeysUnique(S \union {e})
  BY <1>1 DEF Consistent, KeysUnique
<1>3. \A x \in S : x.seq # e.seq
  OBVIOUS
<1>4. SeqsUnique(S \union {e})
  BY <1>3 DEF Consistent, SeqsUnique
<1> QED
  BY <1>1, <1>2, <1>4 DEF Consistent

\* A part of what is consistent is consistent.
LEMMA PartIsConsistent ==
    ASSUME NEW S, NEW T, Consistent(S), T \subseteq S
    PROVE  Consistent(T)
  BY DEF Consistent, SeqsUnique, KeysUnique

\* While an Append is admitted the catalog is all that is known to have
\* happened, and all that a replayable file holds; the next entry fits both.
LEMMA AppendFits ==
    ASSUME TypeInv, HistoryOne, CountsAlike, NEW m \in Mutations, AppendReady(m)
    PROVE  LET e == [seq |-> durableSeq + 1, mut |-> m]
           IN /\ \A x \in Known : x.seq \in 1..durableSeq
              /\ Consistent(Known \union {e})
              /\ Replayable(segment) =>
                    Consistent(Known \union Frames(segment) \union {e})
<1> DEFINE e == [seq |-> durableSeq + 1, mut |-> m]
<1>t. /\ durableSeq \in Nat /\ segment \in Segment /\ segment.base \in Nat \ {0}
      /\ Known \subseteq Entry /\ \A x \in Entry : x.seq \in Nat
      /\ Len(segment.frames) \in Nat
  BY KnownType DEF TypeInv, TypeOK, Segment
<1>1. /\ status = "open" /\ nextSeq = durableSeq + 1
      /\ \A c \in catalog : ~(c.mut = m /\ m \in Keyed)
  BY DEF AppendReady, Remembered
<1>2. Dense(catalog, durableSeq) /\ Consistent(Known) /\ catalog \subseteq Known
  BY <1>1 DEF HistoryOne, Known
<1>3. \A x \in Known : x.seq \in 1..durableSeq
  BY <1>t, <1>1 DEF HistoryOne, CountsAlike
<1>4. /\ e.seq = durableSeq + 1 /\ e.mut = m
      /\ e.mut \in Keyed => \A c \in catalog : c.mut # e.mut
  BY <1>1
<1> HIDE DEF e
<1>5. Consistent(Known \union {e})
  BY <1>t, <1>2, <1>3, <1>4, NextIsConsistent
<1>6. ASSUME Replayable(segment)
      PROVE  Consistent((Known \union Frames(segment)) \union {e})
  <2>1. \A f \in Frames(segment) : f.seq \in 1..durableSeq
    <3>1. EndSeq(segment) = durableSeq + 1
      BY <1>1, <1>6 DEF CountsAlike
    <3>2. \A f \in Frames(segment) :
             f \in Entry /\ segment.base <= f.seq /\ f.seq < EndSeq(segment)
      BY <1>t, <1>6, FrameFacts
    <3> QED
      BY <1>t, <3>1, <3>2
  <2>2. Consistent(Known \union Frames(segment))
    BY <1>6 DEF HistoryOne
  <2>3. \A x \in Known \union Frames(segment) : x.seq \in 1..durableSeq
    BY <1>3, <2>1
  <2>4. catalog \subseteq Known \union Frames(segment)
    BY <1>2
  <2> QED
    BY <1>t, <1>2, <1>4, <2>2, <2>3, <2>4, NextIsConsistent
<1> QED
  BY <1>3, <1>5, <1>6 DEF e

\* Steps that leave the lines of the segment alone, and only forget snapshots
\* or mutations, keep the history one.
LEMMA HistoryKept ==
    ASSUME HistoryOne, segment'.base = segment.base,
           segment'.frames = segment.frames,
           Replayable(segment') => Replayable(segment),
           Snaps' \subseteq Snaps, Known' \subseteq Known,
           status' \in {"open", "replaying"} => Dense(catalog', durableSeq')
    PROVE  HistoryOne'
<1>1. Frames(segment') = Frames(segment) /\ EndSeq(segment') = EndSeq(segment)
  BY DEF Frames, EndSeq
<1>2. Consistent(Known')
  BY PartIsConsistent DEF HistoryOne
<1>3. Replayable(segment') => Consistent(Known' \union Frames(segment'))
  <2>1. Known' \union Frames(segment') \subseteq Known \union Frames(segment)
    BY <1>1
  <2> QED
    BY <2>1, PartIsConsistent DEF HistoryOne
<1>4. /\ \A X \in Snaps' : Dense(X.entries, X.seq)
      /\ \A e \in Known' : e.seq > 0
      /\ Replayable(segment') => /\ \A X \in Snaps' : X.seq < EndSeq(segment')
                                 /\ \A e \in Known' : e.seq < EndSeq(segment')
  BY <1>1 DEF HistoryOne
<1> QED
  BY <1>2, <1>3, <1>4 DEF HistoryOne

\* A step that leaves the segment, the store and the stage of Compact alone.
LEMMA OverlapKept ==
    ASSUME TypeInv, HistoryOne, CountsAlike, Connected,
           segment' = segment, manifestSeq' = manifestSeq,
           status' = status, catalog' = catalog, durableSeq' = durableSeq,
           nextSeq' = nextSeq, replayAt' = replayAt, compactStep' = compactStep,
           Snaps' \subseteq Snaps, acked' \subseteq Known
    PROVE  HistoryOne' /\ CountsAlike' /\ Connected'
<1>1. Known' \subseteq Known
  <2>1. catalog \subseteq Known
    BY DEF Known
  <2> QED
    BY <2>1, KnownMonotone
<1>2. HistoryOne'
  <2>1. status \in {"open", "replaying"} => Dense(catalog, durableSeq)
    BY DEF HistoryOne
  <2> QED
    BY <1>1, <2>1, HistoryKept
<1>3. CountsAlike'
  BY <1>1 DEF CountsAlike
<1>4. Connected'
  <2>1. CASE compactStep # "truncated" /\ SnapsFollowed
    BY <2>1 DEF Connected, SnapsFollowed, Follows
  <2>2. CASE JustTruncated
    BY <2>2 DEF Connected, JustTruncated
  <2>3. CASE Cut
    BY <2>3 DEF Connected, Cut
  <2> QED
    BY <2>1, <2>2, <2>3 DEF Connected
<1> QED
  BY <1>2, <1>3, <1>4

\* A store that is not open, or stops to be, over the same lines.
LEMMA OverlapStops ==
    ASSUME TypeInv, TypeInv', HistoryOne, CountsAlike, Connected,
           segment'.base = segment.base, segment'.frames = segment.frames,
           Replayable(segment') => Replayable(segment),
           manifestSeq' = manifestSeq, Snaps' \subseteq Snaps, acked' = acked,
           catalog' \subseteq Known, compactStep' = "idle",
           compactStep = "truncated" => Snaps' = {snapshot'},
           status' \in {"closed", "refused"}
    PROVE  HistoryOne' /\ CountsAlike' /\ Connected'
<1>t. /\ \A X \in Snaps : X.seq \in Nat
      /\ snapshot' \in Snaps'
      /\ segment.base \in Nat
  BY KnownType DEF TypeInv, TypeOK, Snaps, Segment
<1>1. Known' \subseteq Known
  <2>1. acked \subseteq Known
    BY DEF Known
  <2> QED
    BY <2>1, KnownMonotone
<1>2. HistoryOne'
  BY <1>1, HistoryKept
<1>3. CountsAlike'
  BY DEF CountsAlike
<1>4. SnapsFollowed => Connected'
  BY DEF Connected, SnapsFollowed, Follows
<1>5. Cut => Connected'
  BY DEF Connected, Cut
<1>6. JustTruncated => Connected'
  <2> SUFFICES ASSUME JustTruncated PROVE Connected'
    OBVIOUS
  <2>1. /\ Snaps' = {snapshot'} /\ snapshot'.seq \in Nat
        /\ segment'.frames = <<>> /\ segment'.base \in Nat
    BY <1>t DEF JustTruncated
  <2>2. CASE segment'.base <= snapshot'.seq + 1
    BY <2>1, <2>2 DEF Connected, SnapsFollowed, Follows
  <2>3. CASE ~(segment'.base <= snapshot'.seq + 1)
    BY <2>1, <2>3 DEF Connected, Cut
  <2> QED
    BY <2>2, <2>3
<1> QED
  BY <1>2, <1>3, <1>4, <1>5, <1>6 DEF Connected

\* An Append writes its line, acknowledged or not, and counts on or stops.
LEMMA OverlapAppends ==
    ASSUME TypeInv, TypeInv', HistoryOne, CountsAlike, Connected,
           NEW m \in Mutations, AppendReady(m), NEW line \in {m, Fragment},
           segment' = WriteLine(segment, durableSeq + 1, line),
           manifestSeq' = manifestSeq, Snaps' \subseteq Snaps,
           compactStep' = "idle",
           \/ /\ status' = "closed" /\ catalog' = {} /\ acked' = acked
           \/ /\ line = Fragment
              /\ status' = "open" /\ catalog' = catalog /\ acked' = acked
              /\ durableSeq' = durableSeq /\ nextSeq' = nextSeq
           \/ /\ line = m
              /\ status' = "open"
              /\ catalog' = catalog \union {[seq |-> durableSeq + 1, mut |-> m]}
              /\ acked' = acked \union {[seq |-> durableSeq + 1, mut |-> m]}
              /\ durableSeq' = durableSeq + 1 /\ nextSeq' = nextSeq + 1
    PROVE  HistoryOne' /\ CountsAlike' /\ Connected'
<1> DEFINE e == [seq |-> durableSeq + 1, mut |-> m]
<1>t. /\ durableSeq \in Nat /\ nextSeq \in Nat /\ segment \in Segment
      /\ segment.base \in Nat \ {0} /\ Len(segment.frames) \in Nat
      /\ EndSeq(segment) \in Nat
      /\ \A X \in Snaps : X.seq \in Nat
      /\ Known \subseteq Entry /\ \A x \in Entry : x.seq \in Nat
  BY KnownType DEF TypeInv, TypeOK, Segment, EndSeq
<1>1. /\ status = "open" /\ compactStep = "idle" /\ nextSeq = durableSeq + 1
      /\ Dense(catalog, durableSeq) /\ catalog \subseteq Known
      /\ \A X \in Snaps : X.seq <= durableSeq
      /\ segment.base <= durableSeq + 1
  BY DEF AppendReady, HistoryOne, CountsAlike, Known
<1>2. /\ \A x \in Known : x.seq \in 1..durableSeq
      /\ Consistent(Known \union {e})
      /\ Replayable(segment) => Consistent(Known \union Frames(segment) \union {e})
  BY AppendFits
<1>3. SnapsFollowed
  <2>1. ~JustTruncated
    BY <1>1 DEF JustTruncated
  <2>2. ~Cut
    BY <1>t, <1>1 DEF Cut
  <2> QED
    BY <2>1, <2>2 DEF Connected
<1>4. segment'.base = segment.base
  BY <1>t DEF WriteLine, Segment
<1>5. Replayable(segment') =>
         /\ Replayable(segment) /\ line = m
         /\ EndSeq(segment) = durableSeq + 1
         /\ EndSeq(segment') = durableSeq + 2
         /\ Frames(segment') = Frames(segment) \union {e}
  <2>1. line \in Mutations \union {Fragment}
    OBVIOUS
  <2> SUFFICES ASSUME Replayable(segment')
               PROVE  /\ Replayable(segment) /\ line = m
                      /\ EndSeq(segment) = durableSeq + 1
                      /\ EndSeq(segment') = durableSeq + 2
                      /\ Frames(segment') = Frames(segment) \union {e}
    OBVIOUS
  <2>2. /\ Replayable(segment)
        /\ line # Fragment
        /\ durableSeq + 1 = EndSeq(segment)
        /\ EndSeq(segment') = EndSeq(segment) + 1
        /\ Frames(segment') =
              Frames(segment) \union {[seq |-> durableSeq + 1, mut |-> line]}
    BY <1>t, <2>1, WriteLineReplayable
  <2> QED
    BY <1>t, <2>2
<1>6. /\ Known' \subseteq Known \union {e}
      /\ line = Fragment => Known' \subseteq Known
  <2>1. UNION {X.entries : X \in Snaps'} \subseteq Known
    BY DEF Known
  <2>2. acked \subseteq Known
    BY DEF Known
  <2>3. /\ acked' \subseteq Known \union {e} /\ catalog' \subseteq Known \union {e}
        /\ line = Fragment => acked' \subseteq Known /\ catalog' \subseteq Known
    BY <1>1, <2>2, FragmentAssumption
  <2> QED
    BY <2>1, <2>3 DEF Known
<1>7. e.seq = durableSeq + 1
  OBVIOUS
<1>d. status' = "open" => /\ Dense(catalog', durableSeq')
                          /\ nextSeq' = durableSeq' + 1
                          /\ durableSeq' >= durableSeq
                          /\ line = m => durableSeq' = durableSeq + 1
                          /\ line = Fragment => durableSeq' = durableSeq
  <2>1. Dense(catalog \union {e}, durableSeq + 1)
    BY <1>t, <1>1, <1>7, DenseGrows
  <2>2. m # Fragment
    BY FragmentAssumption
  <2>3. CASE status' = "closed"
    BY <2>3
  <2>4. CASE catalog' = catalog /\ durableSeq' = durableSeq /\ nextSeq' = nextSeq
             /\ line = Fragment
    BY <1>t, <1>1, <2>2, <2>4
  <2>5. CASE /\ catalog' = catalog \union {e} /\ durableSeq' = durableSeq + 1
             /\ nextSeq' = nextSeq + 1 /\ line = m
    <3>1. Dense(catalog', durableSeq')
      BY <2>1, <2>5
    <3> QED
      BY <1>t, <1>1, <2>2, <2>5, <3>1
  <2> QED
    BY <2>3, <2>4, <2>5
<1>s. status' \in {"open", "closed"}
  OBVIOUS
<1> HIDE DEF e
<1>8. HistoryOne'
  <2>1. \A X \in Snaps' : Dense(X.entries, X.seq)
    BY DEF HistoryOne
  <2>2. Consistent(Known')
    BY <1>2, <1>6, PartIsConsistent
  <2>3. \A x \in Known' : x.seq \in 1..(durableSeq + 1)
    BY <1>t, <1>2, <1>6, <1>7
  <2>4. Replayable(segment') =>
           /\ Consistent(Known' \union Frames(segment'))
           /\ \A X \in Snaps' : X.seq < EndSeq(segment')
           /\ \A x \in Known' : x.seq < EndSeq(segment')
    <3> SUFFICES ASSUME Replayable(segment')
                 PROVE  /\ Consistent(Known' \union Frames(segment'))
                        /\ \A X \in Snaps' : X.seq < EndSeq(segment')
                        /\ \A x \in Known' : x.seq < EndSeq(segment')
      OBVIOUS
    <3>1. Known' \union Frames(segment') \subseteq
             Known \union Frames(segment) \union {e}
      BY <1>5, <1>6
    <3>2. Consistent(Known' \union Frames(segment'))
      BY <1>2, <1>5, <3>1, PartIsConsistent
    <3>3. \A X \in Snaps' : X.seq <= durableSeq /\ X.seq \in Nat
      BY <1>t, <1>1
    <3> QED
      BY <1>t, <1>5, <2>3, <3>2, <3>3
  <2> QED
    BY <1>d, <1>s, <2>1, <2>2, <2>3, <2>4 DEF HistoryOne
<1>9. CountsAlike'
  <2>1. ASSUME status' = "open"
        PROVE  /\ segment'.base <= nextSeq'
               /\ Replayable(segment') =>
                     nextSeq' = EndSeq(segment') /\ durableSeq' < nextSeq'
               /\ \A X \in Snaps' : X.seq <= durableSeq'
               /\ \A x \in Known' : x.seq <= durableSeq'
    <3>1. durableSeq' \in Nat /\ nextSeq' = durableSeq' + 1 /\ durableSeq' >= durableSeq
      BY <1>d, <2>1 DEF TypeInv, TypeOK
    <3>2. segment'.base <= nextSeq'
      BY <1>t, <1>1, <1>4, <3>1
    <3>3. Replayable(segment') => nextSeq' = EndSeq(segment') /\ durableSeq' < nextSeq'
      BY <1>t, <1>5, <1>d, <2>1, <3>1
    <3>4. \A X \in Snaps' : X.seq <= durableSeq'
      BY <1>t, <1>1, <3>1
    <3>5. \A x \in Known' : x.seq <= durableSeq'
      BY <1>t, <1>2, <1>6, <1>7, <1>d, <2>1, <3>1
    <3> QED
      BY <3>2, <3>3, <3>4, <3>5
  <2> QED
    BY <1>s, <2>1 DEF CountsAlike
<1>10. Connected'
  BY <1>3, <1>4, <1>s, <1>d DEF Connected, SnapsFollowed, Follows
<1> QED
  BY <1>8, <1>9, <1>10

\* The catalog becomes a snapshot: WriteSnapshot copies it, or Compact has
\* written it.
LEMMA OverlapCaptures ==
    ASSUME TypeInv, HistoryOne, CountsAlike, Connected,
           status = "open", compactStep = "idle", compactStep' # "truncated",
           segment' = segment, manifestSeq' = manifestSeq,
           status' = status, catalog' = catalog, durableSeq' = durableSeq,
           nextSeq' = nextSeq, replayAt' = replayAt, acked' = acked,
           Snaps' \subseteq Snaps \union {[seq |-> durableSeq, entries |-> catalog]}
    PROVE  HistoryOne' /\ CountsAlike' /\ Connected'
<1> DEFINE new == [seq |-> durableSeq, entries |-> catalog]
<1>t. durableSeq \in Nat /\ nextSeq \in Nat /\ segment.base \in Nat
  BY DEF TypeInv, TypeOK, Segment
<1>1. new.seq = durableSeq /\ new.entries = catalog /\ Snaps' \subseteq Snaps \union {new}
  OBVIOUS
<1> HIDE DEF new
<1>2. Known' \subseteq Known
  BY <1>1 DEF Known
<1>3. Dense(catalog, durableSeq)
  BY DEF HistoryOne
<1>4. HistoryOne'
  <2>1. \A X \in Snaps' : Dense(X.entries, X.seq)
    BY <1>1, <1>3 DEF HistoryOne
  <2>2. Consistent(Known') /\ \A x \in Known' : x.seq > 0
    BY <1>2, PartIsConsistent DEF HistoryOne
  <2>3. Replayable(segment) =>
           /\ Consistent(Known' \union Frames(segment))
           /\ \A X \in Snaps' : X.seq < EndSeq(segment)
           /\ \A x \in Known' : x.seq < EndSeq(segment)
    <3>1. Known' \union Frames(segment) \subseteq Known \union Frames(segment)
      BY <1>2
    <3>2. Replayable(segment) => durableSeq < EndSeq(segment)
      BY DEF CountsAlike
    <3> QED
      BY <1>1, <1>2, <3>1, <3>2, PartIsConsistent DEF HistoryOne
  <2> QED
    BY <1>3, <2>1, <2>2, <2>3 DEF HistoryOne
<1>5. CountsAlike'
  BY <1>t, <1>1, <1>2 DEF CountsAlike
<1>6. Connected'
  <2>1. ~JustTruncated
    BY DEF JustTruncated
  <2>2. CASE SnapsFollowed
    <3>1. segment.base <= durableSeq + 1
      BY <2>2 DEF SnapsFollowed, CountsAlike
    <3> QED
      BY <1>1, <2>2, <3>1 DEF Connected, SnapsFollowed, Follows
  <2>3. CASE Cut
    BY <1>1, <2>3 DEF Connected, Cut
  <2> QED
    BY <2>1, <2>2, <2>3 DEF Connected
<1> QED
  BY <1>4, <1>5, <1>6

\* Open replays a frame: it is the next one, or one the catalog has.
LEMMA OverlapReplays ==
    ASSUME TypeInv, HistoryOne, CountsAlike, Connected, ReplayEntry
    PROVE  HistoryOne' /\ CountsAlike' /\ Connected'
<1> DEFINE f == segment.frames[replayAt]
<1>t. /\ durableSeq \in Nat /\ nextSeq \in Nat /\ segment \in Segment
      /\ segment.base \in Nat \ {0} /\ Len(segment.frames) \in Nat
      /\ replayAt \in Nat
      /\ \A X \in Snaps : X.seq \in Nat
      /\ Known \subseteq Entry /\ \A x \in Entry : x.seq \in Nat
  BY KnownType DEF TypeInv, TypeOK, Segment
<1>1. /\ status = "replaying" /\ status' = "replaying"
      /\ Replayable(segment) /\ replayAt \in 1..Len(segment.frames)
      /\ compactStep # "truncated"
      /\ Dense(catalog, durableSeq) /\ catalog \subseteq Known
      /\ nextSeq = EndSeq(segment) /\ segment.base <= nextSeq
      /\ durableSeq < nextSeq
  BY <1>t DEF ReplayEntry, TypeInv, HistoryOne, CountsAlike, Known
<1>2. /\ segment' = segment /\ snapshot' = snapshot /\ manifestSeq' = manifestSeq
      /\ snapshotter' = snapshotter /\ acked' = acked /\ nextSeq' = nextSeq
      /\ compactStep' = compactStep /\ replayAt' = replayAt + 1
  BY DEF ReplayEntry, disk
<1>3. Snaps' = Snaps
  BY <1>2, SameSnaps
<1>4. SnapsFollowed
  <2>1. segment.frames # <<>>
    BY <1>1
  <2> QED
    BY <2>1 DEF Connected, JustTruncated, Cut
<1>5. f \in Frames(segment) /\ f.seq = segment.base + replayAt - 1
  BY <1>1 DEF Frames, Replayable
<1>6. /\ f \in Entry /\ f.seq < EndSeq(segment) /\ f.seq \in Nat /\ f.seq > 0
  BY <1>t, <1>1, <1>5, FrameFacts
<1>7. f.seq <= durableSeq + 1 /\ segment.base <= durableSeq + 1
  BY <1>t, <1>1, <1>4, <1>5 DEF SnapsFollowed
<1>8. Consistent(Known \union Frames(segment))
  BY <1>1 DEF HistoryOne
<1>9. \/ f.seq <= durableSeq /\ catalog' = catalog /\ durableSeq' = durableSeq
      \/ /\ f.seq = durableSeq + 1 /\ catalog' = catalog \union {f}
         /\ durableSeq' = f.seq
  <2>1. /\ f.seq <= durableSeq \/ Remembered(f.mut) # {} =>
              catalog' = catalog /\ durableSeq' = durableSeq
        /\ ~(f.seq <= durableSeq \/ Remembered(f.mut) # {}) =>
              catalog' = catalog \union {f} /\ durableSeq' = f.seq
    BY DEF ReplayEntry
  <2> HIDE DEF f
  <2>2. ASSUME Remembered(f.mut) # {} PROVE f.seq <= durableSeq
    <3>1. PICK c \in catalog : c.mut = f.mut /\ f.mut \in Keyed
      BY <2>2 DEF Remembered
    <3>2. c = f
      BY <1>1, <1>5, <1>8, <3>1 DEF Consistent, KeysUnique
    <3> QED
      BY <1>1, <1>t, <3>2 DEF Dense
  <2> QED
    BY <1>t, <1>6, <1>7, <2>1, <2>2
<1> HIDE DEF f
<1>10. /\ Dense(catalog', durableSeq') /\ durableSeq' \in Nat
       /\ f.seq <= durableSeq' /\ durableSeq <= durableSeq'
       /\ durableSeq' < nextSeq
  <2>1. CASE f.seq <= durableSeq /\ catalog' = catalog /\ durableSeq' = durableSeq
    BY <1>t, <1>1, <2>1
  <2>2. CASE /\ f.seq = durableSeq + 1 /\ catalog' = catalog \union {f}
             /\ durableSeq' = f.seq
    <3>1. Dense(catalog \union {f}, durableSeq + 1)
      BY <1>t, <1>1, <2>2, DenseGrows
    <3>2. Dense(catalog', durableSeq')
      BY <2>2, <3>1
    <3> QED
      BY <1>t, <1>1, <1>6, <2>2, <3>2
  <2> QED
    BY <1>9, <2>1, <2>2
<1>11. Known' \subseteq Known \union {f}
  <2>1. acked' \subseteq Known \union {f} /\ catalog' \subseteq Known \union {f}
    BY <1>1, <1>2, <1>9 DEF Known
  <2>2. UNION {X.entries : X \in Snaps'} \subseteq Known
    BY <1>3 DEF Known
  <2> QED
    BY <2>1, <2>2 DEF Known
<1>12. HistoryOne'
  <2>1. Known' \union Frames(segment') \subseteq Known \union Frames(segment)
    BY <1>2, <1>5, <1>11
  <2>2. Consistent(Known') /\ Consistent(Known' \union Frames(segment'))
    BY <1>8, <2>1, PartIsConsistent
  <2>3. \A x \in Known' : x.seq > 0 /\ x.seq < EndSeq(segment)
    BY <1>1, <1>6, <1>11 DEF HistoryOne
  <2> QED
    BY <1>1, <1>2, <1>3, <1>10, <2>2, <2>3 DEF HistoryOne
<1>13. CountsAlike'
  BY <1>t, <1>1, <1>2, <1>10 DEF CountsAlike
<1>14. Connected'
  <2>1. segment.base + (replayAt + 1) - 2 <= durableSeq'
    BY <1>t, <1>5, <1>6, <1>10
  <2> QED
    BY <1>t, <1>1, <1>2, <1>3, <1>4, <1>7, <1>10, <2>1
    DEF Connected, SnapsFollowed, Follows
<1> QED
  BY <1>12, <1>13, <1>14

\* Open loads a snapshot, and ends with nothing left to replay.
LEMMA OverlapOpens ==
    ASSUME TypeInv, HistoryOne, CountsAlike, Connected, OpenLoad \/ OpenDone
    PROVE  HistoryOne' /\ CountsAlike' /\ Connected'
<1>t. /\ durableSeq \in Nat /\ nextSeq \in Nat /\ segment \in Segment
      /\ segment.base \in Nat \ {0} /\ Len(segment.frames) \in Nat
      /\ replayAt \in Nat /\ EndSeq(segment) = segment.base + Len(segment.frames)
      /\ snapshot \in Snaps /\ manifestSeq \in Nat
      /\ \A X \in Snaps : X.seq \in Nat
      /\ Known \subseteq Entry /\ \A x \in Entry : x.seq \in Nat
  BY KnownType DEF TypeInv, TypeOK, Segment, Snaps, EndSeq
<1>1. /\ snapshot' = snapshot /\ manifestSeq' = manifestSeq
      /\ snapshotter' = snapshotter /\ acked' = acked
      /\ compactStep' = compactStep /\ compactStep = "idle"
  BY DEF OpenLoad, OpenDone, disk, TypeInv
<1>2. Snaps' = Snaps
  BY <1>1, SameSnaps
<1>3. ~JustTruncated
  BY <1>1 DEF JustTruncated
<1>4. CASE OpenLoad
  <2>1. /\ status' = "replaying" /\ segment' = Created(segment)
        /\ Replayable(segment) /\ ~(snapshot.seq < manifestSeq)
        /\ catalog' = snapshot.entries /\ durableSeq' = snapshot.seq
        /\ nextSeq' = EndSeq(segment) /\ replayAt' = 1
    BY <1>4 DEF OpenLoad, LoadFails
  <2>2. segment'.base = segment.base /\ segment'.frames = segment.frames
    BY <1>t, <2>1, CreatedProperties
  <2>3. Known' \subseteq Known
    <3>1. acked' \subseteq Known /\ catalog' \subseteq Known
      BY <1>t, <1>1, <2>1 DEF Known
    <3> QED
      BY <1>2, <3>1, KnownMonotone
  <2>4. Dense(catalog', durableSeq') /\ durableSeq' \in Nat
        /\ durableSeq' < EndSeq(segment)
    BY <1>t, <2>1 DEF HistoryOne
  <2>5. HistoryOne'
    BY <1>2, <2>1, <2>2, <2>3, <2>4, HistoryKept
  <2>6. EndSeq(segment') = EndSeq(segment)
    BY <2>2 DEF EndSeq
  <2>7. CountsAlike'
    BY <1>t, <2>1, <2>2, <2>4, <2>6 DEF CountsAlike
  <2>8. SnapsFollowed => Connected'
    BY <1>t, <1>1, <1>2, <2>1, <2>2 DEF Connected, SnapsFollowed, Follows
  <2>9. Cut => Connected'
    BY <1>t, <1>1, <1>2, <2>1, <2>2 DEF Connected, Cut
  <2> QED
    BY <1>3, <2>5, <2>7, <2>8, <2>9 DEF Connected
<1>5. CASE OpenDone
  <2>1. /\ status = "replaying" /\ status' = "open" /\ segment' = segment
        /\ catalog' = catalog /\ durableSeq' = durableSeq /\ nextSeq' = nextSeq
        /\ replayAt > Len(segment.frames) /\ Replayable(segment)
    BY <1>5 DEF OpenDone, disk, TypeInv
  <2>2. Known' = Known
    BY <1>1, <1>2, <2>1 DEF Known
  <2>3. /\ nextSeq = EndSeq(segment) /\ durableSeq < nextSeq
        /\ replayAt = Len(segment.frames) + 1
    BY <1>t, <2>1 DEF CountsAlike
  <2>4. HistoryOne'
    BY <1>2, <2>1, <2>2, HistoryKept DEF HistoryOne
  <2>5. CountsAlike'
    <3>1. /\ \A X \in Snaps : X.seq < EndSeq(segment)
          /\ \A x \in Known : x.seq < EndSeq(segment)
      BY <2>1 DEF HistoryOne
    <3>2. nextSeq = durableSeq + 1 =>
             /\ \A X \in Snaps : X.seq <= durableSeq
             /\ \A x \in Known : x.seq <= durableSeq
      BY <1>t, <2>3, <3>1
    <3> QED
      BY <1>2, <2>1, <2>2, <2>3, <3>2 DEF CountsAlike
  <2>6. SnapsFollowed => Connected'
    <3>1. SnapsFollowed => nextSeq = durableSeq + 1
      BY <1>t, <2>1, <2>3 DEF SnapsFollowed
    <3> QED
      BY <1>1, <1>2, <2>1, <3>1 DEF Connected, SnapsFollowed, Follows
  <2>7. Cut => Connected'
    BY <1>1, <1>2, <2>1 DEF Connected, Cut
  <2> QED
    BY <1>3, <2>4, <2>5, <2>6, <2>7 DEF Connected
<1> QED
  BY <1>4, <1>5

\* Compact drops the frames its snapshot covers, which are all there are, and
\* says so in a manifest.
LEMMA OverlapTruncates ==
    ASSUME TypeInv, TypeInv', HistoryOne, CountsAlike, Connected,
           CompactTruncate \/ CompactInstallManifest
    PROVE  HistoryOne' /\ CountsAlike' /\ Connected'
<1>t. /\ durableSeq \in Nat /\ nextSeq \in Nat /\ segment \in Segment
      /\ segment.base \in Nat \ {0} /\ Len(segment.frames) \in Nat
      /\ status = "open" /\ compactStep # "idle"
      /\ \A X \in Snaps : X.seq \in Nat
  BY KnownType DEF TypeInv, TypeOK, Segment, CompactTruncate,
     CompactInstallManifest
<1>1. /\ snapshot' = snapshot /\ snapshotter' = snapshotter /\ acked' = acked
      /\ catalog' = catalog /\ durableSeq' = durableSeq /\ status' = status
  BY DEF CompactTruncate, CompactInstallManifest, disk, memory
<1>2. Snaps' = Snaps /\ Known' = Known
  <2>1. Snaps' = Snaps
    BY <1>1, SameSnaps
  <2> QED
    BY <1>1, <2>1 DEF Known
<1>3. CASE CompactTruncate
  <2>1. /\ Replayable(segment) /\ segment.base <= durableSeq
        /\ segment' = Truncated(segment, durableSeq) /\ nextSeq' = EndSeq(segment')
        /\ compactStep = "snapshotted" /\ compactStep' = "truncated"
    BY <1>3 DEF CompactTruncate, CanTruncate
  <2>2. SnapsFollowed
    BY <1>t, <2>1 DEF Connected, JustTruncated, Cut
  <2>3. EndSeq(segment) = durableSeq + 1
    BY <1>t, <2>1, <2>2 DEF SnapsFollowed, CountsAlike
  <2>4. /\ segment' \in Segment /\ segment'.base = durableSeq + 1
        /\ EndSeq(segment') = durableSeq + 1
        /\ Frames(segment') \subseteq Frames(segment)
    BY <1>t, <2>1, <2>3, TruncatedProperties
  <2>5. segment'.frames = <<>>
    <3>1. segment'.frames \in Seq(Frame) /\ Len(segment'.frames) \in Nat
      BY <2>4 DEF Segment
    <3>2. segment'.base + Len(segment'.frames) = segment'.base
      BY <2>4 DEF EndSeq
    <3>3. segment'.base \in Nat
      BY <1>t, <2>4
    <3>4. Len(segment'.frames) = 0
      BY <3>1, <3>2, <3>3
    <3> QED
      BY <3>1, <3>4, EmptySeq
  <2>6. JustTruncated'
    BY <1>1, <2>1, <2>4, <2>5 DEF JustTruncated
  <2>7. HistoryOne'
    <3>1. Known' \union Frames(segment') \subseteq Known \union Frames(segment)
      BY <1>2, <2>4
    <3>2. Consistent(Known' \union Frames(segment'))
      BY <2>1, <3>1, PartIsConsistent DEF HistoryOne
    <3> QED
      BY <1>1, <1>2, <2>1, <2>3, <2>4, <3>2 DEF HistoryOne
  <2>8. CountsAlike'
    <3>1. /\ \A X \in Snaps : X.seq <= durableSeq
          /\ \A x \in Known : x.seq <= durableSeq
      BY <1>t, <2>2 DEF CountsAlike, SnapsFollowed
    <3> QED
      BY <1>t, <1>1, <1>2, <2>1, <2>4, <3>1 DEF CountsAlike
  <2> QED
    BY <2>6, <2>7, <2>8 DEF Connected
<1>4. CASE CompactInstallManifest
  <2>1. /\ segment' = segment /\ nextSeq' = nextSeq
        /\ manifestSeq' = durableSeq /\ compactStep = "truncated"
        /\ compactStep' = "idle"
    BY <1>4 DEF CompactInstallManifest
  <2>2. JustTruncated
    BY <2>1 DEF Connected, Cut
  <2>3. HistoryOne'
    BY <1>t, <1>1, <1>2, <2>1, HistoryKept DEF HistoryOne
  <2>4. CountsAlike'
    BY <1>t, <1>1, <1>2, <2>1 DEF CountsAlike
  <2>5. SnapsFollowed'
    BY <1>t, <1>1, <1>2, <2>1, <2>2 DEF JustTruncated, SnapsFollowed, Follows
  <2> QED
    BY <2>1, <2>3, <2>4, <2>5 DEF Connected
<1> QED
  BY <1>3, <1>4

\* No step breaks the invariant, whenever callers Compact, unless an fsync or
\* a Compact fails.
LEMMA OverlapStep ==
    ASSUME Faults \intersect {"sync", "compact"} = {}, OverlapInv, [Next]_vars
    PROVE  OverlapInv'
<1>t. /\ TypeInv /\ TypeInv' /\ HistoryOne /\ CountsAlike /\ Connected
      /\ acked \subseteq Known /\ catalog \subseteq Known
      /\ "sync" \notin Faults /\ "compact" \notin Faults
      /\ \A v \in Snapshotters : snapshotter[v] \in Writer
  BY TypeStep DEF OverlapInv, TypeInv, TypeOK, Known
<1>1. CASE CreateFails \/ OpenRefused \/ Close \/ Crash
  <2>1. Snaps' \subseteq Snaps
    BY <1>t, <1>1, SnapsStep DEF CreateFails, OpenRefused, Close, Crash, memory
  <2>2. /\ manifestSeq' = manifestSeq /\ acked' = acked
        /\ catalog' \subseteq Known /\ compactStep' = "idle"
        /\ status' \in {"closed", "refused"}
        /\ segment'.base = segment.base /\ segment'.frames = segment.frames
        /\ Replayable(segment') => Replayable(segment)
    <3>1. CASE CreateFails
      <4>1. /\ segment'.base = segment.base /\ segment'.frames = segment.frames
            /\ segment'.header = "partial"
        BY <1>t, <3>1 DEF CreateFails, TypeInv, TypeOK, Segment
      <4> QED
        BY <1>t, <3>1, <4>1 DEF CreateFails, Replayable, memory, TypeInv
    <3>2. CASE OpenRefused \/ Close \/ Crash
      BY <1>t, <3>2 DEF OpenRefused, Close, Crash, ForgetMemory, disk, TypeInv
    <3> QED
      BY <1>1, <3>1, <3>2
  <2>3. compactStep = "truncated" => Snaps' = {snapshot'}
    <3>1. CASE Crash
      BY <3>1 DEF Crash, Snaps, InFlight, Idle
    <3>2. CASE CreateFails \/ OpenRefused \/ Close
      BY <1>t, <3>2 DEF CreateFails, OpenRefused, Close, TypeInv
    <3> QED
      BY <1>1, <3>1, <3>2
  <2> QED
    BY <1>t, <2>1, <2>2, <2>3, OverlapStops DEF OverlapInv
<1>2. CASE OpenLoad \/ OpenDone
  BY <1>t, <1>2, OverlapOpens DEF OverlapInv
<1>3. CASE ReplayEntry
  BY <1>t, <1>3, OverlapReplays DEF OverlapInv
<1>4. CASE CompactTruncate \/ CompactInstallManifest
  BY <1>t, <1>4, OverlapTruncates DEF OverlapInv
<1>5. ASSUME NEW m \in Mutations, ApplyCommit(m) \/ ApplyFails(m) \/ CrashInApply(m)
      PROVE  OverlapInv'
  <2>1. AppendReady(m) /\ status = "open" /\ compactStep = "idle"
    BY <1>5 DEF ApplyCommit, ApplyFails, CrashInApply, AppendReady
  <2>2. manifestSeq' = manifestSeq /\ compactStep' = "idle"
    BY <1>5, <2>1 DEF ApplyCommit, ApplyFails, CrashInApply
  <2>3. Snaps' \subseteq Snaps
    <3>1. CASE ApplyCommit(m) \/ ApplyFails(m)
      BY <3>1, SameSnaps DEF ApplyCommit, ApplyFails
    <3>2. CASE CrashInApply(m)
      BY <3>2 DEF CrashInApply, Snaps, InFlight, Idle
    <3> QED
      BY <1>5, <3>1, <3>2
  <2>4. CASE ApplyCommit(m)
    BY <1>t, <2>1, <2>2, <2>3, <2>4, OverlapAppends DEF ApplyCommit, OverlapInv
  <2>5. CASE CrashInApply(m)
    <3>1. /\ status' = "closed" /\ catalog' = {} /\ acked' = acked
          /\ \E line \in {m, Fragment} :
                segment' = WriteLine(segment, durableSeq + 1, line)
      BY <2>5 DEF CrashInApply, ForgetMemory
    <3> QED
      BY <1>t, <2>1, <2>2, <2>3, <3>1, OverlapAppends DEF OverlapInv
  <2>6. CASE ApplyFails(m) /\ segment' = segment
    <3>1. /\ status' = status /\ catalog' = catalog /\ durableSeq' = durableSeq
          /\ nextSeq' = nextSeq /\ replayAt' = replayAt
          /\ compactStep' = compactStep /\ acked' = acked
      BY <2>6 DEF ApplyFails, memory
    <3> QED
      BY <1>t, <2>2, <2>3, <2>6, <3>1, OverlapKept DEF OverlapInv
  <2>7. CASE ApplyFails(m) /\ segment' # segment
    <3>1. /\ status' = "open" /\ catalog' = catalog /\ durableSeq' = durableSeq
          /\ nextSeq' = nextSeq /\ acked' = acked
          /\ segment' = WriteLine(segment, durableSeq + 1, Fragment)
      BY <1>t, <2>1, <2>7 DEF ApplyFails, memory
    <3> QED
      BY <1>t, <2>1, <2>2, <2>3, <3>1, OverlapAppends DEF OverlapInv
  <2> QED
    BY <1>5, <2>4, <2>5, <2>6, <2>7
<1>6. ASSUME NEW w \in Snapshotters, SnapshotCopy(w)
      PROVE  OverlapInv'
  <2>1. Snaps' \subseteq Snaps \union {[seq |-> durableSeq, entries |-> catalog]}
    BY <1>t, <1>6 DEF SnapshotCopy, disk, Snaps, InFlight
  <2> QED
    BY <1>t, <1>6, <2>1, OverlapCaptures
    DEF SnapshotCopy, disk, memory, OverlapInv
<1>7. CASE CompactWriteSnapshot
  <2>1. Snaps' \subseteq Snaps \union {[seq |-> durableSeq, entries |-> catalog]}
    BY <1>7 DEF CompactWriteSnapshot, Snaps, InFlight
  <2> QED
    BY <1>t, <1>7, <2>1, OverlapCaptures
    DEF CompactWriteSnapshot, memory, OverlapInv
<1>8. ASSUME NEW w \in Snapshotters,
             SnapshotInstall(w) \/ SnapshotRecord(w) \/ SnapshotFails(w)
      PROVE  OverlapInv'
  <2>1. /\ segment' = segment /\ manifestSeq' = manifestSeq /\ status' = status
        /\ catalog' = catalog /\ durableSeq' = durableSeq /\ nextSeq' = nextSeq
        /\ replayAt' = replayAt /\ compactStep' = compactStep /\ acked' = acked
    BY <1>8 DEF SnapshotInstall, SnapshotRecord, SnapshotFails, disk, memory
  <2>2. snapshot' \in Snaps
    BY <1>8 DEF SnapshotInstall, SnapshotRecord, SnapshotFails, disk, Snaps, InFlight
  <2>3. \A v \in Snapshotters : snapshotter'[v].phase = "copied" =>
           v \in InFlight /\ snapshotter'[v].data = snapshotter[v].data
    BY <1>t, <1>8 DEF SnapshotInstall, SnapshotRecord, SnapshotFails, Idle,
       InFlight, Writer, TypeInv, TypeOK
  <2>4. Snaps' \subseteq Snaps
    BY <2>2, <2>3 DEF Snaps, InFlight
  <2> QED
    BY <1>t, <2>1, <2>4, OverlapKept DEF OverlapInv
<1>9. CASE (\E m \in Mutations : ApplyIdempotent(m)) \/ UNCHANGED vars
  <2>1. /\ segment' = segment /\ manifestSeq' = manifestSeq /\ status' = status
        /\ catalog' = catalog /\ durableSeq' = durableSeq /\ nextSeq' = nextSeq
        /\ replayAt' = replayAt /\ compactStep' = compactStep
        /\ snapshot' = snapshot /\ snapshotter' = snapshotter
    BY <1>9 DEF ApplyIdempotent, disk, memory, vars
  <2>2. acked' \subseteq Known
    BY <1>t, <1>9 DEF ApplyIdempotent, Remembered, vars
  <2> QED
    BY <1>t, <2>1, <2>2, SameSnaps, OverlapKept DEF OverlapInv
<1>10. CASE CompactRejected
  <2>1. /\ segment' = segment /\ manifestSeq' = manifestSeq /\ status' = status
        /\ catalog' = catalog /\ durableSeq' = durableSeq /\ nextSeq' = nextSeq
        /\ replayAt' = replayAt /\ compactStep = "snapshotted" /\ compactStep' = "idle"
        /\ acked' = acked /\ Snaps' = Snaps
    BY <1>10, SameSnaps DEF CompactRejected, disk, memory
  <2>2. Known' = Known
    BY <2>1 DEF Known
  <2>3. HistoryOne'
    BY <2>1, <2>2, <1>t, HistoryKept DEF HistoryOne
  <2>4. CountsAlike'
    BY <1>t, <2>1, <2>2 DEF CountsAlike
  <2>5. Connected'
    BY <1>t, <2>1 DEF Connected, SnapsFollowed, Follows, JustTruncated, Cut
  <2> QED
    BY <1>t, <2>3, <2>4, <2>5 DEF OverlapInv
<1>11. ~CompactThroughFails /\ ~CompactManifestFails
  BY <1>t DEF CompactThroughFails, CompactManifestFails
<1> QED
  BY <1>1, <1>2, <1>3, <1>4, <1>5, <1>6, <1>7, <1>8, <1>9, <1>10, <1>11
  DEF Next, OpenNext, ApplyNext, SnapshotNext, CompactNext

LEMMA OverlapInit == Init => OverlapInv
<1> SUFFICES ASSUME Init PROVE OverlapInv
  OBVIOUS
<1>1. TypeInv
  BY TypeInit
<1>2. Snaps = {NoSnapshot} /\ Known = {} /\ Frames(segment) = {}
  BY DEF Init, Snaps, InFlight, Idle, Known, NoSnapshot, Frames
<1>3. Dense({}, 0) /\ Consistent({})
  BY DEF Dense, Consistent, SeqsUnique, KeysUnique
<1>4. EndSeq(segment) = 1
  BY DEF Init, EndSeq
<1>5. HistoryOne
  <2>1. NoSnapshot.seq = 0 /\ NoSnapshot.entries = {}
    BY DEF NoSnapshot
  <2>2. {} \union {} = {}
    OBVIOUS
  <2>3. status = "closed"
    BY DEF Init
  <2> QED
    BY <1>2, <1>3, <1>4, <2>1, <2>2, <2>3 DEF HistoryOne
<1>6. CountsAlike
  BY DEF Init, CountsAlike
<1>7. Connected
  BY <1>2 DEF Init, Connected, SnapsFollowed, Follows, NoSnapshot
<1> QED
  BY <1>1, <1>5, <1>6, <1>7 DEF OverlapInv

\* The catalogs, the snapshots and the replayable lines are beginnings of one
\* history at all times, whenever callers Compact.
THEOREM OverlapInvariant ==
    ASSUME Faults \intersect {"sync", "compact"} = {}
    PROVE  Spec => []OverlapInv
<1>1. OverlapInv /\ [Next]_vars => OverlapInv'
  BY OverlapStep
<1> QED
  BY <1>1, OverlapInit, PTL DEF Spec

\* A Compact beside a WriteSnapshot in flight leaves the catalog without gaps,
\* repeats no key, uses no number again, and loses no entry that a store still
\* counts: after a loss the store refuses every write.
THEOREM OverlapContained ==
    ASSUME Faults \intersect {"sync", "compact"} = {}
    PROVE  Spec => [](CatalogContiguous /\ KeyedOnce /\ SeqNeverReused /\ LossContained)
<1>1. OverlapInv => CatalogContiguous
  <2> SUFFICES ASSUME OverlapInv, status = "open"
               PROVE  /\ {e.seq : e \in catalog} = 1..durableSeq
                      /\ \A e, f \in catalog : e.seq = f.seq => e = f
    BY DEF CatalogContiguous
  <2>1. Dense(catalog, durableSeq)
    BY DEF OverlapInv, HistoryOne
  <2> QED
    BY <2>1 DEF Dense
<1>2. OverlapInv => KeyedOnce /\ SeqNeverReused
  BY DEF OverlapInv, HistoryOne, Consistent, KeysUnique, SeqsUnique, Known,
     KeyedOnce, SeqNeverReused
<1>3. OverlapInv => LossContained
  <2> SUFFICES ASSUME OverlapInv, status = "open"
               PROVE  /\ \A e \in acked : e.seq <= durableSeq => e \in catalog
                      /\ acked \subseteq catalog \/ nextSeq # durableSeq + 1
    BY DEF LossContained
  <2>1. /\ Dense(catalog, durableSeq) /\ durableSeq \in Nat
        /\ acked \subseteq Known /\ catalog \subseteq Known
        /\ \A e \in Known : e.seq \in Nat /\ e.seq > 0
        /\ SeqsUnique(Known)
    BY KnownType DEF OverlapInv, HistoryOne, TypeInv, TypeOK, Known, Consistent
  <2>2. ASSUME NEW e \in acked, e.seq <= durableSeq PROVE e \in catalog
    <3>1. e \in Known /\ e.seq \in 1..durableSeq
      BY <2>1, <2>2
    <3>2. PICK c \in catalog : c.seq = e.seq
      BY <2>1, <3>1 DEF Dense
    <3> QED
      BY <2>1, <3>1, <3>2 DEF SeqsUnique
  <2>3. nextSeq = durableSeq + 1 => \A e \in acked : e.seq <= durableSeq
    BY <2>1 DEF OverlapInv, CountsAlike
  <2> QED
    BY <2>2, <2>3
<1> QED
  BY <1>1, <1>2, <1>3, OverlapInvariant, PTL
=============================================================================
