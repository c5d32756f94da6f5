-------------------------- MODULE KiloStoreProofs --------------------------
(***************************************************************************)
(* Proofs about KiloStore: its type invariant for every instance, and that *)
(* no acknowledged mutation is lost, under every fault, when callers do    *)
(* not Compact while a WriteSnapshot is in flight.                         *)
(***************************************************************************)
EXTENDS KiloStoreInv, SequenceTheorems, TLAPS

(***************************************************************************)
(* Lemmas about the segment operators.                                     *)
(***************************************************************************)
\* Writing a line keeps a segment a segment (Log.Append).
LEMMA WriteLineType ==
    ASSUME NEW seg \in Segment, NEW n \in Nat,
           NEW m \in Mutations \union {Fragment}
    PROVE  WriteLine(seg, n, m) \in Segment
<1>1. Append(seg.frames, [seq |-> n, mut |-> m]) \in Seq(Frame)
  BY AppendProperties DEF Segment, Frame
<1>2. QED
  BY <1>1 DEF WriteLine, Segment

\* A line leaves a file replayable only if it was replayable and the line is
\* a whole frame with the expected sequence number; the file then holds it
\* in addition to what it held (Log.Append, replay).
LEMMA WriteLineReplayable ==
    ASSUME NEW seg \in Segment, NEW n \in Nat,
           NEW m \in Mutations \union {Fragment},
           Replayable(WriteLine(seg, n, m))
    PROVE  /\ Replayable(seg)
           /\ m \notin {Fragment} \union Oversized
           /\ n = EndSeq(seg)
           /\ WriteLine(seg, n, m).base = seg.base
           /\ EndSeq(WriteLine(seg, n, m)) = EndSeq(seg) + 1
           /\ Frames(WriteLine(seg, n, m)) =
                 Frames(seg) \union {[seq |-> n, mut |-> m]}
<1> DEFINE f == [seq |-> n, mut |-> m]
           new == WriteLine(seg, n, m)
           len == Len(seg.frames)
<1>1. ~TornTail(seg)
  <2> SUFFICES ASSUME TornTail(seg) PROVE FALSE
    OBVIOUS
  <2>1. new = seg
    BY DEF WriteLine
  <2>2. len \in 1..len /\ seg.frames[len].mut = Fragment
    BY DEF TornTail, Segment
  <2>3. QED
    BY <2>1, <2>2 DEF Replayable
<1>2. /\ new.base = seg.base /\ new.header = seg.header
      /\ new.frames = Append(seg.frames, f)
  BY <1>1 DEF WriteLine, Segment
<1>3. seg.frames \in Seq(Frame) /\ f \in Frame /\ len \in Nat /\ seg.base \in Nat
  BY DEF Segment, Frame
<1>4. /\ Len(new.frames) = len + 1
      /\ \A i \in 1..len : new.frames[i] = seg.frames[i]
      /\ new.frames[len + 1] = f
  BY <1>2, <1>3, AppendProperties
<1>5. /\ f.mut \notin {Fragment} \union Oversized
      /\ f.seq = seg.base + len
  <2>1. len + 1 \in 1..Len(new.frames)
    BY <1>3, <1>4
  <2>2. /\ new.frames[len + 1].mut \notin {Fragment} \union Oversized
        /\ new.frames[len + 1].seq = new.base + (len + 1) - 1
    BY <2>1 DEF Replayable
  <2>3. QED
    BY <2>2, <1>2, <1>3, <1>4
<1>6. Replayable(seg)
  BY <1>2, <1>3, <1>4 DEF Replayable
<1>7. EndSeq(new) = EndSeq(seg) + 1
  BY <1>2, <1>3, <1>4 DEF EndSeq
<1>8. Frames(new) = Frames(seg) \union {f}
  <2>1. 1..Len(new.frames) = (1..len) \union {len + 1}
    BY <1>3, <1>4
  <2>2. ASSUME NEW x \in Frames(new)
        PROVE  x \in Frames(seg) \union {f}
    BY <2>1, <1>4 DEF Frames
  <2>3. Frames(seg) \subseteq Frames(new)
    BY <2>1, <1>4 DEF Frames
  <2>4. f \in Frames(new)
    BY <2>1, <1>4 DEF Frames
  <2>5. QED
    BY <2>2, <2>3, <2>4
<1>9. QED
  BY <1>2, <1>5, <1>6, <1>7, <1>8 DEF EndSeq

\* Truncating a replayable segment at one of its sequence numbers leaves a
\* replayable one with the same end and exactly the later frames
\* (Log.CompactThrough).
LEMMA TruncatedProperties ==
    ASSUME NEW seg \in Segment, NEW n \in Nat,
           Replayable(seg), seg.base <= n, n < EndSeq(seg)
    PROVE  /\ Truncated(seg, n) \in Segment
           /\ Truncated(seg, n).base = n + 1
           /\ Replayable(Truncated(seg, n))
           /\ EndSeq(Truncated(seg, n)) = EndSeq(seg)
           /\ Frames(Truncated(seg, n)) = {f \in Frames(seg) : f.seq > n}
<1> DEFINE len == Len(seg.frames)
           first == n - seg.base + 2
           new == Truncated(seg, n)
<1>1. seg.frames \in Seq(Frame) /\ len \in Nat /\ seg.base \in Nat
  BY DEF Segment
<1>2. /\ first \in 2..(len + 1)
      /\ seg.base + first = n + 2
      /\ EndSeq(seg) = seg.base + len
  BY <1>1 DEF EndSeq
<1>a. \A i : i \in 1..len => seg.frames[i] \in Frame
  BY <1>1
<1>b. \A i \in 1..len : /\ seg.frames[i].mut \notin {Fragment} \union Oversized
                        /\ seg.frames[i].seq = seg.base + i - 1
  BY DEF Replayable
<1>c. /\ new.base = n + 1 /\ new.header = "whole"
      /\ new.frames = SubSeq(seg.frames, first, len)
  BY DEF Truncated
<1>d. Frames(seg) = {seg.frames[i] : i \in 1..len}
  BY DEF Frames
<1>e. new.frames \in Seq(Frame) => new \in Segment
  BY DEF Truncated, Segment
<1> HIDE DEF len, first, new
<1>3. \A i \in first..len : seg.frames[i] \in Frame
  <2>1. first..len \subseteq 1..len
    BY <1>1, <1>2
  <2>2. QED
    BY <2>1, <1>a
<1>4. /\ SubSeq(seg.frames, first, len) \in Seq(Frame)
      /\ Len(SubSeq(seg.frames, first, len)) = len - first + 1
      /\ \A i \in 1..(len - first + 1) :
            SubSeq(seg.frames, first, len)[i] = seg.frames[first + i - 1]
  <2>1. first \in Int /\ len \in Int
    BY <1>1, <1>2
  <2>2. QED
    BY <2>1, <1>1, <1>2, <1>3, SubSeqProperties
<1>5. /\ new.frames \in Seq(Frame)
      /\ Len(new.frames) = len - first + 1
      /\ \A i \in 1..(len - first + 1) :
            new.frames[i] = seg.frames[first + i - 1]
  BY <1>4, <1>c
<1>6. new \in Segment
  BY <1>5, <1>e
<1>7. \A i \in 1..(len - first + 1) :
         /\ first + i - 1 \in 1..len
         /\ new.frames[i] = seg.frames[first + i - 1]
         /\ new.frames[i].mut \notin {Fragment} \union Oversized
         /\ new.frames[i].seq = n + i
  <2> TAKE i \in 1..(len - first + 1)
  <2>1. first + i - 1 \in 1..len
    BY <1>1, <1>2
  <2>2. new.frames[i] = seg.frames[first + i - 1]
    BY <1>5
  <2>3. /\ seg.frames[first + i - 1].mut \notin {Fragment} \union Oversized
        /\ seg.frames[first + i - 1].seq = seg.base + (first + i - 1) - 1
    BY <2>1, <1>b
  <2>4. seg.base + (first + i - 1) - 1 = n + i
    <3>1. first \in Int /\ i \in Int /\ n \in Int /\ seg.base \in Int
      BY <1>1, <1>2
    <3>2. QED
      BY <3>1, <1>2
  <2>5. QED
    BY <2>1, <2>2, <2>3, <2>4
<1>8. Replayable(new)
  <2>1. \A i \in 1..Len(new.frames) :
           /\ new.frames[i].mut \notin {Fragment} \union Oversized
           /\ new.frames[i].seq = new.base + i - 1
    BY <1>1, <1>2, <1>5, <1>c, <1>7
  <2>2. QED
    BY <2>1, <1>c DEF Replayable
<1>9. EndSeq(new) = EndSeq(seg)
  <2>1. EndSeq(new) = (n + 1) + (len - first + 1)
    BY <1>5, <1>c DEF EndSeq
  <2>2. QED
    BY <2>1, <1>1, <1>2
<1>10. Frames(new) = {f \in Frames(seg) : f.seq > n}
  <2>1. ASSUME NEW f \in Frames(new)
        PROVE  f \in Frames(seg) /\ f.seq > n
    <3>1. PICK i \in 1..Len(new.frames) : f = new.frames[i]
      BY DEF Frames
    <3>2. i \in 1..(len - first + 1)
      BY <3>1, <1>5
    <3>3. /\ first + i - 1 \in 1..len
          /\ f = seg.frames[first + i - 1]
          /\ f.seq = n + i
      BY <3>1, <3>2, <1>7
    <3>4. f \in Frames(seg)
      BY <3>3, <1>d
    <3>5. i > 0
      BY <3>1, <1>5, <1>1, <1>2
    <3>6. QED
      BY <3>3, <3>4, <3>5, <3>1
  <2>2. ASSUME NEW f \in Frames(seg), f.seq > n
        PROVE  f \in Frames(new)
    <3>1. PICK j \in 1..len : f = seg.frames[j]
      BY <1>d
    <3>2. f.seq = seg.base + j - 1
      BY <3>1, <1>b
    <3>3. j - first + 1 \in 1..(len - first + 1)
      BY <3>2, <2>2, <1>1, <1>2
    <3>4. new.frames[j - first + 1] = f
      <4>1. first + (j - first + 1) - 1 = j
        BY <1>1, <1>2
      <4>2. QED
        BY <4>1, <3>1, <3>3, <1>7
    <3>5. QED
      BY <3>3, <3>4, <1>5 DEF Frames
  <2>3. QED
    BY <2>1, <2>2
<1>11. QED
  BY <1>c, <1>6, <1>8, <1>9, <1>10 DEF new

\* Truncating any segment at a sequence number from its base on gives a
\* segment (Log.CompactThrough).
LEMMA TruncatedType ==
    ASSUME NEW seg \in Segment, NEW n \in Nat, seg.base <= n
    PROVE  Truncated(seg, n) \in Segment
<1> DEFINE first == n - seg.base + 2
<1>1. first \in Nat \ {0} /\ Len(seg.frames) \in Nat
  BY DEF Segment
<1>2. \A i \in first..Len(seg.frames) : seg.frames[i] \in Frame
  BY <1>1 DEF Segment
<1>3. SubSeq(seg.frames, first, Len(seg.frames)) \in Seq(Frame)
  BY <1>1, <1>2, SubSeqProperties
<1>4. QED
  BY <1>3 DEF Truncated, Segment

\* A segment with its header made is a segment with the same frames, and
\* replayable if it was (createSegment).
LEMMA CreatedProperties ==
    ASSUME NEW seg \in Segment
    PROVE  /\ Created(seg) \in Segment
           /\ Created(seg).base = seg.base
           /\ Created(seg).frames = seg.frames
           /\ Created(seg).header = "whole"
           /\ Replayable(seg) => Replayable(Created(seg))
<1>1. /\ Created(seg) \in Segment
      /\ Created(seg).base = seg.base
      /\ Created(seg).frames = seg.frames
      /\ Created(seg).header = "whole"
  BY DEF Created, Segment
<1>2. QED
  BY <1>1 DEF Replayable

-----------------------------------------------------------------------------
(***************************************************************************)
(* Type correctness, for every instance.                                   *)
(***************************************************************************)
\* The type invariant is preserved by every step.
LEMMA TypeStep == TypeInv /\ [Next]_vars => TypeInv'
<1> SUFFICES ASSUME TypeInv, [Next]_vars PROVE TypeInv'
  OBVIOUS
<1> USE DEF TypeInv, TypeOK, disk, memory
<1>0. CASE CreateFails
  <2>1. segment' \in Segment
    BY <1>0 DEF CreateFails, Segment
  <2>2. QED
    BY <1>0, <2>1 DEF CreateFails
<1>1. CASE OpenRefused
  BY <1>1 DEF OpenRefused, Replayable
<1>2. CASE OpenLoad
  <2>1. EndSeq(segment) \in Nat
    BY DEF EndSeq, Segment
  <2>2. segment' \in Segment /\ Replayable(segment')
    BY <1>2, CreatedProperties DEF OpenLoad, LoadFails
  <2>3. QED
    BY <1>2, <2>1, <2>2 DEF OpenLoad, Snapshot
<1>3. CASE ReplayEntry
  <2> DEFINE f == segment.frames[replayAt]
  <2>1. replayAt + 1 \in Nat
    OBVIOUS
  <2>2. CASE f.seq <= durableSeq \/ Remembered(f.mut) # {}
    BY <1>3, <2>1, <2>2 DEF ReplayEntry, Replayable
  <2>3. CASE /\ ~(f.seq <= durableSeq \/ Remembered(f.mut) # {})
             /\ replayAt \in 1..Len(segment.frames)
    <3>1. f \in Frame
      BY <2>3 DEF Segment
    <3>2. f.mut # Fragment
      BY <1>3, <2>3 DEF ReplayEntry, Replayable
    <3>3. f \in Entry
      BY <3>1, <3>2 DEF Frame, Entry
    <3>4. f.seq \in Nat
      BY <3>3 DEF Entry
    <3>5. QED
      BY <1>3, <2>1, <2>3, <3>3, <3>4 DEF ReplayEntry, Replayable
  <2>4. QED
    BY <1>3, <2>2, <2>3 DEF ReplayEntry, Segment
<1>4. CASE OpenDone
  BY <1>4 DEF OpenDone, Replayable
<1>5. CASE Close
  BY <1>5 DEF Close, ForgetMemory, Writer, Replayable
<1>6. CASE Crash
  BY <1>6 DEF Crash, ForgetMemory, Writer, Idle, NoSnapshot, Snapshot
<1>7. ASSUME NEW m \in Mutations, ApplyIdempotent(m)
      PROVE  TypeInv'
  BY <1>7 DEF ApplyIdempotent, Remembered, Replayable
<1>8. ASSUME NEW m \in Mutations, ApplyCommit(m)
      PROVE  TypeInv'
  <2>1. [seq |-> durableSeq + 1, mut |-> m] \in Entry
    BY DEF Entry
  <2>2. segment' \in Segment
    BY <1>8, WriteLineType DEF ApplyCommit
  <2>3. QED
    BY <1>8, <2>1, <2>2 DEF ApplyCommit, AppendReady
<1>9. ASSUME NEW m \in Mutations, ApplyFails(m)
      PROVE  TypeInv'
  <2>1. segment' \in Segment
    BY <1>9, WriteLineType DEF ApplyFails
  <2>2. QED
    BY <1>9, <2>1 DEF ApplyFails, AppendReady
<1>10. ASSUME NEW m \in Mutations, CrashInApply(m)
       PROVE  TypeInv'
  <2>1. segment' \in Segment
    BY <1>10, WriteLineType DEF CrashInApply
  <2>2. QED
    BY <1>10, <2>1 DEF CrashInApply, AppendReady, ForgetMemory, Writer, Idle,
                       NoSnapshot, Snapshot
<1>11. ASSUME NEW w \in Snapshotters, SnapshotCopy(w)
       PROVE  TypeInv'
  <2>1. [phase |-> "copied", current |-> TRUE,
         data |-> [seq |-> durableSeq, entries |-> catalog]] \in Writer
    BY DEF Writer, Snapshot
  <2>2. QED
    BY <1>11, <2>1 DEF SnapshotCopy, Replayable
<1>12. ASSUME NEW w \in Snapshotters, SnapshotInstall(w)
       PROVE  TypeInv'
  BY <1>12 DEF SnapshotInstall, Writer, Replayable
<1>13. ASSUME NEW w \in Snapshotters, SnapshotRecord(w)
       PROVE  TypeInv'
  <2>1. Idle \in Writer
    BY DEF Idle, NoSnapshot, Snapshot, Writer
  <2>2. snapshotSeq' \in Nat
    BY <1>13 DEF SnapshotRecord, Writer, Snapshot
  <2>3. QED
    BY <1>13, <2>1, <2>2 DEF SnapshotRecord, Replayable
<1>14. ASSUME NEW w \in Snapshotters, SnapshotFails(w)
       PROVE  TypeInv'
  <2>1. Idle \in Writer
    BY DEF Idle, NoSnapshot, Snapshot, Writer
  <2>2. QED
    BY <1>14, <2>1 DEF SnapshotFails, Writer, Replayable
<1>15. CASE CompactWriteSnapshot
  BY <1>15 DEF CompactWriteSnapshot, Snapshot
<1>16. CASE CompactTruncate
  <2>1. /\ segment' \in Segment
        /\ EndSeq(segment') \in Nat
    <3>1. segment' = Truncated(segment, durableSeq)
      BY <1>16 DEF CompactTruncate
    <3>2. segment' \in Segment
      BY <1>16, <3>1, TruncatedType DEF CompactTruncate, CanTruncate
    <3>3. QED
      BY <3>2 DEF EndSeq, Segment
  <2>2. QED
    BY <1>16, <2>1 DEF CompactTruncate
<1>17. CASE CompactInstallManifest
  BY <1>17 DEF CompactInstallManifest
<1>18. CASE CompactRejected
  BY <1>18 DEF CompactRejected
<1>19. CASE CompactThroughFails
  <2>1. segment' \in Segment
    BY <1>19, TruncatedType DEF CompactThroughFails, CanTruncate
  <2>2. QED
    BY <1>19, <2>1 DEF CompactThroughFails
<1>20. CASE CompactManifestFails
  BY <1>20 DEF CompactManifestFails
<1>21. CASE UNCHANGED vars
  BY <1>21 DEF vars, Replayable
<1>22. QED
  BY <1>0, <1>1, <1>2, <1>3, <1>4, <1>5, <1>6, <1>7, <1>8, <1>9, <1>10,
     <1>11, <1>12, <1>13, <1>14, <1>15, <1>16, <1>17, <1>18, <1>19, <1>20,
     <1>21
  DEF Next, OpenNext, ApplyNext, SnapshotNext, CompactNext

\* The type invariant holds initially.
LEMMA TypeInit == Init => TypeInv
<1>1. Idle \in Writer /\ NoSnapshot \in Snapshot
  BY DEF NoSnapshot, Snapshot, Idle, Writer
<1>2. [header |-> "none", base |-> 1, frames |-> <<>>] \in Segment
  BY EmptySeq DEF Segment
<1>3. QED
  <2> SUFFICES ASSUME Init PROVE TypeInv
    OBVIOUS
  <2>1. status = "closed" /\ compactStep = "idle"
    BY DEF Init
  <2>2. snapshotter \in [Snapshotters -> Writer]
    BY <1>1 DEF Init
  <2>3. QED
    BY <1>1, <1>2, <2>1, <2>2 DEF Init, TypeInv, TypeOK

\* Every variable keeps its type in every behaviour of every instance.
THEOREM TypeCorrect == Spec => []TypeOK
<1>2. TypeInv => TypeOK
  BY DEF TypeInv
<1>3. QED
  BY <1>2, TypeInit, TypeStep, PTL DEF Spec

-----------------------------------------------------------------------------
(***************************************************************************)
(* The inductive invariant.                                                *)
(***************************************************************************)
\* The frames of a replayable segment are entries, one for each sequence
\* number from its base up to its end (replay).
LEMMA FrameFacts ==
    ASSUME NEW seg \in Segment, Replayable(seg)
    PROVE  /\ \A f \in Frames(seg) :
                 /\ f \in Entry
                 /\ seg.base <= f.seq
                 /\ f.seq < EndSeq(seg)
           /\ \A f, g \in Frames(seg) : f.seq = g.seq => f = g
<1>1. Len(seg.frames) \in Nat /\ seg.base \in Nat
  BY DEF Segment
<1>2. \A i \in 1..Len(seg.frames) :
         /\ seg.frames[i] \in Entry
         /\ seg.frames[i].seq = seg.base + i - 1
  <2> TAKE i \in 1..Len(seg.frames)
  <2>1. seg.frames[i] \in Frame
    BY DEF Segment
  <2>2. /\ seg.frames[i].mut # Fragment
        /\ seg.frames[i].seq = seg.base + i - 1
    BY DEF Replayable
  <2>3. QED
    BY <2>1, <2>2 DEF Frame, Entry
<1>3. ASSUME NEW f \in Frames(seg)
      PROVE  /\ f \in Entry
             /\ seg.base <= f.seq
             /\ f.seq < EndSeq(seg)
  <2>1. PICK i \in 1..Len(seg.frames) : f = seg.frames[i]
    BY DEF Frames
  <2>2. QED
    BY <2>1, <1>1, <1>2 DEF EndSeq
<1>4. ASSUME NEW f \in Frames(seg), NEW g \in Frames(seg), f.seq = g.seq
      PROVE  f = g
  <2>1. PICK i \in 1..Len(seg.frames) : f = seg.frames[i]
    BY DEF Frames
  <2>2. PICK j \in 1..Len(seg.frames) : g = seg.frames[j]
    BY DEF Frames
  <2>3. i = j
    BY <2>1, <2>2, <1>4, <1>1, <1>2
  <2>4. QED
    BY <2>1, <2>2, <2>3
<1>5. QED
  BY <1>3, <1>4

\* Everything the disk invariant speaks of is an entry with a natural
\* sequence number.
LEMMA KnownType ==
    ASSUME TypeInv
    PROVE  /\ Known \subseteq Entry
           /\ \A X \in Snaps : X \in Snapshot /\ X.seq \in Nat
           /\ \A e \in Entry : e.seq \in Nat
<1>1. \A X \in Snaps : X \in Snapshot
  BY DEF TypeInv, TypeOK, Snaps, InFlight, Writer
<1>2. QED
  BY <1>1 DEF TypeInv, TypeOK, Known, Snapshot, Entry

\* Steps that leave the frames of the segment alone and only forget snapshots or mutations
\* keep the disk sound (Open, Close, a crash, the end of WriteSnapshot).
LEMMA Reshape ==
    ASSUME DiskSound, segment'.base = segment.base,
           segment'.frames = segment.frames,
           Replayable(segment') => Replayable(segment),
           Snaps' \subseteq Snaps, Known' \subseteq Known
    PROVE  DiskSound'
<1>0. Frames(segment') = Frames(segment) /\ EndSeq(segment') = EndSeq(segment)
  BY DEF Frames, EndSeq
<1>1. KeysUnique(Known)'
  BY DEF DiskSound, KeysUnique
<1>2. SnapsBounded'
  BY DEF DiskSound, SnapsBounded
<1>3. SnapsComplete'
  BY DEF DiskSound, SnapsComplete
<1>4. SegmentSound'
  <2> SUFFICES ASSUME Replayable(segment')
               PROVE  /\ SegmentComplete'
                      /\ SegmentAgrees'
                      /\ SegmentReaches'
                      /\ KeysUnique(Known \union Frames(segment))'
    BY DEF SegmentSound
  <2>1. SegmentComplete'
    BY <1>0 DEF DiskSound, SegmentSound, SegmentComplete
  <2>2. SegmentAgrees'
    BY <1>0 DEF DiskSound, SegmentSound, SegmentAgrees
  <2>3. SegmentReaches'
    BY <1>0 DEF DiskSound, SegmentSound, SegmentReaches
  <2>4. KeysUnique(Known \union Frames(segment))'
    BY <1>0 DEF DiskSound, SegmentSound, KeysUnique
  <2>5. QED
    BY <2>1, <2>2, <2>3, <2>4
<1>5. QED
  BY <1>1, <1>2, <1>3, <1>4 DEF DiskSound

\* The same when the segment does not change at all.
LEMMA Shrink ==
    ASSUME DiskSound, segment' = segment, Snaps' \subseteq Snaps,
           Known' \subseteq Known
    PROVE  DiskSound'
<1>1. /\ segment'.base = segment.base /\ segment'.frames = segment.frames
      /\ Replayable(segment') => Replayable(segment)
  OBVIOUS
<1>2. QED
  BY <1>1, Reshape

\* If snapshots and their writers do not change, there are the same Snaps.
LEMMA SameSnaps ==
    ASSUME snapshot' = snapshot, snapshotter' = snapshotter
    PROVE  Snaps' = Snaps
  BY DEF Snaps, InFlight

\* Known grows with each of its parts.
LEMMA KnownMonotone ==
    ASSUME acked' \subseteq Known, catalog' \subseteq Known,
           Snaps' \subseteq Snaps
    PROVE  Known' \subseteq Known
<1>1. \A X \in Snaps : X.entries \subseteq Known
  BY DEF Known
<1>2. QED
  BY <1>1 DEF Known

\* A line at the end of the segment by the Append that AppendReady admits,
\* acknowledged or not, keeps the disk sound: either nothing will replay the
\* file any more, or the line is the whole frame of the next sequence number.
LEMMA WriteKeepsDisk ==
    ASSUME IInv, NEW m \in Mutations, AppendReady(m),
           NEW line \in {m, Fragment},
           segment' = WriteLine(segment, durableSeq + 1, line),
           Snaps' \subseteq Snaps,
           \/ Known' \subseteq Known
           \/ /\ line = m
              /\ Known' \subseteq
                    Known \union {[seq |-> durableSeq + 1, mut |-> m]}
    PROVE  /\ DiskSound'
           /\ Replayable(segment') =>
                 /\ Replayable(segment)
                 /\ EndSeq(segment) = durableSeq + 1
                 /\ EndSeq(segment') = durableSeq + 2
                 /\ Frames(segment') = Frames(segment) \union
                       {[seq |-> durableSeq + 1, mut |-> m]}
<1> DEFINE e == [seq |-> durableSeq + 1, mut |-> m]
<1>1. /\ segment \in Segment /\ segment' \in Segment
      /\ durableSeq \in Nat /\ nextSeq \in Nat
      /\ e \in Entry /\ e.seq = durableSeq + 1 /\ e.mut = m
      /\ segment'.base = segment.base
  <2>1. segment \in Segment /\ durableSeq \in Nat /\ nextSeq \in Nat
    BY DEF IInv, TypeInv, TypeOK
  <2>2. segment' \in Segment
    BY <2>1, WriteLineType
  <2>3. segment'.base = segment.base
    BY <2>1 DEF WriteLine, Segment
  <2>4. QED
    BY <2>1, <2>2, <2>3 DEF Entry
<1>2. /\ status = "open"
      /\ Known \subseteq catalog
      /\ \A x \in catalog : x.seq <= durableSeq
      /\ \A X \in Snaps : X.seq <= durableSeq /\ X.seq \in Nat
      /\ \A x \in catalog : x.mut = m => m \notin Keyed
  BY KnownType DEF IInv, OpenSound, AppendReady, Remembered
<1>3. DiskSound
  BY DEF IInv
<1>4. Known' \subseteq Known \union {e}
  OBVIOUS
<1>5. ASSUME Replayable(segment')
      PROVE  /\ Replayable(segment)
             /\ line = m
             /\ EndSeq(segment) = durableSeq + 1
             /\ EndSeq(segment') = durableSeq + 2
             /\ Frames(segment') = Frames(segment) \union {e}
             /\ Frames(segment) \subseteq catalog
  <2>1. /\ Replayable(segment)
        /\ line # Fragment
        /\ durableSeq + 1 = EndSeq(segment)
        /\ EndSeq(segment') = EndSeq(segment) + 1
        /\ Frames(segment') =
              Frames(segment) \union {[seq |-> durableSeq + 1, mut |-> line]}
    BY <1>1, <1>5, WriteLineReplayable
  <2>2. \A f \in Frames(segment) : f.seq <= durableSeq
    BY <2>1, <1>1, FrameFacts DEF Entry
  <2>3. Frames(segment) \subseteq catalog
    BY <2>1, <2>2, <1>2 DEF IInv, OpenSound
  <2>4. QED
    BY <2>1, <2>3, <1>1
<1>6. KeysUnique(catalog \union {e})
  <2>1. catalog \subseteq Known
    BY DEF Known
  <2>2. KeysUnique(catalog)
    BY <2>1, <1>3 DEF DiskSound, KeysUnique
  <2>3. QED
    BY <2>2, <1>1, <1>2 DEF KeysUnique
<1>7. KeysUnique(Known)'
  BY <1>2, <1>4, <1>6 DEF KeysUnique
<1>8. SnapsBounded'
  BY <1>1, <1>3 DEF DiskSound, SnapsBounded
<1>9. SnapsComplete'
  BY <1>1, <1>2, <1>3, <1>4 DEF DiskSound, SnapsComplete
<1>10. SegmentSound'
  <2> SUFFICES ASSUME Replayable(segment')
               PROVE  /\ SegmentComplete'
                      /\ SegmentAgrees'
                      /\ SegmentReaches'
                      /\ KeysUnique(Known \union Frames(segment))'
    BY DEF SegmentSound
  <2>1. SegmentComplete'
    BY <1>1, <1>3, <1>4, <1>5 DEF DiskSound, SegmentSound, SegmentComplete
  <2>2. SegmentAgrees'
    BY <1>1, <1>2, <1>3, <1>5 DEF DiskSound, SegmentSound, SegmentAgrees
  <2>3. SegmentReaches'
    BY <1>1, <1>2, <1>5 DEF SegmentReaches
  <2>4. KeysUnique(Known \union Frames(segment))'
    BY <1>2, <1>4, <1>5, <1>6 DEF KeysUnique
  <2>5. QED
    BY <2>1, <2>2, <2>3, <2>4
<1>11. QED
  BY <1>5, <1>7, <1>8, <1>9, <1>10 DEF DiskSound

\* A new snapshot of an open Store's catalog keeps the disk sound
\* (WriteSnapshot's copy, Compact's snapshot file).
LEMMA NewSnapshot ==
    ASSUME IInv, status = "open", segment' = segment,
           Snaps' \subseteq
               Snaps \union {[seq |-> durableSeq, entries |-> catalog]},
           Known' \subseteq Known
    PROVE  /\ DiskSound'
           /\ \A X \in Snaps' : X.seq <= durableSeq
<1> DEFINE D == [seq |-> durableSeq, entries |-> catalog]
<1>1. /\ segment \in Segment
      /\ durableSeq \in Nat /\ nextSeq \in Nat
      /\ segment.base \in Nat
  BY DEF IInv, TypeInv, TypeOK, Segment
<1>2. /\ Known \subseteq catalog
      /\ \A x \in catalog : x.seq <= durableSeq
      /\ \A X \in Snaps : X.seq <= durableSeq /\ X.seq \in Nat
  BY KnownType DEF IInv, OpenSound
<1>3. segment.base <= durableSeq + 1
  <2>1. snapshot \in Snaps
    BY DEF Snaps
  <2>2. segment.base <= snapshot.seq + 1
    BY <2>1 DEF IInv, DiskSound, SnapsBounded
  <2>3. QED
    BY <2>1, <2>2, <1>1, <1>2
<1>4. KeysUnique(Known)'
  BY DEF IInv, DiskSound, KeysUnique
<1>5. SnapsBounded'
  BY <1>2, <1>3 DEF IInv, DiskSound, SnapsBounded
<1>6. SnapsComplete'
  BY <1>2 DEF IInv, DiskSound, SnapsComplete
<1>7. SegmentSound'
  <2> SUFFICES ASSUME Replayable(segment)
               PROVE  /\ SegmentComplete'
                      /\ SegmentAgrees'
                      /\ SegmentReaches'
                      /\ KeysUnique(Known \union Frames(segment))'
    BY DEF SegmentSound
  <2>1. SegmentComplete'
    BY DEF IInv, DiskSound, SegmentSound, SegmentComplete
  <2>2. SegmentAgrees'
    BY DEF IInv, DiskSound, SegmentSound, SegmentAgrees, OpenSound
  <2>3. SegmentReaches'
    <3>1. durableSeq < EndSeq(segment)
      BY <1>1 DEF IInv, OpenSound, EndSeq, Segment
    <3>2. QED
      BY <3>1 DEF IInv, DiskSound, SegmentSound, SegmentReaches
  <2>4. KeysUnique(Known \union Frames(segment))'
    BY DEF IInv, DiskSound, SegmentSound, KeysUnique
  <2>5. QED
    BY <2>1, <2>2, <2>3, <2>4
<1>8. QED
  BY <1>1, <1>2, <1>4, <1>5, <1>6, <1>7 DEF DiskSound

\* Truncating the segment behind the snapshot Compact has installed keeps
\* the disk sound and loses no frame the catalog lacks (CompactThrough).
LEMMA TruncateKeepsDisk ==
    ASSUME IInv, compactStep = "snapshotted", CanTruncate(segment, durableSeq),
           segment' = Truncated(segment, durableSeq),
           Snaps' = Snaps, Known' \subseteq Known
    PROVE  /\ DiskSound'
           /\ segment' \in Segment
           /\ EndSeq(segment') = EndSeq(segment)
           /\ Frames(segment') \subseteq Frames(segment)
           /\ durableSeq < EndSeq(segment)
<1>1. /\ segment \in Segment
      /\ durableSeq \in Nat /\ nextSeq \in Nat
      /\ segment.base \in Nat
  BY DEF IInv, TypeInv, TypeOK, Segment
<1>2. /\ status = "open"
      /\ snapshot = [seq |-> durableSeq, entries |-> catalog]
      /\ Snaps = {snapshot}
  BY DEF IInv, CompactSound, Snaps, InFlight
<1>3. /\ Known \subseteq catalog
      /\ \A x \in catalog : x.seq <= durableSeq
      /\ Known \subseteq Entry
  BY <1>2, KnownType DEF IInv, OpenSound
<1>4. Replayable(segment) /\ segment.base <= durableSeq
  BY DEF CanTruncate
<1>5. EndSeq(segment) \in Nat /\ durableSeq < EndSeq(segment)
  BY <1>1, <1>2, <1>4 DEF IInv, OpenSound, EndSeq, Segment
<1>6. /\ segment' \in Segment
      /\ segment'.base = durableSeq + 1
      /\ EndSeq(segment') = EndSeq(segment)
      /\ Frames(segment') = {f \in Frames(segment) : f.seq > durableSeq}
  BY <1>1, <1>4, <1>5, TruncatedProperties
<1>7. KeysUnique(Known)'
  BY DEF IInv, DiskSound, KeysUnique
<1>8. SnapsBounded'
  BY <1>1, <1>2, <1>3, <1>6 DEF SnapsBounded
<1>9. SnapsComplete'
  BY DEF IInv, DiskSound, SnapsComplete
<1>10. SegmentSound'
  <2>1. SegmentComplete'
    BY <1>1, <1>3, <1>6 DEF SegmentComplete, Entry
  <2>2. SegmentAgrees'
    <3>1. \A f \in Frames(segment) : f.seq \in Nat
      BY <1>1, <1>4, FrameFacts DEF Entry
    <3>2. QED
      BY <3>1, <1>1, <1>2, <1>6 DEF SegmentAgrees
  <2>3. SegmentReaches'
    BY <1>2, <1>5, <1>6 DEF SegmentReaches
  <2>4. KeysUnique(Known \union Frames(segment))'
    BY <1>4, <1>6 DEF IInv, DiskSound, SegmentSound, KeysUnique
  <2>5. QED
    BY <2>1, <2>2, <2>3, <2>4 DEF SegmentSound
<1>11. QED
  BY <1>5, <1>6, <1>7, <1>8, <1>9, <1>10 DEF DiskSound

\* The inductive invariant is preserved by every step, under every fault, when
\* callers do not Compact while a WriteSnapshot is in flight.
LEMMA InductiveStep ==
    ASSUME CallersSerialize
    PROVE  IInv /\ [Next]_vars => IInv'
<1> SUFFICES ASSUME IInv, [Next]_vars PROVE IInv'
  OBVIOUS
<1>0. TypeInv'
  BY TypeStep DEF IInv
<1>t. /\ segment \in Segment /\ segment.base \in Nat
      /\ Len(segment.frames) \in Nat
      /\ durableSeq \in Nat /\ nextSeq \in Nat /\ replayAt \in Nat
  BY DEF IInv, TypeInv, TypeOK, Segment
<1>s. /\ snapshot \in Snaps
      /\ acked \subseteq Known /\ catalog \subseteq Known
      /\ snapshot.entries \subseteq Known
  BY DEF Snaps, Known
<1>d. DiskSound /\ OpenSound /\ ReplaySound /\ CompactSound /\ ClosedForgets
  BY DEF IInv
<1>c. CASE CreateFails
  <2>1. Snaps' = Snaps
    BY <1>c, SameSnaps DEF CreateFails
  <2>2. Known' \subseteq Known
    BY <1>c, <1>s, <2>1, KnownMonotone DEF CreateFails, memory
  <2>3. /\ segment'.base = segment.base /\ segment'.frames = segment.frames
        /\ ~Replayable(segment')
    BY <1>c, <1>t DEF CreateFails, Segment, Replayable
  <2>4. DiskSound'
    BY <1>d, <2>1, <2>2, <2>3, Reshape
  <2>5. OpenSound' /\ ReplaySound' /\ CompactSound' /\ ClosedForgets'
    BY <1>c, <1>d DEF CreateFails, memory, OpenSound, ReplaySound,
                      CompactSound, ClosedForgets
  <2>6. QED
    BY <1>0, <2>4, <2>5 DEF IInv
<1>1. CASE OpenRefused
  <2>1. Snaps' = Snaps
    BY <1>1, SameSnaps DEF OpenRefused, disk
  <2>2. Known' \subseteq Known
    BY <1>1, <1>s, <2>1, KnownMonotone DEF OpenRefused
  <2>3. DiskSound'
    BY <1>1, <1>d, <2>1, <2>2, Shrink DEF OpenRefused, disk
  <2>4. OpenSound' /\ ReplaySound' /\ CompactSound' /\ ClosedForgets'
    BY <1>1, <1>d DEF OpenRefused, OpenSound, ReplaySound, CompactSound,
                      ClosedForgets
  <2>5. QED
    BY <1>0, <2>3, <2>4 DEF IInv
<1>2. CASE OpenLoad
  <2>1. /\ Snaps' = Snaps /\ snapshot' = snapshot
        /\ segment'.base = segment.base /\ segment'.frames = segment.frames
        /\ Replayable(segment) /\ Replayable(segment')
        /\ Frames(segment') = Frames(segment)
        /\ EndSeq(segment') = EndSeq(segment)
    <3>1. Snaps' = Snaps /\ snapshot' = snapshot
      BY <1>2, SameSnaps DEF OpenLoad
    <3>2. /\ segment'.base = segment.base /\ segment'.frames = segment.frames
          /\ Replayable(segment) /\ Replayable(segment')
      BY <1>2, <1>t, CreatedProperties DEF OpenLoad, LoadFails
    <3>3. QED
      BY <3>1, <3>2 DEF Frames, EndSeq
  <2>2. Known' \subseteq Known
    BY <1>2, <1>s, <2>1, KnownMonotone DEF OpenLoad
  <2>3. DiskSound'
    BY <1>d, <2>1, <2>2, Reshape
  <2>4. ReplaySound'
    <3>1. Replayable(segment) /\ SegmentSound
      BY <1>2, <1>d DEF OpenLoad, LoadFails, DiskSound
    <3>2. \A e \in Known \union Frames(segment) :
             e.seq <= snapshot.seq => e \in snapshot.entries
      BY <1>s, <1>d, <3>1 DEF DiskSound, SnapsComplete, SegmentSound,
                              SegmentAgrees
    <3>3. /\ segment.base <= snapshot.seq + 1
          /\ \A e \in snapshot.entries : e.seq <= snapshot.seq
          /\ snapshot.seq < EndSeq(segment)
      BY <1>s, <1>d, <3>1 DEF DiskSound, SnapsBounded, SegmentSound,
                              SegmentReaches
    <3>4. snapshot.seq \in Nat
      BY <1>s, KnownType DEF IInv
    <3>5. /\ catalog' = snapshot.entries /\ durableSeq' = snapshot.seq
          /\ nextSeq' = EndSeq(segment) /\ replayAt' = 1
      BY <1>2 DEF OpenLoad
    <3>6. /\ 1 \in 1..(Len(segment.frames) + 1)
          /\ segment.base + 1 - 2 <= snapshot.seq
          /\ segment.base - 1 <= snapshot.seq
      BY <1>t, <3>3, <3>4
    <3>7. QED
      BY <2>1, <2>2, <3>1, <3>2, <3>3, <3>5, <3>6 DEF ReplaySound
  <2>5. OpenSound' /\ CompactSound' /\ ClosedForgets'
    BY <1>2, <1>d DEF OpenLoad, OpenSound, CompactSound, ClosedForgets
  <2>6. QED
    BY <1>0, <2>3, <2>4, <2>5 DEF IInv
<1>3. CASE ReplayEntry
  <2> DEFINE f == segment.frames[replayAt]
  <2>1. /\ status = "replaying" /\ status' = "replaying"
        /\ replayAt' = replayAt + 1
        /\ segment' = segment /\ nextSeq' = nextSeq
        /\ compactStep' = compactStep /\ acked' = acked
        /\ Snaps' = Snaps
        /\ replayAt \in 1..Len(segment.frames)
    <3>1. replayAt \in 1..(Len(segment.frames) + 1)
      BY <1>3, <1>d DEF ReplayEntry, ReplaySound
    <3>2. QED
      BY <1>3, <3>1, <1>t, SameSnaps DEF ReplayEntry, disk
  <2>2. /\ Replayable(segment)
        /\ f \in Frames(segment)
        /\ f.seq = segment.base + replayAt - 1
        /\ f.seq \in Nat
        /\ f.seq < EndSeq(segment)
        /\ \A g \in Frames(segment) : g.seq = f.seq => g = f
        /\ \A g \in Frames(segment) : g.seq \in Nat
    <3>1. Replayable(segment)
      BY <1>d, <2>1 DEF ReplaySound
    <3>2. f \in Frames(segment)
      BY <2>1 DEF Frames
    <3>3. f.seq = segment.base + replayAt - 1
      BY <2>1, <3>1 DEF Replayable
    <3>4. QED
      BY <1>t, <3>1, <3>2, <3>3, FrameFacts DEF Entry
  <2>3. /\ SegmentComplete /\ SegmentAgrees
        /\ KeysUnique(Known \union Frames(segment))
    BY <1>d, <2>2 DEF DiskSound, SegmentSound
  <2>4. CASE f.seq <= durableSeq
    <3>1. catalog' = catalog /\ durableSeq' = durableSeq
      BY <1>3, <2>4 DEF ReplayEntry
    <3>2. Known' \subseteq Known
      BY <1>s, <2>1, <3>1, KnownMonotone
    <3>3. DiskSound'
      BY <1>d, <2>1, <3>2, Shrink
    <3>4. ReplaySound'
      <4>1. /\ replayAt + 1 \in 1..(Len(segment.frames) + 1)
            /\ segment.base + (replayAt + 1) - 2 <= durableSeq
        <5>1. /\ Len(segment.frames) \in Nat /\ segment.base \in Nat
              /\ replayAt \in 1..Len(segment.frames)
          BY <1>t, <2>1
        <5>2. segment.base + replayAt - 1 <= durableSeq
          BY <2>2, <2>4
        <5>3. QED
          BY <5>1, <5>2, <1>t
      <4>2. QED
        BY <1>d, <2>1, <3>1, <3>2, <4>1 DEF ReplaySound
    <3>5. OpenSound' /\ CompactSound' /\ ClosedForgets'
      BY <1>d, <2>1 DEF OpenSound, CompactSound, ClosedForgets
    <3>6. QED
      BY <1>0, <3>3, <3>4, <3>5 DEF IInv
  <2>5. CASE ~(f.seq <= durableSeq)
    <3>1. Remembered(f.mut) = {}
      <4> SUFFICES ASSUME NEW e \in Remembered(f.mut) PROVE FALSE
        OBVIOUS
      <4>1. e \in catalog /\ e.mut = f.mut /\ f.mut \in Keyed
        BY DEF Remembered
      <4>2. e = f
        BY <4>1, <1>s, <2>2, <2>3 DEF KeysUnique
      <4>3. e.seq <= durableSeq
        BY <4>1, <1>d, <2>1 DEF ReplaySound
      <4>4. QED
        BY <4>2, <4>3, <2>5
    <3>2. catalog' = catalog \union {f} /\ durableSeq' = f.seq
      BY <1>3, <2>5, <3>1 DEF ReplayEntry
    <3>3. Known' \subseteq Known \union {f}
      <4>1. \A X \in Snaps : X.entries \subseteq Known
        BY DEF Known
      <4>2. QED
        BY <1>s, <2>1, <3>2, <4>1 DEF Known
    <3>4. DiskSound'
      <4>1. KeysUnique(Known)'
        BY <2>2, <2>3, <3>3 DEF KeysUnique
      <4>2. SnapsBounded'
        BY <1>d, <2>1 DEF DiskSound, SnapsBounded
      <4>3. SnapsComplete'
        BY <1>d, <2>1, <2>2, <2>3, <3>3 DEF DiskSound, SnapsComplete,
                                            SegmentAgrees
      <4>4. SegmentComplete'
        BY <2>1, <2>2, <2>3, <3>3 DEF SegmentComplete
      <4>5. SegmentAgrees'
        BY <2>1, <2>3 DEF SegmentAgrees
      <4>6. SegmentReaches'
        BY <1>d, <2>1, <2>2 DEF DiskSound, SegmentSound, SegmentReaches
      <4>7. KeysUnique(Known \union Frames(segment))'
        BY <2>1, <2>2, <2>3, <3>3 DEF KeysUnique
      <4>8. QED
        BY <4>1, <4>2, <4>3, <4>4, <4>5, <4>6, <4>7
        DEF DiskSound, SegmentSound
    <3>5. ReplaySound'
      <4>1. durableSeq = f.seq - 1
        <5>1. segment.base + replayAt - 2 <= durableSeq
          BY <1>d, <2>1 DEF ReplaySound
        <5>2. QED
          BY <5>1, <1>t, <2>2, <2>5
      <4>2. ASSUME NEW e \in Known \union Frames(segment), e.seq <= f.seq
            PROVE  e \in catalog'
        <5>1. e.seq \in Nat
          BY <2>2, KnownType DEF IInv
        <5>2. CASE e.seq <= durableSeq
          BY <5>2, <1>d, <2>1, <3>2 DEF ReplaySound
        <5>3. CASE e.seq = f.seq
          <6>1. e.seq >= segment.base
            BY <5>3, <1>t, <2>1, <2>2
          <6>2. e \in Frames(segment)
            BY <6>1, <2>3 DEF SegmentComplete
          <6>3. QED
            BY <6>2, <5>3, <2>2, <3>2
        <5>4. QED
          BY <5>1, <5>2, <5>3, <4>1, <4>2, <1>t, <2>2
      <4>3. \A e \in catalog' : e.seq <= f.seq
        <5>1. \A e \in catalog : e.seq <= durableSeq /\ e.seq \in Nat
          BY <1>d, <1>s, <2>1, KnownType DEF ReplaySound, IInv
        <5>2. QED
          BY <5>1, <3>2, <4>1, <2>2, <1>t
      <4>4. /\ replayAt + 1 \in 1..(Len(segment.frames) + 1)
            /\ segment.base + (replayAt + 1) - 2 <= f.seq
            /\ segment.base - 1 <= f.seq
        BY <1>t, <2>1, <2>2
      <4>5. nextSeq = EndSeq(segment)
        BY <1>d, <2>1 DEF ReplaySound
      <4>6. \A e \in (Known \union Frames(segment))' :
               e.seq <= f.seq => e \in catalog'
        BY <2>1, <3>2, <3>3, <4>2
      <4>7. QED
        BY <2>1, <2>2, <3>2, <4>3, <4>4, <4>5, <4>6 DEF ReplaySound
    <3>6. OpenSound' /\ CompactSound' /\ ClosedForgets'
      BY <1>d, <2>1 DEF OpenSound, CompactSound, ClosedForgets
    <3>7. QED
      BY <1>0, <3>4, <3>5, <3>6 DEF IInv
  <2>6. QED
    BY <2>4, <2>5
<1>4. CASE OpenDone
  <2>1. /\ status = "replaying" /\ status' = "open"
        /\ segment' = segment /\ Snaps' = Snaps
        /\ catalog' = catalog /\ acked' = acked /\ durableSeq' = durableSeq
        /\ nextSeq' = nextSeq /\ compactStep' = compactStep
    BY <1>4, SameSnaps DEF OpenDone, disk
  <2>2. Known' \subseteq Known
    BY <1>s, <2>1, KnownMonotone
  <2>3. DiskSound'
    BY <1>d, <2>1, <2>2, Shrink
  <2>4. Replayable(segment) /\ durableSeq + 1 = EndSeq(segment)
    BY <1>4, <1>d, <1>t, <2>1 DEF OpenDone, ReplaySound, EndSeq
  <2>5. SegmentSound
    BY <1>d DEF DiskSound
  <2>6. ASSUME NEW e \in Known PROVE e \in catalog
    <3>1. e.seq \in Nat
      BY KnownType DEF IInv
    <3>2. e.seq <= durableSeq
      <4>1. CASE e.seq >= segment.base
        <5>1. e \in Frames(segment)
          BY <4>1, <2>4, <2>5 DEF SegmentSound, SegmentComplete
        <5>2. e.seq < EndSeq(segment)
          BY <5>1, <1>t, <2>4, FrameFacts
        <5>3. QED
          BY <5>2, <3>1, <1>t, <2>4
      <4>2. CASE ~(e.seq >= segment.base)
        BY <4>2, <3>1, <1>d, <1>t, <2>1 DEF ReplaySound
      <4>3. QED
        BY <4>1, <4>2
    <3>3. QED
      BY <3>2, <1>d, <2>1 DEF ReplaySound
  <2>7. \A X \in Snaps : X.seq <= durableSeq
    <3>1. \A X \in Snaps : X.seq \in Nat
      BY KnownType DEF IInv
    <3>2. QED
      BY <3>1, <1>t, <2>4, <2>5 DEF SegmentSound, SegmentReaches
  <2>8. OpenSound'
    <3>1. nextSeq = EndSeq(segment)
      BY <1>d, <2>1 DEF ReplaySound
    <3>2. /\ \A e \in catalog : e.seq <= durableSeq
          /\ \A f \in Frames(segment) : f.seq <= durableSeq => f \in catalog
      BY <1>d, <2>1 DEF ReplaySound
    <3>3. durableSeq < nextSeq /\ nextSeq <= EndSeq(segment)
      BY <3>1, <1>t, <2>4
    <3>4. QED
      BY <2>1, <2>2, <2>6, <2>7, <3>2, <3>3 DEF OpenSound
  <2>9. ReplaySound' /\ CompactSound' /\ ClosedForgets'
    BY <1>d, <2>1 DEF ReplaySound, CompactSound, ClosedForgets
  <2>10. QED
    BY <1>0, <2>3, <2>8, <2>9 DEF IInv
<1>5. CASE Close
  <2>1. /\ segment' = segment /\ catalog' = {} /\ acked' = acked
        /\ status' = "closed" /\ compactStep' = "idle"
    BY <1>5 DEF Close, ForgetMemory, disk
  <2>2. Snaps' = Snaps
    BY <1>5 DEF Close, disk, Snaps, InFlight, IInv, TypeInv, TypeOK, Writer
  <2>3. Known' \subseteq Known
    BY <1>s, <2>1, <2>2, KnownMonotone
  <2>4. DiskSound'
    BY <1>d, <2>1, <2>2, <2>3, Shrink
  <2>5. OpenSound' /\ ReplaySound' /\ CompactSound' /\ ClosedForgets'
    BY <2>1 DEF OpenSound, ReplaySound, CompactSound, ClosedForgets
  <2>6. QED
    BY <1>0, <2>4, <2>5 DEF IInv
<1>6. CASE Crash
  <2>1. /\ segment' = segment /\ snapshot' = snapshot
        /\ catalog' = {} /\ acked' = acked
        /\ status' = "closed" /\ compactStep' = "idle"
    BY <1>6 DEF Crash, ForgetMemory, disk
  <2>2. Snaps' \subseteq Snaps
    BY <1>6, <2>1 DEF Crash, Snaps, InFlight, Idle
  <2>3. Known' \subseteq Known
    BY <1>s, <2>1, <2>2, KnownMonotone
  <2>4. DiskSound'
    BY <1>d, <2>1, <2>2, <2>3, Shrink
  <2>5. OpenSound' /\ ReplaySound' /\ CompactSound' /\ ClosedForgets'
    BY <2>1 DEF OpenSound, ReplaySound, CompactSound, ClosedForgets
  <2>6. QED
    BY <1>0, <2>4, <2>5 DEF IInv
<1>7. ASSUME NEW m \in Mutations, ApplyIdempotent(m)
      PROVE  IInv'
  <2>1. Snaps' = Snaps
    BY <1>7, SameSnaps DEF ApplyIdempotent, disk
  <2>2. Known' \subseteq Known
    <3>1. acked' \subseteq Known /\ catalog' \subseteq Known
      BY <1>7, <1>s DEF ApplyIdempotent, Remembered, memory
    <3>2. QED
      BY <3>1, <2>1, KnownMonotone
  <2>3. DiskSound'
    BY <1>7, <1>d, <2>1, <2>2, Shrink DEF ApplyIdempotent, disk
  <2>4. OpenSound'
    BY <1>7, <1>d, <2>1, <2>2 DEF ApplyIdempotent, disk, memory, OpenSound
  <2>5. ReplaySound' /\ CompactSound' /\ ClosedForgets'
    BY <1>7, <1>d DEF ApplyIdempotent, disk, memory, ReplaySound,
                      CompactSound, ClosedForgets
  <2>6. QED
    BY <1>0, <2>3, <2>4, <2>5 DEF IInv
<1>8. ASSUME NEW m \in Mutations, ApplyCommit(m)
      PROVE  IInv'
  <2> DEFINE e == [seq |-> durableSeq + 1, mut |-> m]
  <2>1. /\ AppendReady(m)
        /\ status = "open" /\ status' = "open"
        /\ compactStep = "idle" /\ compactStep' = "idle"
        /\ nextSeq = durableSeq + 1
        /\ catalog' = catalog \union {e} /\ acked' = acked \union {e}
        /\ segment' = WriteLine(segment, durableSeq + 1, m)
        /\ durableSeq' = durableSeq + 1 /\ nextSeq' = nextSeq + 1
        /\ Snaps' = Snaps
    BY <1>8, SameSnaps DEF ApplyCommit, AppendReady
  <2>2. Known' = Known \union {e}
    BY <2>1 DEF Known
  <2>3. /\ DiskSound'
        /\ Replayable(segment') =>
              /\ Replayable(segment)
              /\ EndSeq(segment) = durableSeq + 1
              /\ EndSeq(segment') = durableSeq + 2
              /\ Frames(segment') = Frames(segment) \union {e}
    BY <2>1, <2>2, WriteKeepsDisk
  <2>4. OpenSound'
    <3>1. Known' \subseteq catalog'
      BY <1>d, <2>1, <2>2 DEF OpenSound
    <3>2. \A x \in catalog' : x.seq <= durableSeq'
      <4>1. \A x \in catalog : x.seq <= durableSeq /\ x.seq \in Nat
        BY <1>d, <1>s, <2>1, KnownType DEF OpenSound, IInv
      <4>2. QED
        BY <4>1, <2>1, <1>t
    <3>3. \A X \in Snaps' : X.seq <= durableSeq'
      <4>1. \A X \in Snaps : X.seq <= durableSeq /\ X.seq \in Nat
        BY <1>d, <2>1, KnownType DEF OpenSound, IInv
      <4>2. QED
        BY <4>1, <2>1, <1>t
    <3>4. durableSeq' < nextSeq'
      BY <1>t, <2>1
    <3>5. ASSUME Replayable(segment')
          PROVE  /\ nextSeq' <= EndSeq(segment')
                 /\ Frames(segment') \subseteq catalog'
      <4>1. nextSeq' <= EndSeq(segment')
        BY <1>t, <2>1, <2>3, <3>5
      <4>2. \A f \in Frames(segment) : f.seq <= durableSeq
        BY <1>t, <2>3, <3>5, FrameFacts DEF Entry
      <4>3. QED
        BY <4>1, <4>2, <1>d, <2>1, <2>3, <3>5 DEF OpenSound
    <3>6. QED
      BY <3>1, <3>2, <3>3, <3>4, <3>5 DEF OpenSound
  <2>5. ReplaySound' /\ CompactSound' /\ ClosedForgets'
    BY <2>1 DEF ReplaySound, CompactSound, ClosedForgets
  <2>6. QED
    BY <1>0, <2>3, <2>4, <2>5 DEF IInv
<1>9. ASSUME NEW m \in Mutations, ApplyFails(m)
      PROVE  IInv'
  <2>1. /\ AppendReady(m)
        /\ status = "open" /\ status' = "open"
        /\ compactStep = "idle" /\ compactStep' = "idle"
        /\ nextSeq = durableSeq + 1
        /\ catalog' = catalog /\ acked' = acked
        /\ durableSeq' = durableSeq /\ nextSeq' = nextSeq
        /\ Snaps' = Snaps
    BY <1>9, SameSnaps DEF ApplyFails, AppendReady, memory
  <2>2. Known' \subseteq Known
    BY <1>s, <2>1, KnownMonotone
  <2>3. CASE segment' = segment
    <3>1. DiskSound'
      BY <1>d, <2>1, <2>2, <2>3, Shrink
    <3>2. OpenSound'
      BY <1>d, <2>1, <2>2, <2>3 DEF OpenSound
    <3>3. ReplaySound' /\ CompactSound' /\ ClosedForgets'
      BY <2>1 DEF ReplaySound, CompactSound, ClosedForgets
    <3>4. QED
      BY <1>0, <3>1, <3>2, <3>3 DEF IInv
  <2>4. ASSUME NEW line \in {m, Fragment},
               segment' = WriteLine(segment, durableSeq + 1, line)
        PROVE  IInv'
    <3> DEFINE e == [seq |-> durableSeq + 1, mut |-> m]
    <3>1. /\ DiskSound'
          /\ Replayable(segment') =>
                /\ Replayable(segment)
                /\ EndSeq(segment) = durableSeq + 1
                /\ EndSeq(segment') = durableSeq + 2
                /\ Frames(segment') = Frames(segment) \union {e}
      BY <2>1, <2>2, <2>4, WriteKeepsDisk
    <3>2. OpenSound'
      <4>1. ASSUME Replayable(segment')
            PROVE  /\ nextSeq' <= EndSeq(segment')
                   /\ \A f \in Frames(segment') :
                         f.seq <= durableSeq' => f \in catalog'
        <5>1. nextSeq' <= EndSeq(segment')
          BY <1>t, <2>1, <3>1, <4>1
        <5>2. e.seq = durableSeq + 1 /\ ~(e.seq <= durableSeq)
          BY <1>t
        <5>3. \A f \in Frames(segment) : f.seq <= durableSeq => f \in catalog
          BY <1>d, <2>1, <3>1, <4>1 DEF OpenSound
        <5>4. QED
          BY <2>1, <3>1, <4>1, <5>1, <5>2, <5>3
      <4>2. /\ Known' \subseteq catalog'
            /\ \A x \in catalog' : x.seq <= durableSeq'
            /\ \A X \in Snaps' : X.seq <= durableSeq'
            /\ durableSeq' < nextSeq'
        BY <1>d, <2>1, <2>2 DEF OpenSound
      <4>3. QED
        BY <4>1, <4>2 DEF OpenSound
    <3>3. ReplaySound' /\ CompactSound' /\ ClosedForgets'
      BY <2>1 DEF ReplaySound, CompactSound, ClosedForgets
    <3>4. QED
      BY <1>0, <3>1, <3>2, <3>3 DEF IInv
  <2>5. \/ segment' = segment
        \/ \E line \in {m, Fragment} :
              segment' = WriteLine(segment, durableSeq + 1, line)
    BY <1>9 DEF ApplyFails
  <2>6. QED
    BY <2>3, <2>4, <2>5
<1>10. ASSUME NEW m \in Mutations, CrashInApply(m)
       PROVE  IInv'
  <2>1. /\ AppendReady(m)
        /\ status' = "closed" /\ compactStep' = "idle"
        /\ catalog' = {} /\ acked' = acked /\ snapshot' = snapshot
    BY <1>10 DEF CrashInApply, AppendReady, ForgetMemory
  <2>2. PICK line \in {m, Fragment} :
           segment' = WriteLine(segment, durableSeq + 1, line)
    BY <1>10 DEF CrashInApply
  <2>3. Snaps' \subseteq Snaps
    BY <1>10, <2>1 DEF CrashInApply, Snaps, InFlight, Idle
  <2>4. Known' \subseteq Known
    BY <1>s, <2>1, <2>3, KnownMonotone
  <2>5. DiskSound'
    BY <2>1, <2>2, <2>3, <2>4, WriteKeepsDisk
  <2>6. OpenSound' /\ ReplaySound' /\ CompactSound' /\ ClosedForgets'
    BY <2>1 DEF OpenSound, ReplaySound, CompactSound, ClosedForgets
  <2>7. QED
    BY <1>0, <2>5, <2>6 DEF IInv
<1>11. ASSUME NEW w \in Snapshotters, SnapshotCopy(w)
       PROVE  IInv'
  <2> DEFINE D == [seq |-> durableSeq, entries |-> catalog]
  <2>1. /\ status = "open" /\ status' = "open"
        /\ compactStep = "idle" /\ compactStep' = "idle"
        /\ segment' = segment /\ snapshot' = snapshot
        /\ catalog' = catalog /\ acked' = acked
        /\ durableSeq' = durableSeq /\ nextSeq' = nextSeq
    BY <1>11 DEF SnapshotCopy, disk, memory
  <2>2. Snaps' \subseteq Snaps \union {D}
    <3>1. \A v \in Snapshotters : snapshotter'[v].phase = "copied" =>
             \/ v \in InFlight /\ snapshotter'[v].data = snapshotter[v].data
             \/ snapshotter'[v].data = D
      BY <1>11 DEF SnapshotCopy, InFlight, IInv, TypeInv, TypeOK
    <3>2. QED
      BY <3>1, <2>1 DEF Snaps, InFlight
  <2>3. Known' \subseteq Known
    <3>1. \A X \in Snaps \union {D} : X.entries \subseteq Known
      BY <1>s DEF Known
    <3>2. QED
      BY <3>1, <1>s, <2>1, <2>2 DEF Known
  <2>4. DiskSound' /\ \A X \in Snaps' : X.seq <= durableSeq
    BY <2>1, <2>2, <2>3, NewSnapshot
  <2>5. OpenSound'
    BY <1>d, <2>1, <2>3, <2>4 DEF OpenSound
  <2>6. ReplaySound' /\ CompactSound' /\ ClosedForgets'
    BY <2>1 DEF ReplaySound, CompactSound, ClosedForgets
  <2>7. QED
    BY <1>0, <2>4, <2>5, <2>6 DEF IInv
<1>12. ASSUME NEW w \in Snapshotters, SnapshotInstall(w)
       PROVE  IInv'
  <2>1. /\ segment' = segment
        /\ status' = status /\ compactStep' = compactStep
        /\ catalog' = catalog /\ acked' = acked
        /\ durableSeq' = durableSeq /\ nextSeq' = nextSeq
        /\ replayAt' = replayAt
        /\ compactStep = "idle"
    BY <1>12, <1>d DEF SnapshotInstall, memory, CompactSound
  <2>2. Snaps' \subseteq Snaps
    <3>1. snapshot' \in Snaps
      BY <1>12 DEF SnapshotInstall, Snaps, InFlight
    <3>2. \A v \in Snapshotters : snapshotter'[v].phase = "copied" =>
             v \in InFlight /\ snapshotter'[v].data = snapshotter[v].data
      BY <1>12 DEF SnapshotInstall, InFlight, IInv, TypeInv, TypeOK, Writer
    <3>3. QED
      BY <3>1, <3>2 DEF Snaps, InFlight
  <2>3. Known' \subseteq Known
    BY <1>s, <2>1, <2>2, KnownMonotone
  <2>4. DiskSound'
    BY <1>d, <2>1, <2>2, <2>3, Shrink
  <2>5. OpenSound'
    BY <1>d, <2>1, <2>2, <2>3 DEF OpenSound
  <2>6. ReplaySound'
    BY <1>d, <2>1, <2>3 DEF ReplaySound
  <2>7. CompactSound' /\ ClosedForgets'
    BY <1>d, <2>1 DEF CompactSound, ClosedForgets
  <2>8. QED
    BY <1>0, <2>4, <2>5, <2>6, <2>7 DEF IInv
<1>13. ASSUME NEW w \in Snapshotters, SnapshotRecord(w)
       PROVE  IInv'
  <2>1. /\ segment' = segment /\ snapshot' = snapshot
        /\ status' = status /\ compactStep' = compactStep
        /\ catalog' = catalog /\ acked' = acked
        /\ durableSeq' = durableSeq /\ nextSeq' = nextSeq
        /\ replayAt' = replayAt
        /\ compactStep = "idle"
    BY <1>13 DEF SnapshotRecord, disk
  <2>2. Snaps' \subseteq Snaps
    <3>1. \A v \in Snapshotters : snapshotter'[v].phase = "copied" =>
             v \in InFlight /\ snapshotter'[v].data = snapshotter[v].data
      BY <1>13 DEF SnapshotRecord, InFlight, Idle, IInv, TypeInv, TypeOK
    <3>2. QED
      BY <3>1, <2>1 DEF Snaps, InFlight
  <2>3. Known' \subseteq Known
    BY <1>s, <2>1, <2>2, KnownMonotone
  <2>4. DiskSound'
    BY <1>d, <2>1, <2>2, <2>3, Shrink
  <2>5. OpenSound'
    BY <1>d, <2>1, <2>2, <2>3 DEF OpenSound
  <2>6. ReplaySound'
    BY <1>d, <2>1, <2>3 DEF ReplaySound
  <2>7. CompactSound' /\ ClosedForgets'
    BY <1>d, <2>1 DEF CompactSound, ClosedForgets
  <2>8. QED
    BY <1>0, <2>4, <2>5, <2>6, <2>7 DEF IInv
<1>14. ASSUME NEW w \in Snapshotters, SnapshotFails(w)
       PROVE  IInv'
  <2>1. /\ segment' = segment
        /\ status' = status /\ compactStep' = compactStep
        /\ catalog' = catalog /\ acked' = acked
        /\ durableSeq' = durableSeq /\ nextSeq' = nextSeq
        /\ replayAt' = replayAt
        /\ compactStep = "idle"
    BY <1>14, <1>d DEF SnapshotFails, memory, CompactSound
  <2>2. Snaps' \subseteq Snaps
    <3>1. snapshot' \in Snaps
      BY <1>14, <1>s DEF SnapshotFails, Snaps, InFlight
    <3>2. \A v \in Snapshotters : snapshotter'[v].phase = "copied" =>
             v \in InFlight /\ snapshotter'[v].data = snapshotter[v].data
      BY <1>14 DEF SnapshotFails, InFlight, Idle, IInv, TypeInv, TypeOK
    <3>3. QED
      BY <3>1, <3>2 DEF Snaps, InFlight
  <2>3. Known' \subseteq Known
    BY <1>s, <2>1, <2>2, KnownMonotone
  <2>4. DiskSound'
    BY <1>d, <2>1, <2>2, <2>3, Shrink
  <2>5. OpenSound'
    BY <1>d, <2>1, <2>2, <2>3 DEF OpenSound
  <2>6. ReplaySound'
    BY <1>d, <2>1, <2>3 DEF ReplaySound
  <2>7. CompactSound' /\ ClosedForgets'
    BY <1>d, <2>1 DEF CompactSound, ClosedForgets
  <2>8. QED
    BY <1>0, <2>4, <2>5, <2>6, <2>7 DEF IInv
<1>15. CASE CompactWriteSnapshot
  <2> DEFINE D == [seq |-> durableSeq, entries |-> catalog]
  <2>1. /\ status = "open" /\ status' = "open"
        /\ segment' = segment /\ snapshot' = D
        /\ snapshotter' = snapshotter
        /\ catalog' = catalog /\ acked' = acked
        /\ durableSeq' = durableSeq /\ nextSeq' = nextSeq
        /\ \A v \in Snapshotters : snapshotter[v].phase = "idle"
    BY <1>15 DEF CompactWriteSnapshot, memory
  <2>2. Snaps' \subseteq Snaps \union {D}
    BY <2>1 DEF Snaps, InFlight
  <2>3. Known' \subseteq Known
    <3>1. \A X \in Snaps \union {D} : X.entries \subseteq Known
      BY <1>s DEF Known
    <3>2. QED
      BY <3>1, <1>s, <2>1, <2>2 DEF Known
  <2>4. DiskSound' /\ \A X \in Snaps' : X.seq <= durableSeq
    BY <2>1, <2>2, <2>3, NewSnapshot
  <2>5. OpenSound'
    BY <1>d, <2>1, <2>3, <2>4 DEF OpenSound
  <2>6. ReplaySound' /\ CompactSound' /\ ClosedForgets'
    BY <2>1 DEF ReplaySound, CompactSound, ClosedForgets
  <2>7. QED
    BY <1>0, <2>4, <2>5, <2>6 DEF IInv
<1>16. CASE CompactTruncate
  <2>1. /\ status = "open" /\ status' = "open"
        /\ compactStep = "snapshotted" /\ compactStep' = "truncated"
        /\ CanTruncate(segment, durableSeq)
        /\ segment' = Truncated(segment, durableSeq)
        /\ snapshot' = snapshot /\ snapshotter' = snapshotter
        /\ catalog' = catalog /\ acked' = acked
        /\ durableSeq' = durableSeq /\ nextSeq' = EndSeq(segment')
    BY <1>16, <1>d DEF CompactTruncate, CompactSound
  <2>2. Snaps' = Snaps
    BY <2>1, SameSnaps
  <2>3. Known' \subseteq Known
    BY <1>s, <2>1, <2>2, KnownMonotone
  <2>4. /\ DiskSound'
        /\ segment' \in Segment
        /\ EndSeq(segment') = EndSeq(segment)
        /\ Frames(segment') \subseteq Frames(segment)
        /\ durableSeq < EndSeq(segment)
    BY <2>1, <2>2, <2>3, TruncateKeepsDisk
  <2>5. OpenSound'
    <3>1. EndSeq(segment') \in Nat
      BY <2>4 DEF EndSeq, Segment
    <3>2. \A f \in Frames(segment') : f.seq <= durableSeq => f \in catalog
      BY <1>d, <2>1, <2>4 DEF OpenSound, CanTruncate
    <3>3. QED
      BY <1>d, <2>1, <2>2, <2>3, <2>4, <3>1, <3>2 DEF OpenSound
  <2>6. ReplaySound' /\ CompactSound' /\ ClosedForgets'
    BY <1>d, <2>1 DEF ReplaySound, CompactSound, ClosedForgets
  <2>7. QED
    BY <1>0, <2>4, <2>5, <2>6 DEF IInv
<1>17. ASSUME \/ CompactInstallManifest
              \/ CompactRejected
              \/ CompactManifestFails
              \/ UNCHANGED vars
       PROVE  IInv'
  <2>1. /\ segment' = segment /\ snapshot' = snapshot
        /\ snapshotter' = snapshotter
        /\ status' = status /\ compactStep' \in {"idle", compactStep}
        /\ catalog' = catalog /\ acked' = acked
        /\ durableSeq' = durableSeq /\ nextSeq' = nextSeq
        /\ replayAt' = replayAt
    BY <1>17 DEF CompactInstallManifest, CompactRejected,
                 CompactManifestFails, vars, disk, memory
  <2>2. Snaps' = Snaps
    BY <2>1, SameSnaps
  <2>3. Known' \subseteq Known
    BY <1>s, <2>1, <2>2, KnownMonotone
  <2>4. DiskSound'
    BY <1>d, <2>1, <2>2, <2>3, Shrink
  <2>5. OpenSound'
    BY <1>d, <2>1, <2>2, <2>3 DEF OpenSound
  <2>6. ReplaySound'
    BY <1>d, <2>1, <2>3 DEF ReplaySound
  <2>7. CompactSound' /\ ClosedForgets'
    BY <1>d, <2>1 DEF CompactSound, ClosedForgets
  <2>8. QED
    BY <1>0, <2>4, <2>5, <2>6, <2>7 DEF IInv
<1>18. CASE CompactThroughFails
  <2>1. /\ status = "open" /\ status' = "open"
        /\ compactStep = "snapshotted" /\ compactStep' = "idle"
        /\ CanTruncate(segment, durableSeq)
        /\ segment' \in {segment, Truncated(segment, durableSeq)}
        /\ snapshot' = snapshot /\ snapshotter' = snapshotter
        /\ catalog' = catalog /\ acked' = acked
        /\ durableSeq' = durableSeq /\ nextSeq' = nextSeq
    BY <1>18, <1>d DEF CompactThroughFails, CompactSound
  <2>2. Snaps' = Snaps
    BY <2>1, SameSnaps
  <2>3. Known' \subseteq Known
    BY <1>s, <2>1, <2>2, KnownMonotone
  <2>4. /\ DiskSound'
        /\ EndSeq(segment') = EndSeq(segment)
        /\ Frames(segment') \subseteq Frames(segment)
    <3>1. CASE segment' = segment
      BY <1>d, <2>2, <2>3, <3>1, Shrink
    <3>2. CASE segment' = Truncated(segment, durableSeq)
      BY <2>1, <2>2, <2>3, <3>2, TruncateKeepsDisk
    <3>3. QED
      BY <2>1, <3>1, <3>2
  <2>5. OpenSound'
    BY <1>d, <2>1, <2>2, <2>3, <2>4 DEF OpenSound, CanTruncate
  <2>6. ReplaySound' /\ CompactSound' /\ ClosedForgets'
    BY <2>1 DEF ReplaySound, CompactSound, ClosedForgets
  <2>7. QED
    BY <1>0, <2>4, <2>5, <2>6 DEF IInv
<1>19. QED
  BY <1>c, <1>1, <1>2, <1>3, <1>4, <1>5, <1>6, <1>7, <1>8, <1>9, <1>10, <1>11,
     <1>12, <1>13, <1>14, <1>15, <1>16, <1>17, <1>18
  DEF Next, OpenNext, ApplyNext, SnapshotNext, CompactNext

\* The inductive invariant holds initially.
LEMMA InductiveInit == Init => IInv
<1> SUFFICES ASSUME Init PROVE IInv
  OBVIOUS
<1>1. /\ segment.base = 1 /\ segment.frames = <<>> /\ snapshot = NoSnapshot
      /\ catalog = {} /\ acked = {} /\ status = "closed"
      /\ compactStep = "idle"
      /\ \A w \in Snapshotters : snapshotter[w].phase = "idle"
  BY DEF Init, Idle
<1>2. Snaps = {NoSnapshot} /\ Known = {}
  BY <1>1 DEF Snaps, InFlight, Known, NoSnapshot
<1>3. Len(segment.frames) = 0 /\ Frames(segment) = {} /\ EndSeq(segment) = 1
  BY <1>1, EmptySeq DEF Frames, EndSeq
<1>4. DiskSound
  BY <1>1, <1>2, <1>3 DEF DiskSound, KeysUnique, SnapsBounded, SnapsComplete,
     SegmentSound, SegmentComplete, SegmentAgrees, SegmentReaches, NoSnapshot
<1>5. OpenSound /\ ReplaySound /\ CompactSound /\ ClosedForgets
  BY <1>1 DEF OpenSound, ReplaySound, CompactSound, ClosedForgets
<1>6. QED
  BY <1>4, <1>5, TypeInit DEF IInv

\* The inductive invariant, for callers that do not Compact while a
\* WriteSnapshot of theirs is in flight: snapshots, log and catalog agree on
\* what has happened, under every fault.
THEOREM StoreInvariant ==
    ASSUME CallersSerialize
    PROVE  Spec => []IInv
<1>1. IInv /\ [Next]_vars => IInv'
  BY InductiveStep
<1>2. QED
  BY <1>1, InductiveInit, PTL DEF Spec

\* No acknowledged mutation is ever missing from an open Store's catalog,
\* whatever I/O errors and crashes occur between Apply, WriteSnapshot, Compact
\* and Open, provided callers do not Compact while a WriteSnapshot runs.
THEOREM AckedSafe ==
    ASSUME CallersSerialize
    PROVE  Spec => []AckedNeverLost
<1>1. IInv => AckedNeverLost
  BY DEF IInv, OpenSound, Known, AckedNeverLost
<1>2. IInv /\ [Next]_vars => IInv'
  BY InductiveStep
<1>3. QED
  BY <1>1, <1>2, InductiveInit, PTL DEF Spec

\* Under the same assumption a mutation with an idempotency key is never
\* acknowledged, or applied, at two sequence numbers.
THEOREM KeyedSafe ==
    ASSUME CallersSerialize
    PROVE  Spec => []KeyedOnce
<1>1. IInv => KeyedOnce
  <2>1. acked \union catalog \subseteq Known
    BY DEF Known
  <2>2. QED
    BY <2>1 DEF IInv, DiskSound, KeysUnique, KeyedOnce
<1>2. IInv /\ [Next]_vars => IInv'
  BY InductiveStep
<1>3. QED
  BY <1>1, <1>2, InductiveInit, PTL DEF Spec

\* No step lets a manifest claim more than a snapshot covers: Compact installs
\* the manifest last, and an open Store is at least as far as the manifest.
LEMMA ManifestStep ==
    ASSUME CallersSerialize
    PROVE  IInv /\ ManifestCovered /\ [Next]_vars => ManifestCovered'
<1> SUFFICES ASSUME IInv, ManifestCovered, [Next]_vars PROVE ManifestCovered'
  OBVIOUS
<1>t. manifestSeq \in Nat /\ durableSeq \in Nat /\ snapshot \in Snaps
  BY DEF IInv, TypeInv, TypeOK, Snaps
<1>o. status = "open" => manifestSeq <= durableSeq
  BY <1>t, KnownType DEF IInv, OpenSound, ManifestCovered
<1>1. CASE \E w \in Snapshotters : SnapshotCopy(w)
  <2>1. Snaps' \subseteq Snaps \union {[seq |-> durableSeq, entries |-> catalog]}
    BY <1>1 DEF SnapshotCopy, disk, Snaps, InFlight, IInv, TypeInv, TypeOK
  <2>2. manifestSeq' = manifestSeq /\ manifestSeq <= durableSeq
    BY <1>1, <1>o DEF SnapshotCopy, disk
  <2>3. QED
    BY <2>1, <2>2 DEF ManifestCovered
<1>2. CASE CompactWriteSnapshot
  <2>1. Snaps' \subseteq Snaps \union {[seq |-> durableSeq, entries |-> catalog]}
    BY <1>2 DEF CompactWriteSnapshot, Snaps, InFlight
  <2>2. manifestSeq' = manifestSeq /\ manifestSeq <= durableSeq
    BY <1>2, <1>o DEF CompactWriteSnapshot
  <2>3. QED
    BY <2>1, <2>2 DEF ManifestCovered
<1>3. CASE CompactInstallManifest \/ CompactManifestFails
  <2>1. manifestSeq' \in {manifestSeq, durableSeq} /\ Snaps' = Snaps
    BY <1>3 DEF CompactInstallManifest, CompactManifestFails, Snaps, InFlight
  <2>2. compactStep # "idle"
    BY <1>3 DEF CompactInstallManifest, CompactManifestFails
  <2>3. Snaps = {snapshot} /\ snapshot.seq = durableSeq
    BY <2>2 DEF IInv, CompactSound, Snaps, InFlight
  <2>4. QED
    BY <1>t, <2>1, <2>3 DEF ManifestCovered
<1>4. ASSUME NEW w \in Snapshotters,
             SnapshotInstall(w) \/ SnapshotRecord(w) \/ SnapshotFails(w)
      PROVE  ManifestCovered'
  <2>1. manifestSeq' = manifestSeq
    BY <1>4 DEF SnapshotInstall, SnapshotRecord, SnapshotFails, disk
  <2>2. snapshot' \in Snaps
    BY <1>4 DEF SnapshotInstall, SnapshotRecord, SnapshotFails, disk, Snaps,
                InFlight
  <2>3. \A v \in Snapshotters : snapshotter'[v].phase = "copied" =>
           v \in InFlight /\ snapshotter'[v].data = snapshotter[v].data
    <3>1. CASE SnapshotInstall(w)
      BY <3>1 DEF SnapshotInstall, InFlight, IInv, TypeInv, TypeOK, Writer
    <3>2. CASE SnapshotRecord(w) \/ SnapshotFails(w)
      BY <3>2 DEF SnapshotRecord, SnapshotFails, Idle, InFlight, IInv,
                  TypeInv, TypeOK, Writer
    <3>3. QED
      BY <1>4, <3>1, <3>2
  <2>4. Snaps' \subseteq Snaps
    BY <2>2, <2>3 DEF Snaps, InFlight
  <2>5. QED
    BY <2>1, <2>4 DEF ManifestCovered
<1>5. CASE Close \/ Crash \/ \E m \in Mutations : CrashInApply(m)
  <2>1. manifestSeq' = manifestSeq /\ snapshot' = snapshot
    BY <1>5 DEF Close, Crash, CrashInApply, disk
  <2>2. \A v \in Snapshotters : snapshotter'[v].phase = "copied" =>
           v \in InFlight /\ snapshotter'[v].data = snapshotter[v].data
    <3>1. CASE Close
      BY <3>1 DEF Close, InFlight, IInv, TypeInv, TypeOK, Writer
    <3>2. CASE Crash \/ \E m \in Mutations : CrashInApply(m)
      BY <3>2 DEF Crash, CrashInApply, Idle
    <3>3. QED
      BY <1>5, <3>1, <3>2
  <2>3. Snaps' \subseteq Snaps
    BY <2>1, <2>2 DEF Snaps, InFlight
  <2>4. QED
    BY <2>1, <2>3 DEF ManifestCovered
<1>6. CASE \/ OpenNext
           \/ \E m \in Mutations :
                 ApplyIdempotent(m) \/ ApplyCommit(m) \/ ApplyFails(m)
           \/ CompactTruncate \/ CompactRejected \/ CompactThroughFails
           \/ UNCHANGED vars
  <2>1. manifestSeq' = manifestSeq /\ Snaps' = Snaps
    BY <1>6 DEF OpenNext, CreateFails, OpenRefused, OpenLoad, ReplayEntry,
                OpenDone, ApplyIdempotent, ApplyCommit, ApplyFails, CompactTruncate,
                CompactRejected, CompactThroughFails, disk, memory, vars,
                Snaps, InFlight
  <2>2. QED
    BY <2>1 DEF ManifestCovered
<1>7. QED
  BY <1>1, <1>2, <1>3, <1>4, <1>5, <1>6
  DEF Next, ApplyNext, SnapshotNext, CompactNext

\* Under the same assumption the snapshot file covers, at every moment, what
\* the log has dropped and what the manifest claims.
THEOREM TruncationSafe ==
    ASSUME CallersSerialize
    PROVE  Spec => []TruncationCovered
<1>1. Init => ManifestCovered
  BY DEF Init, ManifestCovered, Snaps, InFlight, NoSnapshot, Idle
<1>2. IInv /\ ManifestCovered => TruncationCovered
  BY DEF IInv, DiskSound, SnapsBounded, Snaps, ManifestCovered, TruncationCovered
<1>3. IInv /\ [Next]_vars => IInv'
  BY InductiveStep
<1>4. IInv /\ ManifestCovered /\ [Next]_vars => ManifestCovered'
  BY ManifestStep
<1>5. QED
  BY <1>1, <1>2, <1>3, <1>4, InductiveInit, PTL DEF Spec
=============================================================================
