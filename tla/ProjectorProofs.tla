-------------------------- MODULE ProjectorProofs --------------------------
(***************************************************************************)
(* Proofs about ProjectorRuntime, for any set of projectors and any number *)
(* of mutations: the invariant of ProjectorInv is inductive when a Compact *)
(* that truncates the log also installs its manifest, and the runtime then *)
(* implements ProjectionFeed; what needs no such assumption comes last.    *)
(***************************************************************************)
EXTENDS ProjectorInv, FiniteSetTheorems, TLAPS

\* The first pending event is the least one.
LEMMA FirstIsLeast ==
    ASSUME NEW S \in SUBSET Nat, NEW k \in S, \A f \in S : k <= f
    PROVE  First(S) = k
<1>1. \E e \in S : \A f \in S : e <= f
  OBVIOUS
<1>2. First(S) \in S /\ \A f \in S : First(S) <= f
  BY <1>1 DEF First
<1>3. First(S) \in Nat /\ First(S) <= k /\ k <= First(S) /\ k \in Nat
  BY <1>2
<1>4. QED
  BY <1>3

\* What nextEvent hands to a worker is the event after its checkpoint.
LEMMA NextIsSuccessor ==
    ASSUME ProjInv, NEW n \in Names, worker[n].at # "absent", Pending(n) # {}
    PROVE  /\ First(Pending(n)) = indexed[n] + 1
           /\ indexed[n] + 1 <= durableSeq
<1>1. /\ indexed[n] \in Nat /\ durableSeq \in Nat
      /\ compactionSeq \in Nat /\ events \in SUBSET Nat
  BY DEF ProjInv, TypeOK
<1>2. /\ (compactionSeq + 1)..durableSeq \subseteq events
      /\ events \subseteq 1..durableSeq
      /\ compactionSeq <= indexed[n]
  BY DEF ProjInv, QueueSound, WorkersSound
<1>3. Pending(n) = {e \in events : e > indexed[n]}
  BY DEF Pending, EventsAfter
<1>4. indexed[n] + 1 <= durableSeq
  <2>1. PICK e \in Pending(n) : TRUE
    OBVIOUS
  <2>2. e \in Nat /\ e > indexed[n] /\ e \in 1..durableSeq
    BY <1>1, <1>2, <1>3, <2>1
  <2>3. QED
    BY <1>1, <2>2
<1>5. indexed[n] + 1 \in Pending(n)
  BY <1>1, <1>2, <1>3, <1>4
<1>6. \A f \in Pending(n) : indexed[n] + 1 <= f
  <2> SUFFICES ASSUME NEW f \in Pending(n) PROVE indexed[n] + 1 <= f
    OBVIOUS
  <2>1. f \in Nat /\ f > indexed[n]
    BY <1>1, <1>3
  <2>2. QED
    BY <1>1, <2>1
<1>7. Pending(n) \in SUBSET Nat
  BY <1>1, <1>3
<1>8. QED
  BY <1>4, <1>5, <1>6, <1>7, FirstIsLeast

\* Broadcast changes no worker but the waiting ones, which it sends back to
\* nextEvent.
LEMMA WokenType ==
    ASSUME NEW W \in [Names -> Worker]
    PROVE  /\ Woken(W) \in [Names -> Worker]
           /\ \A n \in Names :
                 /\ Woken(W)[n].event = W[n].event
                 /\ W[n].at # "waiting" => Woken(W)[n].at = W[n].at
                 /\ W[n].at = "waiting" => Woken(W)[n].at = "fetch"
BY DEF Woken, Worker, Steps

\* The typing invariant is preserved, as long as nextEvent finds numbers.
LEMMA TypeStep ==
    ASSUME TypeOK, [Next]_vars,
           \A n \in Names : Up /\ worker[n].at = "fetch" /\ Pending(n) # {} =>
                              First(Pending(n)) \in Nat
    PROVE  TypeOK'
<1>t. TypeOK
  OBVIOUS
<1> USE <1>t DEF TypeOK
<1>w. Woken(worker) \in [Names -> Worker]
  BY WokenType
<1>n. NoWorker \in Worker /\ [NoWorker EXCEPT !.at = "fetch"] \in Worker
  BY DEF NoWorker, Worker, Steps
<1>g. \A n \in Names, step \in Steps :
         /\ Goto(n, step) \in [Names -> Worker]
         /\ Woken(Goto(n, step)) \in [Names -> Worker]
  <2> TAKE n \in Names, step \in Steps
  <2>1. [worker[n] EXCEPT !.at = step] \in Worker
    BY DEF Worker
  <2>2. Goto(n, step) \in [Names -> Worker]
    BY <2>1 DEF Goto
  <2>3. QED
    BY <2>2, WokenType
<1>1. CASE Open
  BY <1>1 DEF Open, disk
<1>2. CASE Apply
  BY <1>2, <1>w DEF Apply
<1>3. ASSUME NEW n \in Names, RegisterProjector(n)
      PROVE  TypeOK'
  BY <1>3, <1>w, <1>n DEF RegisterProjector, disk
<1>4. CASE CloseStart
  BY <1>4, <1>w DEF CloseStart, disk
<1>5. CASE CloseFinish
  BY <1>5 DEF CloseFinish, disk
<1>6. CASE Crash
  BY <1>6, <1>n DEF Crash, disk
<1>7. CASE CompactStart \/ CompactFails
  <2>1. manifestSeq' \in {manifestSeq, durableSeq}
    BY <1>7 DEF CompactStart, CompactFails, disk
  <2>2. QED
    BY <1>7, <2>1 DEF CompactStart, CompactFails, disk
<1>8. CASE CompactTruncate
  BY <1>8 DEF CompactTruncate
<1>9. CASE CompactFinish
  BY <1>9 DEF CompactFinish, EventsAfter
<1>10. ASSUME NEW n \in Names, NextEvent(n)
       PROVE  TypeOK'
  <2>1. CASE worker' \in {Goto(n, "stopping"), Goto(n, "waiting")}
    <3>1. worker' \in [Names -> Worker]
      BY <1>g, <2>1 DEF Steps
    <3>2. QED
      BY <1>10, <3>1 DEF NextEvent, disk, store
  <2>2. CASE /\ Pending(n) # {}
             /\ worker' = [worker EXCEPT ![n].at = "projecting",
                                         ![n].event = First(Pending(n))]
    <3>1. worker[n].at = "fetch" /\ (status = "open" => Up)
      BY <1>10 DEF NextEvent, Up
    <3>2. First(Pending(n)) \in Nat
      <4>1. CASE Up
        BY <2>2, <3>1, <4>1
      <4>2. CASE ~Up
        <5>1. worker' = Goto(n, "stopping")
          BY <1>10, <3>1, <4>2 DEF NextEvent
        <5>2. FALSE
          BY <2>2, <3>1, <5>1 DEF Goto, Worker
        <5> QED
          BY <5>2
      <4> QED
        BY <4>1, <4>2
    <3>3. [worker[n] EXCEPT !.at = "projecting", !.event = First(Pending(n))] \in Worker
      BY <3>2, <1>t DEF Worker, Steps
    <3>4. worker' \in [Names -> Worker]
      BY <2>2, <3>3, <1>t
    <3>5. QED
      BY <1>10, <3>4 DEF NextEvent, disk, store
  <2>3. QED
    BY <1>10, <2>1, <2>2 DEF NextEvent
<1>11. ASSUME NEW n \in Names, Projects(n)
       PROVE  TypeOK'
  <2>1. \E step \in Steps : worker' = Goto(n, step)
    BY <1>11 DEF Projects, ProjectSucceeds, ProjectFails, Steps
  <2>2. worker[n].event \in Nat
    BY DEF Worker
  <2>3. QED
    <3>1. worker' \in [Names -> Worker]
      BY <1>g, <2>1
    <3>2. \/ projected' = projected
          \/ projected' = [projected EXCEPT ![n] = @ \union {worker[n].event}]
      BY <1>11 DEF Projects, ProjectSucceeds, ProjectFails
    <3>3. projected' \in [Names -> SUBSET Nat]
      BY <2>2, <3>2
    <3>4. UNCHANGED <<disk, store>>
      BY <1>11 DEF Projects, ProjectSucceeds, ProjectFails
    <3>5. QED
      BY <3>1, <3>3, <3>4 DEF disk, store
<1>12. ASSUME NEW n \in Names, Saves(n)
       PROVE  TypeOK'
  <2>1. \E step \in Steps : worker' = Goto(n, step)
    BY <1>12 DEF Saves, SaveCheckpoint, SaveFails, Steps
  <2>2. worker[n].event \in Nat
    BY DEF Worker
  <2>3. QED
    <3>1. worker' \in [Names -> Worker]
      BY <1>g, <2>1
    <3>2. \/ files' = files /\ saved' = saved
          \/ /\ files' = files \union {n}
             /\ saved' = [saved EXCEPT ![n] = worker[n].event]
      BY <1>12 DEF Saves, SaveCheckpoint, SaveFails
    <3>3. files' \in SUBSET Names /\ saved' \in [Names -> Nat]
      BY <2>2, <3>2
    <3>4. UNCHANGED <<logBase, durableSeq, manifestSeq, store, projected>>
      BY <1>12 DEF Saves, SaveCheckpoint, SaveFails
    <3>5. QED
      BY <3>1, <3>3, <3>4 DEF store
<1>13. ASSUME NEW n \in Names, AdvanceCheckpoint(n)
       PROVE  TypeOK'
  <2>1. worker' \in {Goto(n, "clearing"), Woken(Goto(n, "clearing"))}
    BY <1>13 DEF AdvanceCheckpoint
  <2>2. worker' \in [Names -> Worker]
    BY <1>g, <2>1 DEF Steps
  <2>3. worker[n].event \in Nat
    BY DEF Worker
  <2>4. QED
    BY <1>13, <2>2, <2>3 DEF AdvanceCheckpoint, disk
<1>14. ASSUME NEW n \in Names, ClearError(n) \/ SetError(n) \/ RetrySleep(n)
       PROVE  TypeOK'
  <2>1. worker' \in [Names -> Worker]
    <3>1. CASE ClearError(n) \/ SetError(n)
      <4>1. /\ [worker[n] EXCEPT !.at = "fetch", !.failed = FALSE] \in Worker
            /\ [worker[n] EXCEPT !.at = "sleeping", !.failed = TRUE] \in Worker
        BY DEF Worker, Steps
      <4>2. CASE ClearError(n)
        BY <4>1, <4>2 DEF ClearError
      <4>3. CASE SetError(n)
        BY <4>1, <4>3 DEF SetError
      <4>4. QED
        BY <3>1, <4>2, <4>3
    <3>2. CASE RetrySleep(n)
      BY <1>g, <3>2 DEF RetrySleep, Steps
    <3>3. QED
      BY <1>14, <3>1, <3>2
  <2>2. QED
    BY <1>14, <2>1 DEF ClearError, SetError, RetrySleep, disk, store
<1>15. ASSUME NEW n \in Names, MarkStopped(n)
       PROVE  TypeOK'
  BY <1>15, <1>w, <1>n DEF MarkStopped, disk, store
<1>16. CASE UNCHANGED vars
  BY <1>16 DEF vars, disk, store
<1>17. QED
  BY <1>1, <1>2, <1>3, <1>4, <1>5, <1>6, <1>7, <1>8, <1>9, <1>10, <1>11,
     <1>12, <1>13, <1>14, <1>15, <1>16
  DEF Next, StoreNext, WorkerRuns

-----------------------------------------------------------------------------
\* A step that moves workers about, and changes nothing else, keeps the
\* invariant if each worker that is still handling an event handles the same.
LEMMA WorkersOnly ==
    ASSUME ProjInv, TypeOK', UNCHANGED <<disk, store, projected>>,
           \A m \in Names :
              /\ worker'[m].at # "absent" => worker[m].at # "absent"
              /\ worker'[m].at \in Handling =>
                    /\ worker'[m].at = worker[m].at
                    /\ worker'[m].event = worker[m].event
    PROVE  ProjInv'
<1>1. WorkersSound'
  BY DEF ProjInv, WorkersSound, Handling, Up, disk, store
<1>2. QED
  BY <1>1 DEF ProjInv, DownForgets, LogSound, FilesSound, QueueSound,
              CheckpointsSound, Up, disk, store

\* Opening, closing or losing the process leaves the disk as it is and
\* starts, or ends, with no worker.
LEMMA DownStep ==
    ASSUME ProjInv, TypeOK', UNCHANGED <<disk, projected>>,
           status' = "down", known' = {}, compactStep' = "idle",
           \A n \in Names : worker'[n].at = "absent",
           compactStep # "truncated"
    PROVE  ProjInv'
<1>1. DownForgets' /\ QueueSound' /\ CheckpointsSound'
  BY DEF DownForgets, QueueSound, CheckpointsSound, Up
<1>2. WorkersSound'
  BY DEF WorkersSound, Handling
<1>3. LogSound' /\ FilesSound'
  BY DEF ProjInv, LogSound, FilesSound, disk
<1>4. QED
  BY <1>1, <1>2, <1>3 DEF ProjInv

\* The invariant is preserved by what the store around the workers does.
LEMMA StoreStep ==
    ASSUME CompactAtomic, ProjInv, TypeOK', StoreNext
    PROVE  ProjInv'
<1>t. TypeOK /\ \A n \in Names : worker[n] \in Worker
  BY DEF ProjInv, TypeOK
<1>w. \A n \in Names :
         /\ Woken(worker)[n].event = worker[n].event
         /\ Woken(worker)[n].at # "absent" => worker[n].at # "absent"
         /\ Woken(worker)[n].at \in Handling => worker[n].at = Woken(worker)[n].at
  BY <1>t, WokenType DEF TypeOK, Handling
<1>1. CASE Open
  <2>1. /\ UNCHANGED <<disk, compactStep, worker, projected>>
        /\ status = "down" /\ status' = "open"
        /\ compactionSeq' = manifestSeq /\ events' = logBase..durableSeq
        /\ known' = files
        /\ indexed' = [n \in Names |-> IF n \in files THEN saved[n] ELSE 0]
    BY <1>1 DEF Open
  <2>2. compactStep = "idle" /\ \A n \in Names : worker[n].at = "absent"
    BY <2>1 DEF ProjInv, DownForgets, WorkersSound, Up
  <2>3. LogSound' /\ FilesSound' /\ DownForgets' /\ WorkersSound'
    BY <2>1, <2>2 DEF ProjInv, LogSound, FilesSound, DownForgets,
                      WorkersSound, Handling, Up, disk
  <2>4. QueueSound'
    <3>1. logBase = manifestSeq + 1
      BY <2>2 DEF ProjInv, LogSound
    <3>2. logBase..durableSeq \subseteq 1..durableSeq
      BY <1>t DEF TypeOK
    <3>3. QED
      BY <1>t, <2>1, <3>1, <3>2 DEF QueueSound, TypeOK, disk
  <2>5. CheckpointsSound'
    BY <1>t, <2>1 DEF ProjInv, FilesSound, CheckpointsSound, TypeOK, disk
  <2>6. QED
    BY <2>3, <2>4, <2>5 DEF ProjInv
<1>2. CASE Apply
  <2>1. /\ status = "open" /\ compactStep = "idle"
        /\ UNCHANGED <<logBase, manifestSeq, files, saved, status,
                       compactionSeq, known, indexed, compactStep, projected>>
        /\ durableSeq' = durableSeq + 1
        /\ events' = events \union {durableSeq + 1}
        /\ worker' = Woken(worker)
    BY <1>2 DEF Apply, Unlocked
  <2>2. LogSound' /\ FilesSound' /\ DownForgets'
    BY <1>t, <2>1 DEF ProjInv, LogSound, FilesSound, DownForgets, TypeOK, Up
  <2>3. QueueSound' /\ CheckpointsSound'
    BY <1>t, <2>1 DEF ProjInv, QueueSound, CheckpointsSound, TypeOK, Up
  <2>4. WorkersSound'
    <3> SUFFICES ASSUME NEW n \in Names
                 PROVE  /\ worker'[n].at # "absent" =>
                              Up' /\ n \in known' /\ compactionSeq' <= indexed'[n]
                        /\ worker'[n].at \in Handling =>
                              /\ worker'[n].event = indexed'[n] + 1
                              /\ worker'[n].event <= durableSeq'
                        /\ worker'[n].at = "saving" =>
                              worker'[n].event \in projected'[n]
                        /\ worker'[n].at = "saved" =>
                              saved'[n] = worker'[n].event
      BY DEF WorkersSound
    <3>1. worker[n].event \in Nat /\ durableSeq \in Nat
      BY <1>t DEF TypeOK, Worker
    <3>2. QED
      BY <1>w, <2>1, <3>1 DEF ProjInv, WorkersSound, Handling, Up
  <2>5. QED
    BY <2>2, <2>3, <2>4 DEF ProjInv
<1>3. ASSUME NEW n \in Names, RegisterProjector(n)
      PROVE  ProjInv'
  <2>1. /\ status = "open" /\ compactStep = "idle"
        /\ UNCHANGED <<disk, status, compactionSeq, events, indexed,
                       compactStep, projected>>
        /\ known' = known \union {n}
        /\ compactionSeq > 0 => n \in known /\ indexed[n] >= compactionSeq
    BY <1>3 DEF RegisterProjector, Unlocked
  <2>2. /\ worker'[n].at = "fetch"
        /\ \A m \in Names \ {n} : worker'[m] = Woken(worker)[m]
    BY <1>3, <1>t, WokenType DEF RegisterProjector, TypeOK, NoWorker
  <2>3. LogSound' /\ FilesSound' /\ DownForgets' /\ QueueSound'
    BY <2>1 DEF ProjInv, LogSound, FilesSound, DownForgets, QueueSound, Up, disk
  <2>4. CheckpointsSound'
    BY <1>t, <2>1 DEF ProjInv, CheckpointsSound, TypeOK, Up, disk
  <2>5. WorkersSound'
    <3>1. compactionSeq <= indexed[n]
      BY <1>t, <2>1 DEF TypeOK
    <3>2. QED
      BY <1>w, <2>1, <2>2, <3>1 DEF ProjInv, WorkersSound, Handling, Up, disk
  <2>6. QED
    BY <2>3, <2>4, <2>5 DEF ProjInv
<1>4. CASE CloseStart
  <2>1. /\ status = "open" /\ status' = "closing" /\ compactStep = "idle"
        /\ UNCHANGED <<disk, compactionSeq, events, known, indexed,
                       compactStep, projected>>
        /\ worker' = Woken(worker)
    BY <1>4 DEF CloseStart, Unlocked
  <2>2. LogSound' /\ FilesSound' /\ DownForgets' /\ QueueSound'
        /\ CheckpointsSound'
    BY <2>1 DEF ProjInv, LogSound, FilesSound, DownForgets, QueueSound,
                CheckpointsSound, Up, disk
  <2>3. WorkersSound'
    BY <1>w, <2>1 DEF ProjInv, WorkersSound, Handling, Up, disk
  <2>4. QED
    BY <2>2, <2>3 DEF ProjInv
<1>5. CASE CloseFinish
  <2>1. compactStep = "idle"
    BY <1>5 DEF CloseFinish, ProjInv, LogSound
  <2>2. QED
    BY <1>5, <2>1, DownStep DEF CloseFinish
<1>6. CASE Crash
  BY <1>6, DownStep DEF Crash, NoWorker
<1>7. CASE CompactStart
  <2>1. /\ status = "open" /\ compactStep = "idle" /\ compactStep' = "started"
        /\ \A n \in known : indexed[n] >= durableSeq
        /\ UNCHANGED <<disk, status, compactionSeq, events, known, indexed,
                       worker, projected>>
    BY <1>7 DEF CompactStart, Unlocked
  <2>2. \A n \in known : indexed[n] = durableSeq
    <3> SUFFICES ASSUME NEW n \in known PROVE indexed[n] = durableSeq
      OBVIOUS
    <3>1. /\ n \in Names /\ indexed[n] \in Nat /\ saved[n] \in Nat
          /\ durableSeq \in Nat
      BY <1>t DEF TypeOK
    <3>2. saved[n] \in {indexed[n], indexed[n] + 1} /\ saved[n] <= durableSeq
      BY <2>1, <3>1 DEF ProjInv, CheckpointsSound, FilesSound, Up
    <3>3. QED
      BY <2>1, <3>1, <3>2
  <2>3. LogSound' /\ FilesSound' /\ DownForgets' /\ QueueSound'
        /\ CheckpointsSound' /\ WorkersSound'
    BY <2>1, <2>2 DEF ProjInv, LogSound, FilesSound, DownForgets, QueueSound,
                      CheckpointsSound, WorkersSound, Handling, Up, disk
  <2>4. QED
    BY <2>3 DEF ProjInv
<1>8. CASE CompactTruncate
  <2>1. /\ compactStep = "started" /\ compactStep' = "truncated"
        /\ logBase' = durableSeq + 1
        /\ UNCHANGED <<durableSeq, manifestSeq, files, saved, status,
                       compactionSeq, events, known, indexed, worker,
                       projected>>
    BY <1>8 DEF CompactTruncate
  <2>2. LogSound' /\ FilesSound' /\ DownForgets' /\ QueueSound'
        /\ CheckpointsSound' /\ WorkersSound'
    BY <2>1 DEF ProjInv, LogSound, FilesSound, DownForgets, QueueSound,
                CheckpointsSound, WorkersSound, Handling, Up
  <2>3. QED
    BY <2>2 DEF ProjInv
<1>9. CASE CompactFinish
  <2>1. /\ compactStep = "truncated" /\ compactStep' = "idle"
        /\ manifestSeq' = durableSeq /\ compactionSeq' = durableSeq
        /\ events' = EventsAfter(durableSeq)
        /\ UNCHANGED <<logBase, durableSeq, files, saved, status, known,
                       indexed, worker, projected>>
    BY <1>9 DEF CompactFinish
  <2>2. /\ status = "open" /\ logBase = durableSeq + 1
        /\ \A n \in known : indexed[n] = durableSeq
    BY <2>1 DEF ProjInv, LogSound
  <2>3. \A n \in Names : saved[n] \in Nat /\ indexed[n] \in Nat /\ durableSeq \in Nat
    BY <1>t DEF TypeOK
  <2>4. LogSound'
    BY <1>t, <2>1, <2>2 DEF LogSound, TypeOK
  <2>5. FilesSound'
    BY <2>1 DEF ProjInv, FilesSound
  <2>6. QueueSound'
    <3>1. (durableSeq + 1)..durableSeq = {}
      BY <1>t DEF TypeOK
    <3>2. EventsAfter(durableSeq) \subseteq 1..durableSeq
      BY <2>2 DEF EventsAfter, ProjInv, QueueSound, Up
    <3>3. files \subseteq known
      BY <2>2 DEF ProjInv, QueueSound, Up
    <3>4. QED
      BY <1>t, <2>1, <3>1, <3>2, <3>3 DEF QueueSound, TypeOK
  <2>7. CheckpointsSound'
    BY <2>1, <2>2, <2>3 DEF ProjInv, CheckpointsSound, Up
  <2>8. DownForgets' /\ WorkersSound'
    BY <2>1, <2>2, <2>3 DEF ProjInv, DownForgets, WorkersSound, Handling, Up
  <2>9. QED
    BY <2>4, <2>5, <2>6, <2>7, <2>8 DEF ProjInv
<1>10. CASE CompactFails
  <2>1. /\ \/ compactStep = "started" /\ manifestSeq' = manifestSeq
           \/ compactStep = "truncated" /\ manifestSeq' = durableSeq
        /\ compactStep' = "idle"
        /\ UNCHANGED <<logBase, durableSeq, files, saved, status, compactionSeq,
                       events, known, indexed, worker, projected>>
    BY <1>10 DEF CompactFails
  <2>n. manifestSeq \in Nat /\ durableSeq \in Nat /\ compactionSeq \in Nat
    BY <1>t DEF TypeOK
  <2>2. LogSound' /\ FilesSound' /\ DownForgets' /\ QueueSound'
        /\ CheckpointsSound' /\ WorkersSound'
    BY <2>1, <2>n DEF ProjInv, LogSound, FilesSound, DownForgets, QueueSound,
                      CheckpointsSound, WorkersSound, Handling, Up
  <2>3. QED
    BY <2>2 DEF ProjInv
<1>11. QED
  BY <1>1, <1>2, <1>3, <1>4, <1>5, <1>6, <1>7, <1>8, <1>9, <1>10 DEF StoreNext

\* The invariant is preserved by every step of a worker.
LEMMA WorkerStep ==
    ASSUME ProjInv, TypeOK', NEW n \in Names,
           WorkerRuns(n) \/ Projects(n) \/ Saves(n)
    PROVE  ProjInv'
<1>t. /\ TypeOK /\ worker \in [Names -> Worker]
      /\ \A m \in Names : worker[m] \in Worker /\ worker[m].event \in Nat
  BY DEF ProjInv, TypeOK, Worker
<1>g. \A step \in Steps :
         /\ Goto(n, step)[n].at = step
         /\ Goto(n, step)[n].event = worker[n].event
         /\ \A m \in Names \ {n} : Goto(n, step)[m] = worker[m]
         /\ Goto(n, step) \in [Names -> Worker]
  BY <1>t DEF Goto, Worker
<1>1. CASE NextEvent(n)
  <2>1. UNCHANGED <<disk, store, projected>> /\ worker[n].at = "fetch"
    BY <1>1 DEF NextEvent
  <2>2. CASE worker' \in {Goto(n, "stopping"), Goto(n, "waiting")}
    BY <1>g, <2>1, <2>2, WorkersOnly DEF Handling, Steps
  <2>3. CASE /\ Pending(n) # {}
             /\ worker' = [worker EXCEPT ![n].at = "projecting",
                                         ![n].event = First(Pending(n))]
    <3>1. Up /\ n \in known
      BY <2>1 DEF ProjInv, WorkersSound
    <3>2. /\ First(Pending(n)) = indexed[n] + 1
          /\ indexed[n] + 1 <= durableSeq
      BY <2>1, <2>3, NextIsSuccessor
    <3>3. /\ worker'[n].at = "projecting"
          /\ worker'[n].event = indexed[n] + 1
          /\ \A m \in Names \ {n} : worker'[m] = worker[m]
      BY <1>t, <2>3, <3>2 DEF Worker
    <3>4. WorkersSound'
      BY <2>1, <3>1, <3>2, <3>3
      DEF ProjInv, WorkersSound, Handling, Up, disk, store
    <3>5. QED
      BY <2>1, <3>4 DEF ProjInv, DownForgets, LogSound, FilesSound,
                        QueueSound, CheckpointsSound, Up, disk, store
  <2>4. QED
    BY <1>1, <2>2, <2>3 DEF NextEvent
<1>2. CASE ClearError(n) \/ SetError(n) \/ RetrySleep(n) \/ MarkStopped(n)
  <2>1. UNCHANGED <<disk, store, projected>> /\ worker[n].at # "absent"
    BY <1>2 DEF ClearError, SetError, RetrySleep, MarkStopped
  <2>2. \A m \in Names :
           /\ worker'[m].at # "absent" => worker[m].at # "absent"
           /\ worker'[m].at \in Handling =>
                 /\ worker'[m].at = worker[m].at
                 /\ worker'[m].event = worker[m].event
    <3>1. CASE ClearError(n) \/ SetError(n)
      BY <1>t, <2>1, <3>1 DEF ClearError, SetError, Worker, Handling
    <3>2. CASE RetrySleep(n)
      BY <1>g, <2>1, <3>2 DEF RetrySleep, Steps, Handling
    <3>3. CASE MarkStopped(n)
      <4>1. \A m \in Names \ {n} : worker'[m] = Woken(worker)[m]
        BY <3>3, <1>t, WokenType DEF MarkStopped
      <4>2. worker'[n].at = "absent"
        BY <3>3, <1>t, WokenType DEF MarkStopped, NoWorker
      <4>3. QED
        BY <1>t, <4>1, <4>2, WokenType DEF Handling
    <3>4. QED
      BY <1>2, <3>1, <3>2, <3>3
  <2>3. QED
    BY <2>1, <2>2, WorkersOnly
<1>3. CASE AdvanceCheckpoint(n)
  <2>1. /\ worker[n].at = "saved" /\ compactStep = "idle"
        /\ UNCHANGED <<disk, status, compactionSeq, events, known,
                       compactStep, projected>>
    BY <1>3 DEF AdvanceCheckpoint, Unlocked
  <2>2. /\ Up /\ n \in known
        /\ worker[n].event = indexed[n] + 1 /\ worker[n].event <= durableSeq
        /\ saved[n] = worker[n].event
    BY <2>1 DEF ProjInv, WorkersSound, Handling
  <2>3. indexed[n] \in Nat /\ compactionSeq \in Nat
    BY <1>t DEF TypeOK
  <2>4. /\ indexed' = [indexed EXCEPT ![n] = worker[n].event]
        /\ worker' = Woken(Goto(n, "clearing"))
    BY <1>3, <2>2, <2>3 DEF AdvanceCheckpoint
  <2>5. /\ indexed'[n] = indexed[n] + 1
        /\ \A m \in Names \ {n} : indexed'[m] = indexed[m]
    BY <1>t, <2>2, <2>4 DEF TypeOK
  <2>6. /\ worker'[n].at = "clearing"
        /\ \A m \in Names \ {n} :
              /\ worker'[m].at # "absent" => worker[m].at # "absent"
              /\ worker'[m].at \in Handling =>
                    /\ worker'[m].at = worker[m].at
                    /\ worker'[m].event = worker[m].event
    <3> DEFINE G == Goto(n, "clearing")
    <3>1. /\ G \in [Names -> Worker] /\ G[n].at = "clearing"
          /\ \A m \in Names \ {n} : G[m] = worker[m]
      BY <1>g DEF Steps
    <3>2. worker' = Woken(G)
      BY <2>4
    <3> HIDE DEF G
    <3>3. \A m \in Names :
             /\ worker'[m].event = G[m].event
             /\ G[m].at # "waiting" => worker'[m].at = G[m].at
             /\ G[m].at = "waiting" => worker'[m].at = "fetch"
      BY <3>1, <3>2, WokenType
    <3>4. QED
      BY <3>1, <3>3 DEF Handling
  <2>7. WorkersSound'
    BY <2>1, <2>2, <2>3, <2>5, <2>6 DEF ProjInv, WorkersSound, Handling, Up, disk
  <2>8. CheckpointsSound'
    BY <2>1, <2>2, <2>3, <2>5 DEF ProjInv, CheckpointsSound, Up, disk
  <2>9. DownForgets' /\ LogSound' /\ FilesSound' /\ QueueSound'
    BY <2>1 DEF ProjInv, DownForgets, LogSound, FilesSound, QueueSound, Up, disk
  <2>10. QED
    BY <2>7, <2>8, <2>9 DEF ProjInv
<1>4. CASE Projects(n)
  <2>1. /\ worker[n].at = "projecting" /\ UNCHANGED <<disk, store>>
        /\ \E step \in {"saving", "failing", "stopping"} :
              worker' = Goto(n, step)
        /\ \/ projected' = projected /\ worker' # Goto(n, "saving")
           \/ projected' = [projected EXCEPT ![n] = @ \union {worker[n].event}]
    <3>1. Goto(n, "failing") # Goto(n, "saving") /\ Goto(n, "stopping") # Goto(n, "saving")
      BY <1>g DEF Steps
    <3>2. QED
      BY <1>4, <3>1 DEF Projects, ProjectSucceeds, ProjectFails
  <2>2. /\ Up /\ n \in known
        /\ worker[n].event = indexed[n] + 1 /\ worker[n].event <= durableSeq
    BY <2>1 DEF ProjInv, WorkersSound, Handling
  <2>3. /\ worker'[n].at \in {"saving", "failing", "stopping"}
        /\ worker'[n].event = worker[n].event
        /\ \A m \in Names \ {n} : worker'[m] = worker[m]
        /\ worker'[n].at = "saving" => worker' = Goto(n, "saving")
    BY <1>g, <2>1 DEF Steps
  <2>4. /\ \A m \in Names : projected[m] \subseteq projected'[m]
        /\ worker'[n].at = "saving" => worker[n].event \in projected'[n]
    BY <1>t, <2>1, <2>3 DEF TypeOK
  <2>5. WorkersSound'
    BY <2>1, <2>2, <2>3, <2>4
    DEF ProjInv, WorkersSound, Handling, Up, disk, store
  <2>6. FilesSound'
    BY <2>1, <2>4 DEF ProjInv, FilesSound, disk
  <2>7. DownForgets' /\ LogSound' /\ QueueSound' /\ CheckpointsSound'
    BY <2>1 DEF ProjInv, DownForgets, LogSound, QueueSound, CheckpointsSound,
                Up, disk, store
  <2>8. QED
    BY <2>5, <2>6, <2>7 DEF ProjInv
<1>5. CASE Saves(n)
  <2>1. /\ worker[n].at = "saving"
        /\ UNCHANGED <<logBase, durableSeq, manifestSeq, store, projected>>
        /\ \E step \in {"saved", "failing", "stopping"} :
              worker' = Goto(n, step)
        /\ \/ files' = files /\ saved' = saved /\ worker' # Goto(n, "saved")
           \/ /\ files' = files \union {n}
              /\ saved' = [saved EXCEPT ![n] = worker[n].event]
    <3>1. Goto(n, "failing") # Goto(n, "saved") /\ Goto(n, "stopping") # Goto(n, "saved")
      BY <1>g DEF Steps
    <3>2. QED
      BY <1>5, <3>1 DEF Saves, SaveCheckpoint, SaveFails
  <2>2. /\ Up /\ n \in known
        /\ worker[n].event = indexed[n] + 1 /\ worker[n].event <= durableSeq
        /\ worker[n].event \in projected[n]
    BY <2>1 DEF ProjInv, WorkersSound, Handling
  <2>3. /\ worker'[n].at \in {"saved", "failing", "stopping"}
        /\ worker'[n].event = worker[n].event
        /\ \A m \in Names \ {n} : worker'[m] = worker[m]
        /\ worker'[n].at = "saved" => worker' = Goto(n, "saved")
    BY <1>g, <2>1 DEF Steps
  <2>4. CASE files' = files /\ saved' = saved /\ worker' # Goto(n, "saved")
    <3>1. WorkersSound'
      BY <2>1, <2>2, <2>3, <2>4 DEF ProjInv, WorkersSound, Handling, Up, store
    <3>2. QED
      BY <2>1, <2>4, <3>1
      DEF ProjInv, DownForgets, LogSound, FilesSound, QueueSound,
          CheckpointsSound, Up, store
  <2>5. CASE /\ files' = files \union {n}
             /\ saved' = [saved EXCEPT ![n] = worker[n].event]
    <3>1. /\ saved'[n] = indexed[n] + 1
          /\ \A m \in Names \ {n} : saved'[m] = saved[m]
      BY <1>t, <2>2, <2>5 DEF TypeOK
    <3>2. /\ indexed[n] \in Nat /\ saved[n] \in Nat
          /\ saved[n] \in {indexed[n], indexed[n] + 1}
          /\ 1..saved[n] \subseteq projected[n]
      BY <1>t, <2>2 DEF TypeOK, ProjInv, CheckpointsSound, FilesSound, Up
    <3>3. 1..(indexed[n] + 1) \subseteq projected[n]
      BY <2>2, <3>2
    <3>4. FilesSound'
      BY <2>1, <2>2, <2>5, <3>1, <3>2, <3>3 DEF ProjInv, FilesSound, store
    <3>5. WorkersSound'
      BY <2>1, <2>2, <2>3, <3>1 DEF ProjInv, WorkersSound, Handling, Up, store
    <3>6. CheckpointsSound' /\ QueueSound'
      BY <2>1, <2>2, <2>5, <3>1, <3>2 DEF ProjInv, CheckpointsSound, QueueSound,
                                     Up, store
    <3>7. DownForgets' /\ LogSound'
      BY <2>1 DEF ProjInv, DownForgets, LogSound, Up, store
    <3>8. QED
      BY <3>4, <3>5, <3>6, <3>7 DEF ProjInv
  <2>6. QED
    BY <2>1, <2>4, <2>5
<1>6. QED
  BY <1>1, <1>2, <1>3, <1>4, <1>5 DEF WorkerRuns

-----------------------------------------------------------------------------
\* The invariant is inductive when no truncated log is without its manifest.
LEMMA InductiveStep ==
    ASSUME CompactAtomic
    PROVE  ProjInv /\ [Next]_vars => ProjInv'
<1> SUFFICES ASSUME ProjInv, [Next]_vars PROVE ProjInv'
  OBVIOUS
<1>1. TypeOK'
  <2>1. ASSUME NEW n \in Names, worker[n].at = "fetch", Pending(n) # {}
        PROVE  First(Pending(n)) \in Nat
    <3>1. indexed[n] \in Nat
      BY DEF ProjInv, TypeOK
    <3> QED
      BY <2>1, <3>1, NextIsSuccessor
  <2> QED
    BY <2>1, TypeStep DEF ProjInv
<1>2. CASE StoreNext
  BY <1>1, <1>2, StoreStep
<1>3. CASE \E n \in Names : WorkerRuns(n) \/ Projects(n) \/ Saves(n)
  BY <1>1, <1>3, WorkerStep
<1>4. CASE UNCHANGED vars
  BY <1>1, <1>4, WorkersOnly DEF vars
<1>5. QED
  BY <1>2, <1>3, <1>4 DEF Next

LEMMA InductiveInit == Init => ProjInv
BY DEF Init, ProjInv, TypeOK, DownForgets, LogSound, FilesSound, QueueSound,
       CheckpointsSound, WorkersSound, Handling, NoWorker, Worker, Steps, Up

\* The inductive invariant, as long as a Compact that truncates the log gets to
\* its manifest's rename, whether or not it fails after that: log, queue,
\* checkpoints, their files and the workers agree.
THEOREM ProjectorInvariant ==
    ASSUME CompactAtomic
    PROVE  Spec => []ProjInv
<1>1. ProjInv /\ [Next]_vars => ProjInv'
  BY InductiveStep
<1>2. QED
  BY <1>1, InductiveInit, PTL DEF Spec

\* A checkpoint, in memory or in its file, covers only events its projector
\* has been given, whatever fails and whenever the process dies, as long as a
\* Compact that truncates the log gets to its manifest's rename.
THEOREM CheckpointSafe ==
    ASSUME CompactAtomic
    PROVE  Spec => []CheckpointCovers
<1>1. ProjInv => CheckpointCovers
  <2> SUFFICES ASSUME ProjInv, NEW n \in Names
               PROVE  /\ n \in files => 1..saved[n] \subseteq projected[n]
                      /\ n \in known => 1..indexed[n] \subseteq projected[n]
    BY DEF CheckpointCovers
  <2>1. 1..saved[n] \subseteq projected[n]
    BY DEF ProjInv, FilesSound
  <2>2. n \in known => saved[n] \in {indexed[n], indexed[n] + 1}
    BY DEF ProjInv, DownForgets, CheckpointsSound
  <2>3. saved[n] \in Nat /\ indexed[n] \in Nat
    BY DEF ProjInv, TypeOK
  <2>4. n \in known => 1..indexed[n] \subseteq 1..saved[n]
    BY <2>2, <2>3
  <2>5. QED
    BY <2>1, <2>4
<1>2. ProjInv /\ [Next]_vars => ProjInv'
  BY InductiveStep
<1>3. QED
  BY <1>1, <1>2, InductiveInit, PTL DEF Spec

\* Under the same assumption the runtime, with its threads, queue, retries,
\* checkpoint files and restarts, implements the abstract feed.
THEOREM FeedImplemented ==
    ASSUME CompactAtomic
    PROVE  Spec => ImplementsFeed
<1>1. Init => Feed!Init
  BY DEF Init, Feed!Init
<1>2. ProjInv /\ [Next]_vars => [Feed!Next]_<<durableSeq, saved, projected>>
  <2> SUFFICES ASSUME ProjInv, [Next]_vars
               PROVE  [Feed!Next]_<<durableSeq, saved, projected>>
    OBVIOUS
  <2>t. TypeOK
    BY DEF ProjInv
  <2>1. CASE Apply
    BY <2>1 DEF Apply, Feed!Next, Feed!Produce
  <2>2. CASE StoreNext /\ ~Apply
    <3>1. UNCHANGED <<durableSeq, saved, projected>>
      BY <2>2 DEF StoreNext, Open, RegisterProjector, CloseStart, CloseFinish,
                  Crash, CompactStart, CompactTruncate, CompactFinish,
                  CompactFails, disk
    <3>2. QED
      BY <3>1
  <2>3. ASSUME NEW n \in Names, WorkerRuns(n)
        PROVE  UNCHANGED <<durableSeq, saved, projected>>
    BY <2>3 DEF WorkerRuns, NextEvent, AdvanceCheckpoint, ClearError, SetError,
                RetrySleep, MarkStopped, disk
  <2>4. ASSUME NEW n \in Names, Projects(n)
        PROVE  [Feed!Next]_<<durableSeq, saved, projected>>
    <3>1. /\ worker[n].at = "projecting" /\ UNCHANGED <<durableSeq, saved>>
          /\ \/ projected' = projected
             \/ projected' = [projected EXCEPT ![n] = @ \union {worker[n].event}]
      BY <2>4 DEF Projects, ProjectSucceeds, ProjectFails, disk
    <3>2. /\ worker[n].event = indexed[n] + 1 /\ worker[n].event <= durableSeq
          /\ saved[n] \in {indexed[n], indexed[n] + 1}
          /\ indexed[n] \in Nat
      BY <2>t, <3>1 DEF ProjInv, WorkersSound, Handling, CheckpointsSound, TypeOK
    <3>3. worker[n].event \in 1..(saved[n] + 1)
      BY <3>2
    <3>4. QED
      BY <3>1, <3>2, <3>3 DEF Feed!Next, Feed!Give
  <2>5. ASSUME NEW n \in Names, Saves(n)
        PROVE  [Feed!Next]_<<durableSeq, saved, projected>>
    <3>1. /\ worker[n].at = "saving" /\ UNCHANGED <<durableSeq, projected>>
          /\ \/ saved' = saved
             \/ saved' = [saved EXCEPT ![n] = worker[n].event]
      BY <2>5 DEF Saves, SaveCheckpoint, SaveFails
    <3>2. /\ worker[n].event = indexed[n] + 1
          /\ worker[n].event \in projected[n]
          /\ saved[n] \in {indexed[n], indexed[n] + 1}
          /\ indexed[n] \in Nat
          /\ saved \in [Names -> Nat]
      BY <2>t, <3>1 DEF ProjInv, WorkersSound, Handling, CheckpointsSound, TypeOK
    <3>3. CASE saved' = [saved EXCEPT ![n] = worker[n].event]
      <4>1. CASE saved[n] = indexed[n]
        BY <3>1, <3>2, <3>3, <4>1 DEF Feed!Next, Feed!Acknowledge
      <4>2. CASE saved[n] = indexed[n] + 1
        <5>1. saved' = saved
          BY <3>2, <3>3, <4>2
        <5>2. QED
          BY <3>1, <5>1
      <4>3. QED
        BY <3>2, <4>1, <4>2
    <3>4. QED
      BY <3>1, <3>3
  <2>6. CASE UNCHANGED vars
    BY <2>6 DEF vars, disk
  <2>7. QED
    BY <2>1, <2>2, <2>3, <2>4, <2>5, <2>6 DEF Next
<1>3. ProjInv /\ [Next]_vars => ProjInv'
  BY InductiveStep
<1>4. QED
  BY <1>1, <1>2, <1>3, InductiveInit, PTL
  DEF Spec, ImplementsFeed, Feed!Spec, Feed!feed

-----------------------------------------------------------------------------
(***************************************************************************)
(* What a ProjectionFeed promises, whoever implements it.                  *)
(***************************************************************************)
FeedInv ==
    /\ durableSeq \in Nat
    /\ saved = [n \in Names |-> saved[n]]
    /\ projected = [n \in Names |-> projected[n]]
    /\ Feed!Promise

LEMMA FeedStep ==
    ASSUME FeedInv, [Feed!Next]_<<durableSeq, saved, projected>>
    PROVE  FeedInv'
<1>0. /\ durableSeq \in Nat
      /\ saved = [n \in Names |-> saved[n]] /\ projected = [n \in Names |-> projected[n]]
      /\ \A n \in Names : /\ saved[n] \in 0..durableSeq
                          /\ projected[n] \in {1..saved[n], 1..(saved[n] + 1)}
                          /\ projected[n] \subseteq 1..durableSeq
  BY DEF FeedInv, Feed!Promise
<1>1. CASE Feed!Produce
  <2>1. durableSeq' = durableSeq + 1 /\ saved' = saved /\ projected' = projected
    BY <1>1 DEF Feed!Produce
  <2>2. \A n \in Names : saved[n] \in 0..(durableSeq + 1)
                         /\ projected[n] \subseteq 1..(durableSeq + 1)
    BY <1>0
  <2> QED
    BY <1>0, <2>1, <2>2 DEF FeedInv, Feed!Promise
<1>2. ASSUME NEW p \in Names, Feed!Give(p)
      PROVE  FeedInv'
  <2>1. PICK e \in 1..(saved[p] + 1) :
           /\ e <= durableSeq
           /\ projected' = [projected EXCEPT ![p] = @ \union {e}]
           /\ durableSeq' = durableSeq /\ saved' = saved
    BY <1>2 DEF Feed!Give
  <2>2. \A n \in Names : projected'[n] = IF n = p THEN projected[p] \union {e}
                                         ELSE projected[n]
    BY <1>0, <2>1
  <2>3. projected' = [n \in Names |-> projected'[n]]
    BY <1>0, <2>1
  <2>4. /\ projected[p] \union {e} \subseteq 1..durableSeq
        /\ projected[p] \union {e} \in {1..saved[p], 1..(saved[p] + 1)}
    <3>1. saved[p] \in Nat
      BY <1>0
    <3>2. e \in 1..durableSeq /\ e \in 1..(saved[p] + 1)
      BY <1>0, <2>1, <3>1
    <3>3. projected[p] \subseteq 1..durableSeq
      BY <1>0
    <3>4. CASE projected[p] = 1..(saved[p] + 1)
      BY <3>2, <3>3, <3>4
    <3>5. CASE projected[p] = 1..saved[p] /\ e \in 1..saved[p]
      BY <3>2, <3>3, <3>5
    <3>6. CASE projected[p] = 1..saved[p] /\ e = saved[p] + 1
      <4>1. 1..saved[p] \union {saved[p] + 1} = 1..(saved[p] + 1)
        BY <3>1
      <4> QED
        BY <3>2, <3>3, <3>6, <4>1
    <3>7. e \in 1..saved[p] \/ e = saved[p] + 1
      BY <3>1, <3>2
    <3> QED
      BY <1>0, <3>4, <3>5, <3>6, <3>7
  <2> QED
    BY <1>0, <2>1, <2>2, <2>3, <2>4 DEF FeedInv, Feed!Promise
<1>3. ASSUME NEW p \in Names, Feed!Acknowledge(p)
      PROVE  FeedInv'
  <2>1. /\ saved[p] + 1 \in projected[p]
        /\ saved' = [saved EXCEPT ![p] = @ + 1]
        /\ durableSeq' = durableSeq /\ projected' = projected
    BY <1>3 DEF Feed!Acknowledge
  <2>2. \A n \in Names : saved'[n] = IF n = p THEN saved[p] + 1 ELSE saved[n]
    BY <1>0, <2>1
  <2>3. saved' = [n \in Names |-> saved'[n]]
    BY <1>0, <2>1
  <2>4. /\ saved[p] + 1 \in 0..durableSeq
        /\ projected[p] = 1..(saved[p] + 1)
    <3>1. saved[p] \in Nat /\ saved[p] + 1 \notin 1..saved[p]
      BY <1>0
    <3> QED
      BY <1>0, <2>1, <3>1
  <2> QED
    BY <1>0, <2>1, <2>2, <2>3, <2>4 DEF FeedInv, Feed!Promise
<1>4. CASE UNCHANGED <<durableSeq, saved, projected>>
  BY <1>0, <1>4 DEF FeedInv, Feed!Promise
<1> QED
  BY <1>1, <1>2, <1>3, <1>4 DEF Feed!Next

LEMMA FeedInit == Feed!Init => FeedInv
<1> SUFFICES ASSUME Feed!Init PROVE FeedInv
  OBVIOUS
<1>1. /\ durableSeq = 0
      /\ saved = [n \in Names |-> 0]
      /\ projected = [n \in Names |-> {}]
  BY DEF Feed!Init
<1>2. 1..0 = {}
  OBVIOUS
<1> QED
  BY <1>1, <1>2 DEF FeedInv, Feed!Promise

\* Whatever is a ProjectionFeed gives each projector the first events of the
\* log, none left out, and marks only what it has given.
THEOREM FeedKeepsPromise ==
    Feed!Spec => []Feed!Promise
<1>1. FeedInv => Feed!Promise
  BY DEF FeedInv
<1> QED
  BY <1>1, FeedInit, FeedStep, PTL DEF Feed!Spec, Feed!feed

\* Under CompactAtomic so does the runtime.
THEOREM RuntimeKeepsPromise ==
    ASSUME CompactAtomic
    PROVE  Spec => []Feed!Promise
<1> QED
  BY FeedImplemented, FeedKeepsPromise, PTL DEF ImplementsFeed

-----------------------------------------------------------------------------
(***************************************************************************)
(* The error a worker reports.                                             *)
(***************************************************************************)
\* A worker with an error to report or reported has an event to go on with,
\* until a success is about to clear it.
Healthy(n) ==
    /\ worker[n].at = "waiting" =>
          ~worker[n].failed /\ (status = "open" => indexed[n] >= durableSeq)
    /\ worker[n].at = "failing" => indexed[n] < durableSeq
    /\ worker[n].failed =>
          /\ worker[n].at # "absent"
          /\ worker[n].at = "clearing" \/ indexed[n] < durableSeq

HealthInv == \A n \in Names : Healthy(n)

\* A worker that has nothing to fetch has everything.
LEMMA NothingPending ==
    ASSUME ProjInv, NEW n \in Names, worker[n].at # "absent", Pending(n) = {}
    PROVE  indexed[n] >= durableSeq
<1>1. /\ indexed[n] \in Nat /\ durableSeq \in Nat
      /\ compactionSeq \in Nat
  BY DEF ProjInv, TypeOK
<1>2. /\ (compactionSeq + 1)..durableSeq \subseteq events
      /\ compactionSeq <= indexed[n]
  BY DEF ProjInv, QueueSound, WorkersSound
<1>3. SUFFICES ASSUME ~(indexed[n] >= durableSeq) PROVE FALSE
  OBVIOUS
<1>4. indexed[n] + 1 \in events
  BY <1>1, <1>2, <1>3
<1>5. QED
  BY <1>1, <1>4 DEF Pending, EventsAfter

\* Other goroutines' steps leave a worker where it is, or wake it.
LEMMA HealthKept ==
    ASSUME NEW n \in Names, Healthy(n), worker \in [Names -> Worker],
           indexed'[n] = indexed[n], durableSeq' = durableSeq,
           status' = "open" => status = "open",
           \/ worker'[n] = worker[n]
           \/ worker'[n] = Woken(worker)[n]
    PROVE  Healthy(n)'
<1>1. \/ worker'[n] = worker[n]
      \/ worker[n].at = "waiting" /\ worker'[n] = [worker[n] EXCEPT !.at = "fetch"]
  BY DEF Woken
<1>2. CASE worker'[n] = worker[n]
  BY <1>2 DEF Healthy
<1>3. CASE worker[n].at = "waiting" /\ worker'[n] = [worker[n] EXCEPT !.at = "fetch"]
  <2>1. worker'[n].at = "fetch" /\ worker'[n].failed = worker[n].failed
    BY <1>3 DEF Worker
  <2>2. QED
    BY <1>3, <2>1 DEF Healthy
<1>4. QED
  BY <1>1, <1>2, <1>3

\* The steps of worker n itself.
LEMMA HealthRuns ==
    ASSUME ProjInv, NEW n \in Names, Healthy(n),
           WorkerRuns(n) \/ Projects(n) \/ Saves(n)
    PROVE  Healthy(n)'
<1>t. /\ worker \in [Names -> Worker] /\ indexed \in [Names -> Nat]
      /\ durableSeq \in Nat
  BY DEF ProjInv, TypeOK
<1>w. /\ worker[n].at # "absent" => Up /\ n \in known
      /\ worker[n].at \in Handling =>
            worker[n].event = indexed[n] + 1 /\ worker[n].event <= durableSeq
  BY DEF ProjInv, WorkersSound
<1>e. worker[n].at \in Handling => indexed[n] < durableSeq
  BY <1>t, <1>w
<1>1. CASE NextEvent(n)
  <2>1. /\ indexed' = indexed /\ durableSeq' = durableSeq /\ status' = status
        /\ worker[n].at = "fetch" /\ worker'[n].failed = worker[n].failed
        /\ worker'[n].at \in {"stopping", "waiting", "projecting"}
        /\ worker'[n].at = "waiting" => Pending(n) = {}
    BY <1>1, <1>t DEF NextEvent, disk, store, Goto, Worker
  <2>2. worker'[n].at = "waiting" => indexed[n] >= durableSeq
    BY <2>1, NothingPending
  <2>3. QED
    BY <1>t, <2>1, <2>2 DEF Healthy
<1>2. CASE AdvanceCheckpoint(n)
  <2>1. worker'[n].at = "clearing" /\ worker'[n].failed = worker[n].failed
    BY <1>2, <1>t DEF AdvanceCheckpoint, Goto, Woken, Worker
  <2>2. QED
    BY <2>1 DEF Healthy
<1>3. CASE ClearError(n)
  <2>1. worker'[n].at = "fetch" /\ worker'[n].failed = FALSE
    BY <1>3, <1>t DEF ClearError, Worker
  <2>2. QED
    BY <2>1 DEF Healthy
<1>4. CASE SetError(n) \/ RetrySleep(n)
  <2>1. /\ indexed' = indexed /\ durableSeq' = durableSeq
        /\ worker[n].at \in {"failing", "sleeping"}
        /\ worker'[n].at \in {"sleeping", "fetch", "stopping"}
        /\ worker[n].at = "sleeping" => worker'[n].failed = worker[n].failed
    BY <1>4, <1>t DEF SetError, RetrySleep, disk, store, Goto, Worker
  <2>2. QED
    BY <2>1 DEF Healthy
<1>5. CASE MarkStopped(n)
  <2>1. worker'[n] = NoWorker
    BY <1>5, <1>t DEF MarkStopped, Woken
  <2>2. QED
    BY <2>1 DEF Healthy, NoWorker
<1>6. CASE Projects(n) \/ Saves(n)
  <2>1. /\ indexed' = indexed /\ durableSeq' = durableSeq
        /\ worker[n].at \in Handling /\ worker'[n].failed = worker[n].failed
        /\ worker'[n].at \in {"saving", "saved", "failing", "stopping"}
    BY <1>6, <1>t DEF Projects, Saves, ProjectSucceeds, ProjectFails,
       SaveCheckpoint, SaveFails, disk, store, Goto, Worker, Handling
  <2>2. QED
    BY <1>e, <2>1 DEF Healthy
<1>7. QED
  BY <1>1, <1>2, <1>3, <1>4, <1>5, <1>6 DEF WorkerRuns

LEMMA HealthStep ==
    ASSUME ProjInv, HealthInv, [Next]_vars
    PROVE  HealthInv'
<1> SUFFICES ASSUME NEW n \in Names PROVE Healthy(n)'
  BY DEF HealthInv
<1>h. Healthy(n)
  BY DEF HealthInv
<1>t. /\ worker \in [Names -> Worker] /\ indexed \in [Names -> Nat]
      /\ durableSeq \in Nat
  BY DEF ProjInv, TypeOK
<1>1. CASE Open \/ CloseFinish
  <2>1. worker[n].at = "absent" /\ worker' = worker
    BY <1>1 DEF Open, CloseFinish, ProjInv, WorkersSound, Up
  <2>2. QED
    BY <1>h, <2>1 DEF Healthy
<1>2. CASE Crash
  BY <1>2 DEF Crash, NoWorker, Healthy
<1>3. CASE Apply
  <2>1. /\ durableSeq' = durableSeq + 1 /\ indexed' = indexed
        /\ \/ worker[n].at # "waiting" /\ worker'[n] = worker[n]
           \/ worker[n].at = "waiting" /\ worker'[n] = [worker[n] EXCEPT !.at = "fetch"]
    BY <1>3 DEF Apply, Woken
  <2>2. CASE worker[n].at # "waiting" /\ worker'[n] = worker[n]
    BY <1>h, <1>t, <2>1, <2>2 DEF Healthy
  <2>3. CASE worker[n].at = "waiting" /\ worker'[n] = [worker[n] EXCEPT !.at = "fetch"]
    <3>1. worker'[n].at = "fetch" /\ worker'[n].failed = worker[n].failed
      BY <1>t, <2>3 DEF Worker
    <3>2. QED
      BY <1>h, <2>3, <3>1 DEF Healthy
  <2>4. QED
    BY <2>1, <2>2, <2>3
<1>4. ASSUME NEW k \in Names, RegisterProjector(k)
      PROVE  Healthy(n)'
  <2>1. CASE k = n
    <3>1. worker'[n].at = "fetch" /\ worker'[n].failed = FALSE
      BY <1>4, <1>t, <2>1 DEF RegisterProjector, Woken, NoWorker
    <3>2. QED
      BY <3>1 DEF Healthy
  <2>2. CASE k # n
    <3>1. /\ indexed' = indexed /\ durableSeq' = durableSeq /\ status' = status
          /\ worker'[n] = Woken(worker)[n]
      BY <1>4, <1>t, <2>2 DEF RegisterProjector, disk, Woken
    <3>2. QED
      BY <1>h, <1>t, <3>1, HealthKept
  <2>3. QED
    BY <2>1, <2>2
<1>5. CASE \/ CloseStart \/ CompactStart \/ CompactTruncate \/ CompactFinish
           \/ CompactFails \/ UNCHANGED vars
  <2>1. /\ indexed' = indexed /\ durableSeq' = durableSeq
        /\ status' = "open" => status = "open"
        /\ worker'[n] = worker[n] \/ worker'[n] = Woken(worker)[n]
    BY <1>5 DEF CloseStart, CompactStart, CompactTruncate, CompactFinish,
                CompactFails, disk, store, vars
  <2>2. QED
    BY <1>h, <1>t, <2>1, HealthKept
<1>6. ASSUME NEW k \in Names, WorkerRuns(k) \/ Projects(k) \/ Saves(k)
      PROVE  Healthy(n)'
  <2>1. CASE k = n
    BY <1>h, <1>6, <2>1, HealthRuns
  <2>2. CASE k # n
    <3>1. /\ indexed'[n] = indexed[n] /\ durableSeq' = durableSeq /\ status' = status
          /\ worker'[n] = worker[n] \/ worker'[n] = Woken(worker)[n]
      BY <1>6, <1>t, <2>2 DEF WorkerRuns, NextEvent, AdvanceCheckpoint, ClearError,
         SetError, RetrySleep, MarkStopped, Projects, Saves, ProjectSucceeds,
         ProjectFails, SaveCheckpoint, SaveFails, disk, store, Goto, Woken
    <3>2. QED
      BY <1>h, <1>t, <3>1, HealthKept
  <2>3. QED
    BY <2>1, <2>2
<1>7. QED
  BY <1>1, <1>2, <1>3, <1>4, <1>5, <1>6 DEF Next, StoreNext

\* A worker that waits reports no error and, while the store is open, has
\* indexed every event, under the same assumption.
THEOREM HealthSafe ==
    ASSUME CompactAtomic
    PROVE  Spec => []CaughtUpIsHealthy
<1>1. Init => HealthInv
  BY DEF Init, HealthInv, Healthy, NoWorker
<1>2. HealthInv => CaughtUpIsHealthy
  BY DEF HealthInv, Healthy, CaughtUpIsHealthy
<1>3. ProjInv /\ [Next]_vars => ProjInv'
  BY InductiveStep
<1>4. ProjInv /\ HealthInv /\ [Next]_vars => HealthInv'
  BY HealthStep
<1>5. QED
  BY <1>1, <1>2, <1>3, <1>4, InductiveInit, PTL DEF Spec
-----------------------------------------------------------------------------
(***************************************************************************)
(* Whatever fails, Compact's manifest included.                            *)
(***************************************************************************)
\* nextEvent passes over no event that the log still holds.
LEMMA NextOfRun ==
    ASSUME TypeOK, QueueIsRun, Up, NEW n \in Names, Pending(n) # {}
    PROVE  /\ First(Pending(n)) \in Nat
           /\ logBase..(First(Pending(n)) - 1) \subseteq 1..indexed[n]
<1>1. logBase \in Nat \ {0} /\ durableSeq \in Nat /\ indexed[n] \in Nat
  BY DEF TypeOK
<1>2. PICK b \in 1..logBase : events = b..durableSeq
  BY DEF QueueIsRun
<1>3. Pending(n) = {e \in b..durableSeq : e > indexed[n]}
  BY <1>2 DEF Pending, EventsAfter
<1> DEFINE k == IF indexed[n] >= b THEN indexed[n] + 1 ELSE b
<1>4. k \in Pending(n) /\ k \in Nat
  BY <1>1, <1>2, <1>3
<1>5. Pending(n) \in SUBSET Nat /\ \A f \in Pending(n) : k <= f
  BY <1>1, <1>2, <1>3
<1>6. First(Pending(n)) = k
  BY <1>4, <1>5, FirstIsLeast
<1>7. logBase..(k - 1) \subseteq 1..indexed[n]
  BY <1>1, <1>2
<1> QED
  BY <1>4, <1>6, <1>7

\* The queue stays a run of numbers that reaches back to the log's first.
LEMMA QueueStep ==
    ASSUME RuntimeInv, [Next]_vars
    PROVE  QueueIsRun'
<1>t. TypeOK /\ QueueIsRun
  BY DEF RuntimeInv
<1>n. logBase \in Nat \ {0} /\ durableSeq \in Nat
  BY <1>t DEF TypeOK
<1>1. CASE Open
  <2>1. logBase \in 1..logBase
    BY <1>n
  <2> QED
    BY <1>1, <1>t, <2>1 DEF Open, QueueIsRun, disk
<1>2. CASE Apply
  <2>1. /\ Up /\ logBase' = logBase /\ durableSeq' = durableSeq + 1
        /\ compactStep' = "idle"
        /\ events' = events \union {durableSeq + 1}
    BY <1>2 DEF Apply, Unlocked, Up
  <2>2. PICK b \in 1..logBase : events = b..durableSeq
    BY <1>t, <2>1 DEF QueueIsRun
  <2>3. logBase <= durableSeq + 1
    BY <1>t DEF QueueIsRun
  <2>4. events' = b..durableSeq'
    BY <1>n, <2>1, <2>2, <2>3
  <2> QED
    BY <1>n, <2>1, <2>2, <2>3, <2>4 DEF QueueIsRun
<1>3. CASE CloseFinish \/ Crash
  BY <1>3, <1>t DEF CloseFinish, Crash, QueueIsRun, Up, disk
<1>4. CASE CompactTruncate
  <2>1. /\ logBase' = durableSeq + 1
        /\ UNCHANGED <<durableSeq, events, status>>
    BY <1>4 DEF CompactTruncate
  <2>2. logBase <= durableSeq + 1
    BY <1>t DEF QueueIsRun
  <2>3. 1..logBase \subseteq 1..logBase'
    BY <1>n, <2>1, <2>2
  <2> QED
    BY <1>n, <1>t, <2>1, <2>3 DEF QueueIsRun, Up
<1>5. CASE CompactFinish
  <2>1. UNCHANGED <<logBase, durableSeq, status>> /\ events' = EventsAfter(durableSeq)
    BY <1>5 DEF CompactFinish
  <2> SUFFICES ASSUME Up PROVE \E b \in 1..logBase : events' = b..durableSeq
    BY <1>5, <1>t, <2>1 DEF CompactFinish, QueueIsRun, Up
  <2>2. PICK b \in 1..logBase : events = b..durableSeq
    BY <1>t DEF QueueIsRun
  <2>3. events' = {}
    BY <1>n, <2>1, <2>2 DEF EventsAfter
  <2>4. logBase = durableSeq + 1
    BY <1>5, <1>t DEF CompactFinish, QueueIsRun
  <2> QED
    BY <1>n, <2>3, <2>4
<1>6. CASE \/ CloseStart \/ CompactStart \/ CompactFails
           \/ \E n \in Names : RegisterProjector(n)
  BY <1>6, <1>t DEF CloseStart, CompactStart, CompactFails, RegisterProjector,
                    QueueIsRun, Up, disk
<1>7. CASE \E n \in Names : WorkerRuns(n) \/ Projects(n) \/ Saves(n)
  BY <1>7, <1>t DEF WorkerRuns, Projects, Saves, NextEvent, AdvanceCheckpoint,
                    ClearError, SetError, RetrySleep, MarkStopped,
                    ProjectSucceeds, ProjectFails, SaveCheckpoint, SaveFails,
                    QueueIsRun, Up, disk, store
<1>8. CASE UNCHANGED vars
  BY <1>8, <1>t DEF QueueIsRun, Up, vars, disk, store
<1> QED
  BY <1>1, <1>2, <1>3, <1>4, <1>5, <1>6, <1>7, <1>8 DEF Next, StoreNext

\* The two covering clauses for one projector.
Covered(n) ==
    /\ logBase..saved[n] \subseteq projected[n]
    /\ logBase..indexed[n] \subseteq projected[n]
    /\ worker[n].at # "absent" => Up
    /\ worker[n].at = "projecting" =>
          logBase..(worker[n].event - 1) \subseteq projected[n]
    /\ worker[n].at \in {"saving", "saved"} =>
          logBase..worker[n].event \subseteq projected[n]

LEMMA CoveredAll ==
    (\A n \in Names : Covered(n)) <=> CheckpointsCoverLog /\ WorkersCoverLog
BY DEF Covered, CheckpointsCoverLog, WorkersCoverLog

\* The log only gives events up, and a projector never does.
LEMMA NothingUngiven ==
    ASSUME RuntimeInv, [Next]_vars
    PROVE  logBase <= logBase' /\ \A n \in Names : projected[n] \subseteq projected'[n]
<1>1. /\ logBase \in Nat /\ durableSeq \in Nat /\ logBase <= durableSeq + 1
      /\ projected = [n \in Names |-> projected[n]]
  BY DEF RuntimeInv, TypeOK, QueueIsRun
<1>2. CASE StoreNext
  BY <1>1, <1>2 DEF StoreNext, Open, Apply, RegisterProjector, CloseStart, CloseFinish,
                    Crash, CompactStart, CompactTruncate, CompactFinish,
                    CompactFails, disk
<1>3. CASE \E n \in Names : WorkerRuns(n)
  BY <1>1, <1>3 DEF WorkerRuns, NextEvent, AdvanceCheckpoint, ClearError,
                    SetError, RetrySleep, MarkStopped, disk
<1>4. CASE \E n \in Names : Projects(n) \/ Saves(n)
  BY <1>1, <1>4 DEF Projects, Saves, ProjectSucceeds, ProjectFails,
                    SaveCheckpoint, SaveFails, disk
<1>5. CASE UNCHANGED vars
  BY <1>1, <1>5 DEF vars, disk
<1> QED
  BY <1>2, <1>3, <1>4, <1>5 DEF Next

\* A projector whose worker is not taken any further stays covered.
LEMMA CoverKept ==
    ASSUME RuntimeInv, [Next]_vars, TypeOK', NEW n \in Names,
           saved'[n] = saved[n],
           indexed'[n] \in {0, indexed[n], saved[n]},
           worker'[n].at # "absent" => Up',
           worker'[n].at \in Handling =>
              worker'[n].at = worker[n].at /\ worker'[n].event = worker[n].event
    PROVE  Covered(n)'
<1>1. Covered(n)
  BY CoveredAll DEF RuntimeInv
<1>2. /\ logBase \in Nat \ {0} /\ logBase' \in Nat \ {0}
      /\ saved[n] \in Nat /\ indexed[n] \in Nat /\ worker[n].event \in Nat
  BY DEF RuntimeInv, TypeOK, Worker
<1>3. logBase <= logBase' /\ projected[n] \subseteq projected'[n]
  BY NothingUngiven
<1>4. ASSUME NEW k \in Int, logBase..k \subseteq projected[n]
      PROVE  logBase'..k \subseteq projected'[n]
  BY <1>2, <1>3, <1>4
<1>5. logBase'..0 = {}
  BY <1>2
<1>6. /\ logBase'..saved'[n] \subseteq projected'[n]
      /\ logBase'..indexed'[n] \subseteq projected'[n]
  BY <1>1, <1>2, <1>4, <1>5 DEF Covered
<1>7. worker'[n].at = "projecting" =>
         logBase'..(worker'[n].event - 1) \subseteq projected'[n]
  <2>1. worker[n].event - 1 \in Int
    BY <1>2
  <2> QED
    BY <1>1, <1>4, <2>1 DEF Covered, Handling
<1>8. worker'[n].at \in {"saving", "saved"} =>
         logBase'..worker'[n].event \subseteq projected'[n]
  BY <1>1, <1>2, <1>4 DEF Covered, Handling
<1> QED
  BY <1>6, <1>7, <1>8 DEF Covered

\* What the store does around the workers takes none of them further.
LEMMA CoverStore ==
    ASSUME RuntimeInv, TypeOK', StoreNext, NEW n \in Names
    PROVE  Covered(n)'
<1>t. TypeOK
  BY DEF RuntimeInv
<1>c. Covered(n)
  BY CoveredAll DEF RuntimeInv
<1>w. /\ Woken(worker)[n].event = worker[n].event
      /\ Woken(worker)[n].at # "absent" => worker[n].at # "absent"
      /\ Woken(worker)[n].at \in Handling => worker[n].at = Woken(worker)[n].at
  BY <1>t, WokenType DEF TypeOK, Handling
<1>n. [Next]_vars
  BY DEF Next
<1> DEFINE Kept ==
             /\ saved[n] = saved'[n]
             /\ indexed'[n] \in {0, indexed[n], saved[n]}
             /\ worker'[n].at # "absent" => Up'
             /\ worker'[n].at \in Handling =>
                   worker'[n].at = worker[n].at /\ worker'[n].event = worker[n].event
<1>k. Kept
  <2>1. CASE Open
    BY <2>1, <1>c, <1>t DEF Open, disk, Up, Covered, TypeOK
  <2>2. CASE Apply \/ CloseStart
    BY <2>2, <1>c, <1>w DEF Apply, CloseStart, disk, Up, Covered
  <2>3. ASSUME NEW m \in Names, RegisterProjector(m)
        PROVE  Kept
    <3>1. n = m => worker'[n].at = "fetch"
      BY <2>3, <1>t, WokenType DEF RegisterProjector, TypeOK, NoWorker
    <3>2. n # m => worker'[n] = Woken(worker)[n]
      BY <2>3, <1>t, WokenType DEF RegisterProjector, TypeOK
    <3> QED
      BY <2>3, <3>1, <3>2, <1>w DEF RegisterProjector, disk, Up, Handling
  <2>4. CASE CloseFinish \/ Crash
    BY <2>4 DEF CloseFinish, Crash, disk, Handling, NoWorker
  <2>5. CASE CompactStart \/ CompactTruncate \/ CompactFinish \/ CompactFails
    BY <2>5, <1>c DEF CompactStart, CompactTruncate, CompactFinish,
                      CompactFails, disk, Up, Covered
  <2> QED
    BY <2>1, <2>2, <2>3, <2>4, <2>5 DEF StoreNext
<1> QED
  BY <1>k, <1>n, CoverKept

\* A worker takes the next event there is, and saves no checkpoint before it
\* has been given.
LEMMA CoverWorker ==
    ASSUME RuntimeInv, TypeOK', NEW m \in Names, NEW n \in Names,
           WorkerRuns(m) \/ Projects(m) \/ Saves(m)
    PROVE  Covered(n)'
<1>t. TypeOK /\ TypeOK' /\ QueueIsRun
  BY DEF RuntimeInv
<1>i. /\ logBase \in Nat \ {0} /\ saved[n] \in Nat /\ indexed[n] \in Nat
      /\ worker[n].event \in Nat /\ worker[n] \in Worker
  BY <1>t DEF TypeOK, Worker
<1>c. Covered(n) /\ Covered(m)
  BY CoveredAll DEF RuntimeInv
<1>w. \A W \in [Names -> Worker] :
         /\ Woken(W)[n].event = W[n].event
         /\ Woken(W)[n].at # "absent" => W[n].at # "absent"
         /\ Woken(W)[n].at \in Handling => W[n].at = Woken(W)[n].at
  BY WokenType DEF Handling
<1>n. [Next]_vars
  BY DEF Next
<1>g. \A step \in Steps :
         /\ Goto(m, step) \in [Names -> Worker]
         /\ Goto(m, step)[n].event = worker[n].event
         /\ Goto(m, step)[n].at = IF n = m THEN step ELSE worker[n].at
  BY <1>t DEF Goto, TypeOK, Worker
<1>a. worker[m].at # "absent" => Up
  BY <1>c DEF Covered
<1>1. CASE NextEvent(m)
  <2>1. UNCHANGED <<disk, store, projected>> /\ Up /\ worker[m].at = "fetch"
    BY <1>1, <1>a DEF NextEvent
  <2>2. CASE \E step \in {"stopping", "waiting"} : worker' = Goto(m, step)
    BY <1>c, <1>g, <1>n, <2>1, <2>2, CoverKept
       DEF Steps, Handling, disk, store, Up, Covered
  <2>3. CASE /\ Pending(m) # {}
             /\ worker' = [worker EXCEPT ![m].at = "projecting",
                                         ![m].event = First(Pending(m))]
    <3>1. CASE n # m
      <4>1. worker'[n] = worker[n]
        BY <1>t, <2>3, <3>1 DEF TypeOK
      <4> QED
        BY <1>c, <1>n, <2>1, <4>1, CoverKept DEF disk, store, Up, Covered
    <3>2. CASE n = m
      <4>1. worker'[n].at = "projecting" /\ worker'[n].event = First(Pending(n))
        BY <1>t, <2>3, <3>2 DEF TypeOK
      <4>2. logBase..(First(Pending(n)) - 1) \subseteq 1..indexed[n]
        BY <1>t, <2>1, <2>3, <3>2, NextOfRun
      <4>3. logBase..(First(Pending(n)) - 1) \subseteq logBase..indexed[n]
        BY <1>i, <4>2
      <4>4. logBase..(worker'[n].event - 1) \subseteq projected[n]
        BY <1>c, <4>1, <4>3 DEF Covered
      <4> QED
        BY <1>c, <2>1, <4>1, <4>4 DEF Covered, disk, store, Up
    <3> QED
      BY <3>1, <3>2
  <2> QED
    BY <1>1, <2>2, <2>3 DEF NextEvent
<1>2. CASE AdvanceCheckpoint(m)
  <2>1. /\ UNCHANGED <<disk, status, projected>> /\ Up
        /\ worker[m].at = "saved" /\ indexed'[n] \in {indexed[n], worker[n].event}
        /\ n # m => indexed'[n] = indexed[n]
        /\ worker' \in {Goto(m, "clearing"), Woken(Goto(m, "clearing"))}
    BY <1>2, <1>a, <1>t DEF AdvanceCheckpoint, TypeOK
  <2>2. /\ worker'[n].at \in Handling =>
              worker'[n].at = worker[n].at /\ worker'[n].event = worker[n].event
        /\ n = m => worker'[n].at \notin Handling
    BY <1>g, <1>w, <2>1 DEF Steps, Handling
  <2>3. worker'[n].at # "absent" => Up'
    BY <2>1, <1>t DEF Up
  <2>4. CASE indexed'[n] = indexed[n]
    BY <1>n, <2>1, <2>2, <2>3, <2>4, CoverKept DEF disk
  <2>5. CASE n = m /\ indexed'[n] = worker[n].event
    <3>1. logBase'..indexed'[n] \subseteq projected'[n]
      BY <1>c, <2>1, <2>5 DEF Covered, disk
    <3>2. logBase'..saved'[n] \subseteq projected'[n]
      BY <1>c, <2>1 DEF Covered, disk
    <3> QED
      BY <2>2, <2>3, <2>5, <3>1, <3>2 DEF Covered, Handling
  <2> QED
    BY <2>1, <2>4, <2>5
<1>3. CASE ClearError(m) \/ SetError(m) \/ RetrySleep(m) \/ MarkStopped(m)
  <2>1. /\ UNCHANGED <<disk, store, projected>> /\ Up
        /\ worker[m].at \in {"clearing", "failing", "sleeping", "stopping"}
    BY <1>3, <1>a DEF ClearError, SetError, RetrySleep, MarkStopped
  <2>2. /\ worker'[n].event = worker[n].event \/ n = m
        /\ n # m /\ worker'[n].at \in Handling => worker'[n].at = worker[n].at
        /\ n = m => worker'[n].at \notin Handling
    <3>1. CASE ClearError(m)
      BY <1>t, <3>1 DEF ClearError, TypeOK, Worker, Handling
    <3>2. CASE SetError(m)
      BY <1>t, <3>2 DEF SetError, TypeOK, Worker, Handling
    <3>3. CASE RetrySleep(m)
      BY <1>g, <3>3 DEF RetrySleep, Steps, Handling
    <3>4. CASE MarkStopped(m)
      <4>1. worker' = [Woken(worker) EXCEPT ![m] = NoWorker]
            /\ Woken(worker) \in [Names -> Worker]
        BY <1>t, <3>4, WokenType DEF MarkStopped, TypeOK
      <4>2. worker'[n] = IF n = m THEN NoWorker ELSE Woken(worker)[n]
        BY <4>1
      <4> QED
        BY <1>t, <1>w, <4>2 DEF TypeOK, NoWorker, Handling
    <3> QED
      BY <1>3, <3>1, <3>2, <3>3, <3>4
  <2> QED
    BY <1>c, <1>n, <2>1, <2>2, CoverKept DEF disk, store, Up, Covered
<1>4. CASE Projects(m)
  <2>1. /\ UNCHANGED <<disk, store>> /\ Up /\ worker[m].at = "projecting"
        /\ \E step \in {"saving", "failing", "stopping"} : worker' = Goto(m, step)
    BY <1>4, <1>a DEF Projects, ProjectSucceeds, ProjectFails
  <2>2. CASE worker'[n].at # "saving" \/ n # m
    BY <1>c, <1>g, <1>n, <2>1, <2>2, CoverKept
       DEF Steps, Handling, disk, store, Up, Covered
  <2>3. CASE worker'[n].at = "saving" /\ n = m
    <3>1. projected'[n] = projected[n] \union {worker[n].event}
      BY <1>4, <1>g, <1>t, <2>3
         DEF Projects, ProjectSucceeds, ProjectFails, Steps, TypeOK
    <3>2. worker'[n].event = worker[n].event
      BY <1>g, <2>1 DEF Steps
    <3>3. logBase..(worker[n].event - 1) \subseteq projected[n]
      BY <1>c, <2>1, <2>3 DEF Covered
    <3>4. logBase..worker[n].event \subseteq
             (logBase..(worker[n].event - 1)) \union {worker[n].event}
      BY <1>i
    <3>5. logBase'..worker'[n].event \subseteq projected'[n]
      BY <2>1, <3>1, <3>2, <3>3, <3>4 DEF disk
    <3> QED
      BY <1>c, <2>1, <2>3, <3>1, <3>5 DEF Covered, disk, store, Up
  <2> QED
    BY <2>2, <2>3
<1>5. CASE Saves(m)
  <2>1. /\ UNCHANGED <<logBase, store, projected>> /\ Up /\ worker[m].at = "saving"
        /\ saved'[n] = saved[n] \/ (n = m /\ saved'[n] = worker[n].event)
        /\ \E step \in {"saved", "failing", "stopping"} : worker' = Goto(m, step)
    BY <1>5, <1>a, <1>t DEF Saves, SaveCheckpoint, SaveFails, TypeOK
  <2>2. CASE n # m
    BY <1>c, <1>g, <1>n, <2>1, <2>2, CoverKept
       DEF Steps, Handling, store, Up, Covered
  <2>3. CASE n = m
    <3>1. /\ worker'[n].at \in {"saved", "failing", "stopping"}
          /\ worker'[n].event = worker[n].event
      BY <1>g, <2>1, <2>3 DEF Steps
    <3> QED
      BY <1>c, <2>1, <2>3, <3>1 DEF Covered, store, Up
  <2> QED
    BY <2>2, <2>3
<1> QED
  BY <1>1, <1>2, <1>3, <1>4, <1>5 DEF WorkerRuns

\* Once the store closes nobody holds Store.mu, and no worker goes to sleep
\* on projectorCond: every step of one leads to its end.
LEMMA ClosingStep ==
    ASSUME RuntimeInv, TypeOK', [Next]_vars
    PROVE  ClosingSound' /\ CloseStep
<1>t. TypeOK /\ ClosingSound
  BY DEF RuntimeInv
<1>a. \A n \in Names : worker[n].at # "absent" => status # "down"
  BY DEF RuntimeInv, WorkersCoverLog, Up
<1>w. \A W \in [Names -> Worker] : \A n \in Names :
         /\ Woken(W)[n].at # "waiting"
         /\ W[n].at # "waiting" => Woken(W)[n].at = W[n].at
  BY WokenType
<1>1. CASE StoreNext
  <2>1. CASE Open \/ Apply \/ CloseFinish \/ Crash \/ CompactStart
    BY <2>1, <1>t DEF Open, Apply, CloseFinish, Crash, CompactStart,
                      ClosingSound, CloseStep
  <2>2. CASE \E n \in Names : RegisterProjector(n)
    BY <2>2, <1>t DEF RegisterProjector, ClosingSound, CloseStep
  <2>3. CASE CloseStart
    <3>1. worker \in [Names -> Worker]
      BY <1>t DEF TypeOK
    <3> QED
      BY <2>3, <1>w, <3>1 DEF CloseStart, Unlocked, ClosingSound, CloseStep
  <2>4. CASE CompactTruncate \/ CompactFinish \/ CompactFails
    BY <2>4, <1>t DEF CompactTruncate, CompactFinish, CompactFails,
                      ClosingSound, CloseStep
  <2> QED
    BY <1>1, <2>1, <2>2, <2>3, <2>4 DEF StoreNext
<1>2. ASSUME NEW m \in Names, WorkerRuns(m) \/ Projects(m) \/ Saves(m)
      PROVE  ClosingSound' /\ CloseStep
  <2>1. UNCHANGED <<status, compactStep>> /\ worker[m].at # "absent"
    BY <1>2 DEF WorkerRuns, Projects, Saves, NextEvent, AdvanceCheckpoint,
                ClearError, SetError, RetrySleep, MarkStopped, ProjectSucceeds,
                ProjectFails, SaveCheckpoint, SaveFails, store
  <2> SUFFICES ASSUME status = "closing" PROVE ClosingSound' /\ CloseStep
    BY <1>a, <1>t, <2>1 DEF ClosingSound, CloseStep
  <2>2. \A n \in Names : worker[n].at # "waiting"
    BY <1>t DEF ClosingSound
  <2>g. \A step \in Steps :
           /\ Goto(m, step) \in [Names -> Worker]
           /\ \A n \in Names :
                 Goto(m, step)[n].at = IF n = m THEN step ELSE worker[n].at
    BY <1>t DEF Goto, TypeOK, Worker
  <2> DEFINE Down == /\ \A n \in Names \ {m} : worker'[n].at = worker[n].at
                     /\ worker'[m].at \in Steps \ {"waiting"}
                     /\ Rank(worker'[m].at) < Rank(worker[m].at)
  <2>3. Down
    <3>1. CASE NextEvent(m)
      BY <2>g, <3>1 DEF NextEvent, Steps, Rank
    <3>2. CASE AdvanceCheckpoint(m)
      <4>1. \A n \in Names : Goto(m, "clearing")[n].at # "waiting"
        BY <2>2, <2>g DEF Steps
      <4>2. Goto(m, "clearing") \in [Names -> Worker]
        BY <2>g DEF Steps
      <4>3. \A n \in Names : Woken(Goto(m, "clearing"))[n].at = Goto(m, "clearing")[n].at
        BY <1>w, <4>1, <4>2
      <4>4. \A n \in Names : worker'[n].at = Goto(m, "clearing")[n].at
        BY <3>2, <4>3 DEF AdvanceCheckpoint
      <4> QED
        BY <2>g, <3>2, <4>4 DEF AdvanceCheckpoint, Steps, Rank
    <3>3. CASE ClearError(m) \/ SetError(m)
      <4>1. /\ \A n \in Names \ {m} : worker'[n] = worker[n]
            /\ \/ worker[m].at = "clearing" /\ worker'[m].at = "fetch"
               \/ worker[m].at = "failing" /\ worker'[m].at = "sleeping"
        BY <1>t, <3>3 DEF ClearError, SetError, TypeOK, Worker
      <4> QED
        BY <4>1 DEF Steps, Rank
    <3>4. CASE RetrySleep(m)
      BY <2>g, <3>4 DEF RetrySleep, Steps, Rank
    <3>5. CASE MarkStopped(m)
      <4>1. worker' = [Woken(worker) EXCEPT ![m] = NoWorker]
            /\ Woken(worker) \in [Names -> Worker]
        BY <1>t, <3>5, WokenType DEF MarkStopped, TypeOK
      <4>2. \A n \in Names : Woken(worker)[n].at = worker[n].at
        BY <1>t, <1>w, <2>2 DEF TypeOK
      <4>3. worker'[m].at = "absent" /\ worker[m].at = "stopping"
        BY <3>5, <4>1 DEF MarkStopped, NoWorker
      <4>4. \A n \in Names \ {m} : worker'[n].at = worker[n].at
        BY <4>1, <4>2
      <4> QED
        BY <4>3, <4>4 DEF Steps, Rank
    <3>6. CASE Projects(m)
      BY <2>g, <3>6 DEF Projects, ProjectSucceeds, ProjectFails, Steps, Rank
    <3>7. CASE Saves(m)
      BY <2>g, <3>7 DEF Saves, SaveCheckpoint, SaveFails, Steps, Rank
    <3> QED
      BY <1>2, <3>1, <3>2, <3>3, <3>4, <3>5, <3>6, <3>7 DEF WorkerRuns
  <2>4. ClosingSound'
    BY <1>t, <2>1, <2>2, <2>3 DEF ClosingSound
  <2>5. \A n \in Names : Rank(worker[n].at) \in Nat
    BY <1>t DEF TypeOK, Worker, Steps, Rank
  <2>6. \A n \in Names : Rank(worker'[n].at) <= Rank(worker[n].at)
    <3> TAKE n \in Names
    <3>1. CASE n = m
      <4>1. Rank(worker'[m].at) \in Nat
        BY <2>3 DEF Steps, Rank
      <4> QED
        BY <2>3, <2>5, <3>1, <4>1
    <3>2. CASE n # m
      BY <2>3, <2>5, <3>2
    <3> QED
      BY <3>1, <3>2
  <2> QED
    BY <2>3, <2>4, <2>6 DEF CloseStep
<1>3. CASE UNCHANGED vars
  <2>1. UNCHANGED <<status, compactStep, worker>>
    BY <1>3 DEF vars, store
  <2>2. \A n \in Names : Rank(worker[n].at) \in Nat
    BY <1>t DEF TypeOK, Worker, Steps, Rank
  <2> QED
    BY <1>t, <2>1, <2>2 DEF ClosingSound, CloseStep
<1> QED
  BY <1>1, <1>2, <1>3 DEF Next

\* What one projector brings to Compact's gate.
Gated(n) ==
    /\ Up => indexed[n] <= saved[n]
    /\ worker[n].at # "absent" => n \in known
    /\ worker[n].at \in Handling => indexed[n] <= worker[n].event
    /\ worker[n].at = "saved" => saved[n] = worker[n].event

\* A projector whose worker is not taken any further brings the same.
LEMMA GateKept ==
    ASSUME NEW n \in Names, Gated(n), saved'[n] = saved[n],
           Up' => Up, Up' => indexed'[n] = indexed[n],
           worker'[n].at # "absent" =>
              Up' /\ worker[n].at # "absent" /\ (n \in known => n \in known'),
           worker'[n].at \in Handling =>
              worker'[n].at = worker[n].at /\ worker'[n].event = worker[n].event
    PROVE  Gated(n)'
BY DEF Gated, Handling

\* The store's steps, Compact's among them.
LEMMA GateStore ==
    ASSUME RuntimeInv, StoreNext
    PROVE  GateSound'
<1>t. /\ TypeOK /\ GateSound /\ ClosingSound
      /\ \A n \in Names : worker[n].at # "absent" => Up
  BY DEF RuntimeInv, WorkersCoverLog
<1>n. \A n \in Names : saved[n] \in Nat /\ indexed[n] \in Nat /\ durableSeq \in Nat
  BY <1>t DEF TypeOK
<1>g. \A n \in Names : Gated(n)
  BY <1>t DEF GateSound, Gated
<1>w. \A n \in Names :
         /\ Woken(worker)[n].event = worker[n].event
         /\ Woken(worker)[n].at # "absent" => worker[n].at # "absent"
         /\ Woken(worker)[n].at \in Handling => worker[n].at = Woken(worker)[n].at
  BY <1>t, WokenType DEF TypeOK, Handling
<1>1. CASE Open
  <2>1. compactStep = "idle" /\ \A n \in Names : worker[n].at = "absent"
    BY <1>1, <1>t DEF Open, ClosingSound, Up
  <2>2. QED
    BY <1>1, <1>n, <2>1 DEF Open, GateSound, Handling, Up, disk
<1>2. CASE Apply \/ CloseStart
  <2>1. /\ compactStep' = "idle" /\ Up /\ Up'
        /\ UNCHANGED <<files, known, saved, indexed>>
        /\ worker' = Woken(worker)
    BY <1>2 DEF Apply, CloseStart, Unlocked, Up, disk
  <2>2. \A n \in Names : Gated(n)'
    BY <1>g, <1>w, <2>1, GateKept
  <2>3. QED
    BY <1>t, <2>1, <2>2 DEF GateSound, Gated
<1>3. ASSUME NEW m \in Names, RegisterProjector(m)
      PROVE  GateSound'
  <2>1. /\ compactStep' = "idle" /\ Up /\ Up'
        /\ UNCHANGED <<files, saved, indexed>>
        /\ known' = known \union {m}
    BY <1>3 DEF RegisterProjector, Unlocked, Up, disk
  <2>2. /\ worker'[m].at = "fetch"
        /\ \A n \in Names \ {m} : worker'[n] = Woken(worker)[n]
    BY <1>3, <1>t, WokenType DEF RegisterProjector, TypeOK, NoWorker
  <2>3. Gated(m)'
    BY <1>g, <2>1, <2>2 DEF Gated, Handling
  <2>4. \A n \in Names \ {m} : Gated(n)'
    BY <1>g, <1>w, <2>1, <2>2, GateKept
  <2>5. QED
    BY <1>t, <2>1, <2>3, <2>4 DEF GateSound, Gated
<1>4. CASE CloseFinish
  BY <1>4, <1>t DEF CloseFinish, GateSound, ClosingSound, Handling, Up
<1>5. CASE Crash
  BY <1>5 DEF Crash, GateSound, NoWorker, Handling, Up
<1>6. CASE CompactStart
  BY <1>6, <1>t DEF CompactStart, GateSound, Up, disk
<1>7. CASE CompactTruncate \/ CompactFinish \/ CompactFails
  BY <1>7, <1>t DEF CompactTruncate, CompactFinish, CompactFails, GateSound, Up
<1>8. QED
  BY <1>1, <1>2, <1>3, <1>4, <1>5, <1>6, <1>7 DEF StoreNext

\* The steps of a worker: it saves before it advances, and only it does so.
LEMMA GateWorker ==
    ASSUME RuntimeInv, NEW m \in Names, WorkerRuns(m) \/ Projects(m) \/ Saves(m)
    PROVE  GateSound'
<1>t. /\ TypeOK /\ GateSound
      /\ \A n \in Names : worker[n].at # "absent" => Up
  BY DEF RuntimeInv, WorkersCoverLog
<1>n. /\ \A n \in Names : /\ saved[n] \in Nat /\ indexed[n] \in Nat
                         /\ worker[n] \in Worker /\ worker[n].event \in Nat
      /\ durableSeq \in Nat /\ events \in SUBSET Nat
      /\ saved \in [Names -> Nat] /\ indexed \in [Names -> Nat]
  BY <1>t DEF TypeOK, Worker
<1>g. \A n \in Names : Gated(n)
  BY <1>t DEF GateSound, Gated
<1>w. \A W \in [Names -> Worker] : \A n \in Names :
         /\ Woken(W)[n].event = W[n].event
         /\ Woken(W)[n].at # "absent" => W[n].at # "absent"
         /\ Woken(W)[n].at \in Handling => W[n].at = Woken(W)[n].at
  BY WokenType DEF Handling
<1>o. \A step \in Steps :
         /\ Goto(m, step) \in [Names -> Worker]
         /\ \A n \in Names :
               /\ Goto(m, step)[n].event = worker[n].event
               /\ Goto(m, step)[n].at = IF n = m THEN step ELSE worker[n].at
  BY <1>t DEF Goto, TypeOK, Worker
<1>s. /\ UNCHANGED <<status, known, compactStep, durableSeq>>
      /\ worker[m].at # "absent" /\ Up
  BY <1>t DEF WorkerRuns, Projects, Saves, NextEvent, AdvanceCheckpoint,
              ClearError, SetError, RetrySleep, MarkStopped, ProjectSucceeds,
              ProjectFails, SaveCheckpoint, SaveFails, disk, store
<1>1. CASE NextEvent(m)
  <2>1. UNCHANGED <<files, saved, indexed>> /\ worker[m].at = "fetch"
    BY <1>1 DEF NextEvent, disk, store
  <2>2. \A n \in Names \ {m} : worker'[n] = worker[n]
    BY <1>1, <1>t DEF NextEvent, Goto, TypeOK
  <2>3. CASE worker' \in {Goto(m, "stopping"), Goto(m, "waiting")}
    <3>1. worker'[m].at \in {"stopping", "waiting"}
      BY <1>o, <2>3 DEF Steps
    <3>2. \A n \in Names : Gated(n)'
      BY <1>g, <1>s, <2>1, <2>2, <3>1, GateKept DEF Handling, Up
    <3>3. QED
      BY <1>t, <1>s, <2>1, <3>2 DEF GateSound, Gated, Up
  <2>4. CASE /\ Pending(m) # {}
             /\ worker' = [worker EXCEPT ![m].at = "projecting",
                                         ![m].event = First(Pending(m))]
    <3>1. First(Pending(m)) \in Nat /\ First(Pending(m)) > indexed[m]
      <4>1. Pending(m) = {e \in events : e > indexed[m]}
        BY DEF Pending, EventsAfter
      <4>2. First(Pending(m)) \in Pending(m)
        <5>1. RuntimeInv /\ Up
          BY <1>s
        <5>2. PICK b \in 1..logBase : events = b..durableSeq
          BY <5>1 DEF RuntimeInv, QueueIsRun
        <5>3. logBase \in Nat /\ b \in Nat
          BY <1>t DEF TypeOK
        <5> DEFINE k == IF indexed[m] >= b THEN indexed[m] + 1 ELSE b
        <5>4. k \in Pending(m) /\ \A f \in Pending(m) : k <= f
          BY <1>n, <2>4, <4>1, <5>2, <5>3
        <5>5. Pending(m) \in SUBSET Nat
          BY <1>n, <4>1
        <5> HIDE DEF k
        <5>6. QED
          BY <5>4, <5>5, FirstIsLeast
      <4>3. QED
        BY <1>n, <4>1, <4>2
    <3>2. worker'[m].at = "projecting" /\ worker'[m].event = First(Pending(m))
      BY <1>t, <2>4 DEF TypeOK, Worker
    <3>3. Gated(m)'
      BY <1>g, <1>n, <1>s, <2>1, <3>1, <3>2 DEF Gated, Handling, Up
    <3>4. \A n \in Names \ {m} : Gated(n)'
      BY <1>g, <1>s, <2>1, <2>2 DEF Gated, Up
    <3>5. QED
      BY <1>t, <1>s, <2>1, <3>3, <3>4 DEF GateSound, Gated, Up
  <2>5. QED
    BY <1>1, <2>3, <2>4 DEF NextEvent
<1>2. CASE ClearError(m) \/ SetError(m) \/ RetrySleep(m) \/ MarkStopped(m)
  <2>1. UNCHANGED <<files, saved, indexed>>
    BY <1>2 DEF ClearError, SetError, RetrySleep, MarkStopped, disk, store
  <2>2. \A n \in Names :
           /\ worker'[n].at # "absent" => worker[n].at # "absent"
           /\ worker'[n].at \in Handling =>
                 worker'[n].at = worker[n].at /\ worker'[n].event = worker[n].event
    <3>1. CASE ClearError(m) \/ SetError(m)
      BY <1>s, <1>t, <3>1 DEF ClearError, SetError, TypeOK, Worker, Handling
    <3>2. CASE RetrySleep(m)
      BY <1>o, <1>s, <3>2 DEF RetrySleep, Steps, Handling
    <3>3. CASE MarkStopped(m)
      <4>1. worker' = [Woken(worker) EXCEPT ![m] = NoWorker]
            /\ Woken(worker) \in [Names -> Worker]
        BY <1>t, <3>3, WokenType DEF MarkStopped, TypeOK
      <4>2. \A n \in Names : worker'[n] = IF n = m THEN NoWorker ELSE Woken(worker)[n]
        BY <4>1
      <4>3. QED
        BY <1>t, <1>w, <4>2 DEF TypeOK, NoWorker, Handling
    <3>4. QED
      BY <1>2, <3>1, <3>2, <3>3
  <2>3. \A n \in Names : Gated(n)'
    BY <1>g, <1>s, <2>1, <2>2, GateKept DEF Up
  <2>4. QED
    BY <1>t, <1>s, <2>1, <2>3 DEF GateSound, Gated, Up
<1>3. CASE AdvanceCheckpoint(m)
  <2>1. /\ UNCHANGED <<files, saved>> /\ worker[m].at = "saved"
        /\ compactStep = "idle"
        /\ indexed'[m] \in {indexed[m], worker[m].event}
        /\ \A n \in Names \ {m} : indexed'[n] = indexed[n]
        /\ worker' \in {Goto(m, "clearing"), Woken(Goto(m, "clearing"))}
    BY <1>3, <1>n DEF AdvanceCheckpoint, Unlocked, disk
  <2> DEFINE G == Goto(m, "clearing")
  <2>2. /\ G \in [Names -> Worker]
        /\ \A n \in Names : /\ G[n].event = worker[n].event
                           /\ G[n].at = IF n = m THEN "clearing" ELSE worker[n].at
    BY <1>o DEF Steps
  <2>3. worker' \in {G, Woken(G)}
    BY <2>1
  <2> HIDE DEF G
  <2>4. /\ worker'[m].at \notin Handling
        /\ \A n \in Names :
              /\ worker'[n].at # "absent" => worker[n].at # "absent"
              /\ worker'[n].at \in Handling =>
                    worker'[n].at = worker[n].at /\ worker'[n].event = worker[n].event
    <3>1. G[m].at = "clearing"
      BY <2>2
    <3>2. Woken(G)[m].at \notin Handling
      BY <1>w, <2>2, <3>1 DEF Handling
    <3>3. ASSUME NEW n \in Names
          PROVE  /\ Woken(G)[n].event = worker[n].event
                 /\ Woken(G)[n].at # "absent" => worker[n].at # "absent"
                 /\ Woken(G)[n].at \in Handling => Woken(G)[n].at = worker[n].at
      BY <1>s, <1>w, <2>2, <3>2
    <3>4. QED
      BY <1>s, <2>2, <2>3, <3>1, <3>2, <3>3 DEF Handling
  <2>5. Gated(m)'
    <3>1. saved[m] = worker[m].event /\ indexed[m] <= saved[m]
      BY <1>g, <1>s, <2>1 DEF Gated
    <3>2. indexed'[m] <= saved'[m]
      BY <1>n, <2>1, <3>1
    <3>3. QED
      BY <1>g, <1>s, <2>4, <3>2 DEF Gated, Handling
  <2>6. \A n \in Names \ {m} : Gated(n)'
    BY <1>g, <1>s, <2>1, <2>4, GateKept DEF Up
  <2>7. QED
    BY <1>t, <1>s, <2>1, <2>5, <2>6 DEF GateSound, Gated, Up
<1>4. CASE Projects(m) \/ Saves(m)
  <2>1. /\ worker[m].at \in Handling
        /\ \E step \in Steps \ {"absent"} :
              /\ worker' = Goto(m, step)
              /\ step = "saved" => saved'[m] = worker[m].event
        /\ \/ files' = files /\ saved' = saved
           \/ files' = files \union {m} /\ saved' = [saved EXCEPT ![m] = worker[m].event]
        /\ indexed' = indexed
    BY <1>4, <1>n DEF Projects, Saves, ProjectSucceeds, ProjectFails, SaveCheckpoint,
                      SaveFails, Handling, Steps, disk, store
  <2>2. /\ worker'[m].event = worker[m].event
        /\ worker'[m].at = "saved" => saved'[m] = worker[m].event
        /\ \A n \in Names \ {m} : worker'[n].at = worker[n].at
                                 /\ worker'[n].event = worker[n].event
    BY <1>o, <2>1
  <2>3. /\ m \in known /\ indexed[m] <= worker[m].event /\ indexed[m] <= saved[m]
        /\ saved'[m] \in {saved[m], worker[m].event}
        /\ \A n \in Names \ {m} : saved'[n] = saved[n]
    BY <1>g, <1>n, <1>s, <2>1 DEF Gated
  <2>4. Gated(m)'
    BY <1>s, <2>1, <2>2, <2>3 DEF Gated, Up
  <2>5. \A n \in Names \ {m} : Gated(n)'
    BY <1>g, <1>s, <2>1, <2>2, <2>3 DEF Gated, Up
  <2>6. QED
    BY <1>t, <1>s, <2>1, <2>3, <2>4, <2>5 DEF GateSound, Gated, Up
<1>5. QED
  BY <1>1, <1>2, <1>3, <1>4 DEF WorkerRuns

LEMMA RuntimeInit == Init => RuntimeInv
BY DEF Init, RuntimeInv, TypeOK, QueueIsRun, GateSound, CheckpointsCoverLog,
       WorkersCoverLog, ClosingSound, Handling, Up, NoWorker, Worker, Steps

LEMMA RuntimeStep == RuntimeInv /\ [Next]_vars => RuntimeInv' /\ CloseStep
<1> SUFFICES ASSUME RuntimeInv, [Next]_vars PROVE RuntimeInv' /\ CloseStep
  OBVIOUS
<1>1. TypeOK'
  BY NextOfRun, TypeStep DEF RuntimeInv
<1>2. \A n \in Names : Covered(n)'
  <2> TAKE n \in Names
  <2>1. CASE StoreNext
    BY <1>1, <2>1, CoverStore
  <2>2. CASE \E m \in Names : WorkerRuns(m) \/ Projects(m) \/ Saves(m)
    BY <1>1, <2>2, CoverWorker
  <2>3. CASE UNCHANGED vars
    <3>1. Covered(n)
      BY CoveredAll DEF RuntimeInv
    <3> QED
      BY <2>3, <3>1 DEF Covered, vars, disk, store, Up
  <2> QED
    BY <2>1, <2>2, <2>3 DEF Next
<1>3. CheckpointsCoverLog' /\ WorkersCoverLog'
  BY <1>2 DEF Covered, CheckpointsCoverLog, WorkersCoverLog
<1>4. GateSound'
  <2>1. CASE UNCHANGED vars
    BY <2>1 DEF RuntimeInv, GateSound, vars, disk, store, Up
  <2> QED
    BY <2>1, GateStore, GateWorker DEF Next
<1> QED
  BY <1>1, <1>3, <1>4, QueueStep, ClosingStep DEF RuntimeInv

\* The invariant of the runtime whatever fails and whenever the process dies,
\* between Compact's truncation and its manifest too.
THEOREM RuntimeInvariant == Spec => []RuntimeInv
<1> QED
  BY RuntimeInit, RuntimeStep, PTL DEF Spec

\* No failure at all makes a projector's checkpoint pass over an event that the
\* log still holds (nextEvent, advanceProjectorCheckpoint): what a crash inside
\* Compact can make a checkpoint claim falsely is gone from the log.
THEOREM LogCoverSafe == Spec => []CheckpointsCoverLog
<1>1. RuntimeInv => CheckpointsCoverLog
  BY DEF RuntimeInv
<1> QED
  BY <1>1, RuntimeInvariant, PTL

\* Compact's gate holds for every checkpoint file there is when the log is
\* truncated (compaction.go: ensureProjectorsReadyForCompactionLocked), whatever
\* has failed before, what a worker is saving at the time included.
THEOREM CompactionSafe == Spec => CompactionWaits
<1> DEFINE Waits == logBase' # logBase => \A n \in files : logBase' <= saved[n] + 1
<1>1. RuntimeInv /\ [Next]_vars => Waits
  <2> SUFFICES ASSUME RuntimeInv, [Next]_vars, logBase' # logBase, NEW n \in files
               PROVE  logBase' <= saved[n] + 1
    OBVIOUS
  <2>1. CompactTruncate
    BY DEF Next, StoreNext, Open, Apply, RegisterProjector, CloseStart,
           CloseFinish, Crash, CompactStart, CompactFinish, CompactFails,
           WorkerRuns, Projects, Saves, NextEvent, AdvanceCheckpoint, ClearError,
           SetError, RetrySleep, MarkStopped, ProjectSucceeds, ProjectFails,
           SaveCheckpoint, SaveFails, vars, disk
  <2>2. logBase' = durableSeq + 1 /\ compactStep = "started"
    BY <2>1 DEF CompactTruncate
  <2>3. /\ n \in Names /\ saved[n] \in Nat /\ indexed[n] \in Nat
        /\ durableSeq \in Nat
    BY DEF RuntimeInv, TypeOK
  <2>4. indexed[n] >= durableSeq /\ indexed[n] <= saved[n]
    BY <2>2, <2>3 DEF RuntimeInv, GateSound, Up
  <2>5. QED
    BY <2>2, <2>3, <2>4
<1> QED
  BY <1>1, RuntimeInvariant, PTL DEF Spec, CompactionWaits

\* What Close's return rests on, besides fairness: while it waits, no worker is
\* set back and every step of one is a step towards its end, so that at most
\* six steps of each are left (Close, nextEvent, sleepProjectorRetry).
THEOREM CloseProgress == Spec => CloseAdvances
<1>1. RuntimeInv /\ [Next]_vars => [CloseStep]_vars
  BY RuntimeStep
<1> QED
  BY <1>1, RuntimeInvariant, PTL DEF Spec, CloseAdvances

-----------------------------------------------------------------------------
(***************************************************************************)
(* Tail.                                                                   *)
(***************************************************************************)
\* Of a run of numbers, Tail gives each one or limit greater ones.
LEMMA TailOfRun ==
    ASSUME NEW b \in Nat, NEW d \in Nat, events = b..d,
           NEW min \in Nat, NEW limit \in Nat, NEW s \in min..d, b <= s
    PROVE  \/ s \in Tail(min, limit)
           \/ /\ limit > 0
              /\ Cardinality({f \in Tail(min, limit) : f > s}) = limit
<1> DEFINE a == IF b >= min THEN b ELSE min
           since == {e \in events : e >= min}
<1>1. a \in Nat /\ since = a..d /\ s \in a..d
  OBVIOUS
<1>2. CASE limit = 0
  BY <1>1, <1>2 DEF Tail
<1>3. CASE limit > 0
  <2>1. ASSUME NEW e \in a..d
        PROVE  Cardinality({f \in since : f > e}) = d - e
    <3>1. {f \in since : f > e} = (e + 1)..d
      BY <1>1
    <3>2. e + 1 \in Int /\ d \in Int /\ e <= d /\ e \in Int
      BY <1>1
    <3> HIDE DEF since
    <3>3. Cardinality((e + 1)..d) = IF e + 1 > d THEN 0 ELSE d - (e + 1) + 1
      BY <3>2, FS_Interval
    <3>4. (IF e + 1 > d THEN 0 ELSE d - (e + 1) + 1) = d - e
      BY <3>2
    <3> QED
      BY <3>1, <3>3, <3>4
  <2>2. Tail(min, limit) = {e \in since : Cardinality({f \in since : f > e}) < limit}
    BY <1>3 DEF Tail
  <2> HIDE DEF since
  <2>3. Tail(min, limit) = {e \in a..d : d - e < limit}
    BY <1>1, <2>1, <2>2
  <2>4. CASE d - s < limit
    BY <1>1, <2>3, <2>4
  <2>5. CASE d - s >= limit
    <3>1. {f \in Tail(min, limit) : f > s} = (d - limit + 1)..d
      BY <1>1, <1>3, <2>3, <2>5
    <3>2. d - limit + 1 \in Int /\ d \in Int /\ d - limit + 1 <= d
      BY <1>3
    <3>3. Cardinality((d - limit + 1)..d) = limit
      BY <3>2, FS_Interval
    <3> QED
      BY <1>3, <3>1, <3>3
  <2> QED
    BY <1>1, <2>4, <2>5
<1> QED
  BY <1>2, <1>3

\* A reader that polls Tail misses nothing but what is compacted or displaced
\* by limit newer entries, across restarts and compactions, as long as a
\* Compact that truncates the log gets to its manifest's rename.
THEOREM TailSafe ==
    ASSUME CompactAtomic
    PROVE  Spec => []TailMissesNothing
<1>1. RuntimeInv /\ ProjInv => TailMissesNothing
  <2> SUFFICES ASSUME RuntimeInv, ProjInv, Up,
                      NEW min \in 1..(MaxSeq + 1), NEW limit \in 0..MaxSeq,
                      NEW s \in min..durableSeq
               PROVE  \/ s \in Tail(min, limit)
                      \/ s <= compactionSeq
                      \/ limit > 0 /\
                         Cardinality({f \in Tail(min, limit) : f > s}) = limit
    BY DEF TailMissesNothing, Up
  <2>1. /\ durableSeq \in Nat /\ compactionSeq \in Nat /\ logBase \in Nat
        /\ min \in Nat /\ limit \in Nat /\ s \in Nat /\ s <= durableSeq
    BY MaxSeqAssumption DEF RuntimeInv, TypeOK
  <2>2. PICK b \in 1..logBase : events = b..durableSeq
    BY DEF RuntimeInv, QueueIsRun
  <2>3. (compactionSeq + 1)..durableSeq \subseteq events
    BY DEF ProjInv, QueueSound
  <2>4. CASE b <= s
    BY <2>1, <2>2, <2>4, TailOfRun
  <2>5. CASE s < b
    BY <2>1, <2>2, <2>3, <2>5
  <2> QED
    BY <2>1, <2>2, <2>4, <2>5
<1> QED
  BY <1>1, RuntimeInvariant, ProjectorInvariant, PTL
=============================================================================
