---------------------------- MODULE ProjectorInv ----------------------------
(***************************************************************************)
(* The inductive invariants of ProjectorRuntime.  ProjInv is behind        *)
(* CheckpointCovers and ImplementsFeed, when a Compact that truncates the  *)
(* log also installs its manifest.  RuntimeInv is what holds wherever a    *)
(* step fails and the process dies.                                        *)
(***************************************************************************)
EXTENDS ProjectorRuntime

Up == status # "down"

\* The manifest says where the log starts, except inside Compact.
LogSound ==
    /\ manifestSeq <= durableSeq
    /\ IF compactStep = "truncated" THEN logBase = durableSeq + 1
                                    ELSE logBase = manifestSeq + 1
    /\ compactStep # "idle" =>
          status = "open" /\ \A n \in known : indexed[n] = durableSeq

\* A file holds a mark the log reaches on both sides, over given events.
FilesSound ==
    \A n \in Names :
        /\ n \notin files => saved[n] = 0
        /\ saved[n] <= durableSeq
        /\ 1..saved[n] \subseteq projected[n]

\* The queue holds what a projector the gate admits may still need, of which a
\* manifest the store in memory does not know of takes nothing away.
QueueSound ==
    Up => /\ compactionSeq <= manifestSeq
          /\ (compactionSeq + 1)..durableSeq \subseteq events
          /\ events \subseteq 1..durableSeq
          /\ files \subseteq known

\* A checkpoint in memory is its file's or one event behind it.
CheckpointsSound ==
    Up => \A n \in Names :
             /\ n \notin known => indexed[n] = 0 /\ saved[n] = 0
             /\ saved[n] \in {indexed[n], indexed[n] + 1}

\* A worker handles the one event after its checkpoint, which is not behind the
\* compaction the gate knew of.
Handling == {"projecting", "saving", "saved"}
WorkersSound ==
    \A n \in Names :
        /\ worker[n].at # "absent" =>
              Up /\ n \in known /\ compactionSeq <= indexed[n]
        /\ worker[n].at \in Handling =>
              worker[n].event = indexed[n] + 1 /\ worker[n].event <= durableSeq
        /\ worker[n].at = "saving" => worker[n].event \in projected[n]
        /\ worker[n].at = "saved" => saved[n] = worker[n].event

\* Nothing is known of a projector while no Store is open.
DownForgets == ~Up => known = {} /\ compactStep = "idle"

ProjInv ==
    /\ TypeOK
    /\ DownForgets
    /\ LogSound
    /\ FilesSound
    /\ QueueSound
    /\ CheckpointsSound
    /\ WorkersSound

-----------------------------------------------------------------------------
\* The queue is what the log ends with, and perhaps events before that which
\* the log has dropped.
QueueIsRun ==
    /\ logBase <= durableSeq + 1
    /\ compactStep = "truncated" => logBase = durableSeq + 1
    /\ Up => \E b \in 1..logBase : events = b..durableSeq

\* What a checkpoint claims and the log can still tell has been given: no event
\* is passed over while it could be read.
CheckpointsCoverLog ==
    \A n \in Names : logBase..saved[n] \subseteq projected[n] /\
                     logBase..indexed[n] \subseteq projected[n]

WorkersCoverLog ==
    \A n \in Names :
        /\ worker[n].at # "absent" => Up
        /\ worker[n].at = "projecting" =>
              logBase..(worker[n].event - 1) \subseteq projected[n]
        /\ worker[n].at \in {"saving", "saved"} =>
              logBase..worker[n].event \subseteq projected[n]

\* Close finds every worker on its way, and nobody keeps Store.mu.
ClosingSound ==
    /\ status = "down" => compactStep = "idle"
    /\ status = "closing" =>
          compactStep = "idle" /\ \A n \in Names : worker[n].at # "waiting"

\* Compact's gate sees every projector that has a file, at a mark that the file
\* is not behind, and keeps Store.mu until the log is truncated.
GateSound ==
    /\ Up => files \subseteq known
    /\ \A n \in Names :
          /\ Up => indexed[n] <= saved[n]
          /\ worker[n].at # "absent" => n \in known
          /\ worker[n].at \in Handling => indexed[n] <= worker[n].event
          /\ worker[n].at = "saved" => saved[n] = worker[n].event
    /\ compactStep # "idle" =>
          status = "open" /\ \A n \in known : indexed[n] >= durableSeq

RuntimeInv ==
    /\ TypeOK
    /\ QueueIsRun
    /\ GateSound
    /\ CheckpointsCoverLog
    /\ WorkersCoverLog
    /\ ClosingSound

\* How many steps a worker is from its end once the store closes, at most.
Rank(step) ==
    CASE step = "absent" -> 0
      [] step = "stopping" -> 1
      [] step = "fetch" -> 2
      [] step \in {"waiting", "clearing", "sleeping"} -> 3
      [] step \in {"saved", "failing"} -> 4
      [] step = "saving" -> 5
      [] step = "projecting" -> 6

\* While Close waits, no worker is set back, and whatever moves a worker
\* brings one nearer to its end.
CloseStep ==
    status = "closing" /\ status' = "closing" =>
        /\ \A n \in Names : Rank(worker'[n].at) <= Rank(worker[n].at)
        /\ worker' = worker \/ \E n \in Names :
              Rank(worker'[n].at) < Rank(worker[n].at)
CloseAdvances == [][CloseStep]_vars
=============================================================================
