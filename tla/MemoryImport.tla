---------------------------- MODULE MemoryImport ----------------------------
(***************************************************************************)
(* ImportMemoryRecords: rows of a SugarFang export become records, nodes,  *)
(* edges, chunks, source spans and vectors.  Every thing is created by a   *)
(* Read, and a keyed Write when it is not there: two separate calls of the *)
(* store.  The served process runs one import per request, side by side,   *)
(* over one store and one vector index; an import that fails is posted     *)
(* again by its client.                                                    *)
(*                                                                         *)
(* A thing is named by what its id is derived from, and the store is the   *)
(* set of things created, with their sequence numbers and tombstones.  An  *)
(* empty string stands for an absent field, as in the code.                *)
(***************************************************************************)
EXTENDS Integers, Sequences

CONSTANTS
    Clients,        \* each posts one file, and may post it again
    Postings,       \* which file, a sequence of rows, each one posts
    Deletable,      \* what other programs may delete between two servings
    MaxFaults       \* bound on errors and crashes

Row == [id : STRING, session : STRING, mission : STRING, persona : STRING,
        supersedes : STRING, text : BOOLEAN, embedding : BOOLEAN, valid : BOOLEAN]

ASSUME PostingsAssumption == Postings \subseteq [Clients -> Seq(Row) \ {<<>>}]
ASSUME BoundAssumption == MaxFaults \in Nat

VARIABLES
    \* The store and the vector index.
    born,           \* the things that were created
    dead,           \* those with a tombstone
    durableSeq,
    nodeSeq,        \* record id -> CreatedSeq of its memory node
    vectors,        \* record id -> SourceSeq of the .kvec file of its node
    entries,        \* record id -> SourceSeq of that node's entry in memory
    indexedSeq,     \* FileVectorIndex.indexedSeq
    \* One call of ImportMemoryRecords per client.
    file,
    status,
    at,             \* the place of the two loops it has come to
    phase,          \* what it does there next
    seq,            \* Status().DurableSeq as read for a vector
    made,           \* the rows whose record it counts as created
    before,         \* observation only: the memories there when it began
    faults

store == <<born, dead, durableSeq, nodeSeq, vectors, entries, indexedSeq>>
calls == <<file, status, at, phase, seq, made, before>>
vars == <<store, calls, faults>>

-----------------------------------------------------------------------------
(***************************************************************************)
(* What the loops do for a row.                                            *)
(***************************************************************************)
Record(id) == <<"record", id>>
Chunk(id) == <<"chunk", id>>
Span(id) == <<"span", id>>
Vector(id) == <<"vector", id>>
Memory(id) == <<"node:memory", id>>
Session(id) == <<"node:session", id>>
Mission(id) == <<"node:mission", id>>
Persona(id) == <<"node:persona", id>>

\* The store creates a thing only while what it needs is there and not deleted.
Thing(thing, needs) == [thing |-> thing, needs |-> needs]

Given(field) == field # ""

\* Whether a row calls for the thing of a slot.
Wants(row, slot) ==
    /\ slot = 3 => row.embedding
    /\ slot \in {4, 9, 10} => Given(row.session)
    /\ slot \in {5, 9, 11} => Given(row.mission)
    /\ slot \in {6, 12} => Given(row.persona)
    /\ slot \in {7, 8} => row.text
    /\ slot = 10 => ~Given(row.mission)
    /\ slot = 13 => Given(row.supersedes)

\* Mutant: the hierarchy node comes before the record it is linked to.
EntityNodeFirst(row, slot) ==
    CASE slot = 1 -> Thing(Memory(row.id), {})
      [] slot = 2 -> Thing(Record(row.id), {})
      [] slot = 3 -> Thing(Vector(row.id), {})
      [] slot = 4 -> Thing(Session(row.session), {})
      [] slot = 5 -> Thing(Mission(row.mission), {})
      [] slot = 6 -> Thing(Persona(row.persona), {})
      [] slot = 7 -> Thing(Chunk(row.id), {})
      [] slot = 8 -> Thing(Span(row.id), {Record(row.id), Chunk(row.id)})

\* The first loop, slot by slot.
Entity(row, slot) ==
    CASE slot = 1 -> Thing(Record(row.id), {})
      [] slot = 2 -> Thing(Memory(row.id), {})
      [] slot = 3 -> Thing(Vector(row.id), {})
      [] slot = 4 -> Thing(Session(row.session), {})
      [] slot = 5 -> Thing(Mission(row.mission), {})
      [] slot = 6 -> Thing(Persona(row.persona), {})
      [] slot = 7 -> Thing(Chunk(row.id), {})
      [] slot = 8 -> Thing(Span(row.id), {Record(row.id), Chunk(row.id)})

Edge(type, from, to) == Thing(<<type, from, to>>, {from, to})

\* The second loop, importEdges.
Relation(row, slot) ==
    LET S == Session(row.session)
        M == Mission(row.mission)
        N == Memory(row.id)
    IN CASE slot = 9  -> Edge("contains", S, M)
         [] slot = 10 -> Edge("contains", S, N)
         [] slot = 11 -> Edge("contains", M, N)
         [] slot = 12 -> Edge("authored_by", Persona(row.persona), N)
         [] slot = 13 -> Edge("supersedes", N, Memory(row.supersedes))

\* A place of the import: a row, and a slot of the first loop or the second.
Slots == 1..13
VectorSlot == 3
LastEntity == 8
SupersedesSlot == 13
Places(f) == [row : 1..Len(f), slot : Slots]
First == [row |-> 1, slot |-> 1]

Step(f, p) ==
    IF p.slot <= LastEntity THEN Entity(f[p.row], p.slot) ELSE Relation(f[p.row], p.slot)

Wanted(f) == {p \in Places(f) : Wants(f[p.row], p.slot)}

\* The first loop runs over all rows before the second one starts.
IsLast(f, p) == p = [row |-> Len(f), slot |-> SupersedesSlot]

\* Mutant: one loop over the rows instead of two.
AfterOneLoop(f, p) ==
    IF p.slot < SupersedesSlot THEN [p EXCEPT !.slot = @ + 1]
    ELSE [row |-> p.row + 1, slot |-> 1]

After(f, p) ==
    IF p.slot \notin {LastEntity, SupersedesSlot} THEN [p EXCEPT !.slot = @ + 1]
    ELSE IF p.slot = LastEntity
         THEN IF p.row < Len(f) THEN [row |-> p.row + 1, slot |-> 1]
              ELSE [row |-> 1, slot |-> LastEntity + 1]
         ELSE [row |-> p.row + 1, slot |-> LastEntity + 1]

Phases == {"target", "read", "write"}
AtRest == {"idle", "returned", "failed", "rejected"}

TypeOK ==
    /\ dead \subseteq born
    /\ durableSeq \in Nat
    /\ \A id \in DOMAIN nodeSeq : nodeSeq[id] \in 1..durableSeq
    /\ \A id \in DOMAIN vectors : vectors[id] \in 0..durableSeq
    /\ DOMAIN entries \subseteq DOMAIN vectors
    /\ \A id \in DOMAIN entries : entries[id] \in 0..durableSeq
    /\ indexedSeq \in 0..durableSeq
    /\ file \in Postings
    /\ status \in [Clients -> AtRest \union {"running"}]
    /\ at \in [Clients -> [row : Nat \ {0}, slot : Slots]]
    /\ \A c \in Clients : at[c] \in Places(file[c])
    /\ phase \in [Clients -> Phases]
    /\ seq \in [Clients -> 0..durableSeq]
    /\ made \in [Clients -> SUBSET (Nat \ {0})]
    /\ \A c \in Clients : made[c] \subseteq 1..Len(file[c])
    /\ before \in [Clients -> SUBSET DOMAIN nodeSeq]
    /\ faults \in 0..MaxFaults

Here(c) == Step(file[c], at[c])
There(t) == t \in born
Live(t) == There(t) /\ t \notin dead
RowOf(c) == file[c][at[c].row]
WantedHere(c) == at[c] \in Wanted(file[c])
Running(c, ph) == status[c] = "running" /\ phase[c] = ph /\ WantedHere(c)
IsVector(c) == at[c].slot = VectorSlot

Init ==
    /\ born = {}
    /\ dead = {}
    /\ durableSeq = 0
    /\ nodeSeq = <<>>
    /\ vectors = <<>>
    /\ entries = <<>>
    /\ indexedSeq = 0
    /\ file \in Postings
    /\ status = [c \in Clients |-> "idle"]
    /\ at = [c \in Clients |-> First]
    /\ phase = [c \in Clients |-> "read"]
    /\ seq = [c \in Clients |-> 0]
    /\ made = [c \in Clients |-> {}]
    /\ before = [c \in Clients |-> {}]
    /\ faults = 0

\* A function with one more argument, or another value for it.
With(g, x, v) == [y \in DOMAIN g \union {x} |-> IF y = x THEN v ELSE g[y]]

Larger(m, n) == IF m > n THEN m ELSE n

-----------------------------------------------------------------------------
(***************************************************************************)
(* The loops.                                                              *)
(***************************************************************************)
\* normalizeMemoryRecord accepts every row, and there is an index for those
\* with an embedding.
Accepted(f) == \A n \in 1..Len(f) : f[n].valid

\* ImportMemoryRecords gets past its checks of the rows.
Call(c) ==
    /\ status[c] # "running"
    /\ Accepted(file[c])
    /\ status' = [status EXCEPT ![c] = "running"]
    /\ at' = [at EXCEPT ![c] = First]
    /\ phase' = [phase EXCEPT ![c] = "read"]
    /\ made' = [made EXCEPT ![c] = {}]
    /\ before' = [before EXCEPT ![c] = DOMAIN nodeSeq]
    /\ UNCHANGED <<store, file, seq, faults>>

\* The thing here is done with: on to the next place, or out of the second
\* loop.
MoveOn(c) ==
    /\ IF IsLast(file[c], at[c])
       THEN /\ status' = [status EXCEPT ![c] = "returned"]
            /\ UNCHANGED <<at, phase>>
       ELSE LET q == After(file[c], at[c])
            IN /\ at' = [at EXCEPT ![c] = q]
               /\ phase' = [phase EXCEPT ![c] =
                               IF q.slot = SupersedesSlot THEN "target" ELSE "read"]
               /\ UNCHANGED status
    /\ UNCHANGED <<file, before, faults>>

\* The row has no such field.
Skip(c) ==
    /\ status[c] = "running"
    /\ ~WantedHere(c)
    /\ MoveOn(c)
    /\ UNCHANGED <<store, seq, made>>

\* importEdges looks for the superseded memory; without it there is no edge.
ReadTarget(c) ==
    /\ Running(c, "target")
    /\ \/ /\ There(Memory(RowOf(c).supersedes))
          /\ phase' = [phase EXCEPT ![c] = "read"]
          /\ UNCHANGED <<file, status, at, before, faults>>
       \/ /\ ~There(Memory(RowOf(c).supersedes))
          /\ MoveOn(c)
    /\ UNCHANGED <<store, seq, made>>

\* Mutant: nothing is read, the key alone keeps the thing unique.
ReadThingNever(c) ==
    /\ Running(c, "read")
    /\ ~IsVector(c)
    /\ phase' = [phase EXCEPT ![c] = "write"]
    /\ UNCHANGED <<store, file, status, at, seq, made, before, faults>>

\* Mutant: a row whose record is there counts as imported.
ReadThingSkipsRow(c) ==
    /\ Running(c, "read")
    /\ ~IsVector(c)
    /\ \/ /\ There(Here(c).thing)
          /\ IF at[c].slot = 1
             THEN /\ at' = [at EXCEPT ![c].slot = LastEntity]
                  /\ UNCHANGED <<file, status, phase, before, faults>>
             ELSE MoveOn(c)
       \/ /\ ~There(Here(c).thing)
          /\ phase' = [phase EXCEPT ![c] = "write"]
          /\ UNCHANGED <<file, status, at, before, faults>>
    /\ UNCHANGED <<store, seq, made>>

\* The Read of importRecord, ensureNode, ensureSourceSpan and ensureEdge; a
\* deleted thing is found too.
ReadThing(c) ==
    /\ Running(c, "read")
    /\ ~IsVector(c)
    /\ \/ /\ There(Here(c).thing)
          /\ MoveOn(c)
       \/ /\ ~There(Here(c).thing)
          /\ phase' = [phase EXCEPT ![c] = "write"]
          /\ UNCHANGED <<file, status, at, before, faults>>
    /\ UNCHANGED <<store, seq, made>>

\* result.Records; the other counters go the same way and are left out.
Counted(c) ==
    made' = IF at[c].slot = 1 THEN [made EXCEPT ![c] = @ \union {at[c].row}] ELSE made

\* What the store holds once it has created the thing.
Created(c) ==
    /\ born' = born \union {Here(c).thing}
    /\ durableSeq' = durableSeq + 1
    /\ nodeSeq' = IF Here(c).thing = Memory(RowOf(c).id)
                  THEN With(nodeSeq, RowOf(c).id, durableSeq') ELSE nodeSeq

WriteCreates(c) ==
    /\ Running(c, "write")
    /\ ~IsVector(c)
    /\ ~There(Here(c).thing)
    /\ \A t \in Here(c).needs : Live(t)
    /\ Created(c)
    /\ Counted(c)
    /\ MoveOn(c)
    /\ UNCHANGED <<dead, vectors, entries, indexedSeq, seq>>

\* Mutant: the Write carries no key, and preflight finds the thing.
WriteConflicts(c) ==
    /\ Running(c, "write")
    /\ ~IsVector(c)
    /\ There(Here(c).thing)
    /\ status' = [status EXCEPT ![c] = "rejected"]
    /\ UNCHANGED <<store, file, at, phase, seq, made, before, faults>>

\* Another import has created it since the Read: its key is known, and Apply
\* answers with that import's result, which this one takes for its own.
WriteAnswered(c) ==
    /\ Running(c, "write")
    /\ ~IsVector(c)
    /\ There(Here(c).thing)
    /\ Counted(c)
    /\ MoveOn(c)
    /\ UNCHANGED <<store, seq>>

\* preflightLocked finds an endpoint, or a span's record, missing or deleted.
WriteRejected(c) ==
    /\ Running(c, "write")
    /\ ~IsVector(c)
    /\ ~There(Here(c).thing)
    /\ \E t \in Here(c).needs : ~Live(t)
    /\ status' = [status EXCEPT ![c] = "rejected"]
    /\ UNCHANGED <<store, file, at, phase, seq, made, before, faults>>

\* importEmbeddingVector reads the watermark, then upserts; whether the row was
\* skipped, and whether its node is deleted, makes no difference.
ReadSeq(c) ==
    /\ Running(c, "read")
    /\ IsVector(c)
    /\ seq' = [seq EXCEPT ![c] = durableSeq]
    /\ phase' = [phase EXCEPT ![c] = "write"]
    /\ UNCHANGED <<store, file, status, at, made, before, faults>>

\* writeEntry has renamed the file of the vector; the index in memory is not
\* yet touched.
Installed(c) ==
    /\ vectors' = With(vectors, RowOf(c).id, seq[c])
    /\ UNCHANGED <<born, dead, durableSeq, nodeSeq>>

\* Mutant: the index follows the last upsert, not the highest.
UpsertedLast(c) ==
    /\ Installed(c)
    /\ entries' = With(entries, RowOf(c).id, seq[c])
    /\ indexedSeq' = seq[c]

\* ApplyVectorOperation: file, entry and watermark.
Upserted(c) ==
    /\ Installed(c)
    /\ entries' = With(entries, RowOf(c).id, seq[c])
    /\ indexedSeq' = Larger(indexedSeq, seq[c])

Upsert(c) ==
    /\ Running(c, "write")
    /\ IsVector(c)
    /\ Upserted(c)
    /\ seq' = [seq EXCEPT ![c] = 0]
    /\ MoveOn(c)
    /\ UNCHANGED made

-----------------------------------------------------------------------------
(***************************************************************************)
(* Errors, crashes, and the programs that have the store at other times.   *)
(***************************************************************************)
\* The calls of C return an error or die: what they knew is gone, and there is
\* no result.
Lost(C) ==
    /\ faults < MaxFaults
    /\ faults' = faults + 1
    /\ status' = [c \in Clients |-> IF c \in C THEN "failed" ELSE status[c]]
    /\ at' = [c \in Clients |-> IF c \in C THEN First ELSE at[c]]
    /\ phase' = [c \in Clients |-> IF c \in C THEN "read" ELSE phase[c]]
    /\ seq' = [c \in Clients |-> IF c \in C THEN 0 ELSE seq[c]]
    /\ made' = [c \in Clients |-> IF c \in C THEN {} ELSE made[c]]
    /\ UNCHANGED <<file, before>>

\* The request's context is done, or a file operation fails.  When it is the
\* directory's sync after a vector file's rename, ApplyVectorOperation returns
\* before it has touched the entry and the watermark in memory.
Fails(c) ==
    /\ status[c] = "running"
    /\ Lost({c})
    /\ \/ UNCHANGED store
       \/ /\ Running(c, "write")
          /\ IsVector(c)
          /\ Installed(c)
          /\ UNCHANGED <<entries, indexedSeq>>

\* NewFileVectorIndex: load.
Reloaded ==
    /\ entries' = vectors
    /\ indexedSeq' \in {0} \union {vectors[id] : id \in DOMAIN vectors}
    /\ \A id \in DOMAIN vectors : vectors[id] <= indexedSeq'

\* The process dies, perhaps inside a Write that had reached the log, and is
\* started again.
Crash ==
    /\ Lost({c \in Clients : status[c] = "running"})
    /\ \/ UNCHANGED <<born, durableSeq, nodeSeq>>
       \/ \E c \in Clients :
             /\ Running(c, "write")
             /\ ~IsVector(c)
             /\ ~There(Here(c).thing)
             /\ \A t \in Here(c).needs : Live(t)
             /\ Created(c)
    /\ Reloaded
    /\ UNCHANGED <<dead, vectors>>

\* Only a program that owns the store deletes, so no import is running; the
\* importer's process comes after it.
Delete(t) ==
    /\ \A c \in Clients : status[c] # "running"
    /\ Live(t)
    /\ dead' = dead \union {t}
    /\ durableSeq' = durableSeq + 1
    /\ Reloaded
    /\ UNCHANGED <<born, nodeSeq, vectors, calls, faults>>

-----------------------------------------------------------------------------
Continue(c) ==
    \/ Skip(c)
    \/ ReadTarget(c)
    \/ ReadThing(c)
    \/ WriteCreates(c)
    \/ WriteAnswered(c)
    \/ WriteRejected(c)
    \/ ReadSeq(c)
    \/ Upsert(c)

Next ==
    \/ \E c \in Clients : Call(c) \/ Continue(c) \/ Fails(c)
    \/ Crash
    \/ \E t \in Deletable : Delete(t)

Spec == Init /\ [][Next]_vars

\* The goroutine of a request runs on, and a client posts a failed import
\* again.
FairSpec ==
    /\ Spec
    /\ \A c \in Clients : /\ WF_vars(Continue(c))
                          /\ WF_vars(status[c] = "failed" /\ Call(c))
-----------------------------------------------------------------------------
(***************************************************************************)
(* Properties.                                                             *)
(***************************************************************************)
Have(f, p) ==
    IF p.slot = VectorSlot THEN f[p.row].id \in DOMAIN entries
    ELSE There(Step(f, p).thing)

\* The memory that the row at p supersedes is one the importer must have seen.
TargetSeen(c, p) ==
    LET target == file[c][p.row].supersedes
    IN \/ target \in before[c]
       \/ \E n \in 1..Len(file[c]) : target = file[c][n].id

\* What a returned import owes: all that the mapping of
\* docs/SUGARFANG_PILOT_IMPORT.md lists for its rows, whoever created it, with
\* a supersedes edge wherever the superseded memory was there at the start or
\* comes in the same file, before or after its successor.
ContractKept ==
    \A c \in Clients : status[c] = "returned" =>
        \A p \in Wanted(file[c]) :
            (p.slot = SupersedesSlot => TargetSeen(c, p)) => Have(file[c], p)

\* At every moment, whatever imports have failed half-way or died, nothing
\* dangles: a memory node has its record, a vector its node, a source span its
\* record and its chunk, and an edge both its ends.
NothingDangles ==
    /\ \A t \in born : t[1] = "node:memory" => There(Record(t[2]))
    /\ \A id \in DOMAIN vectors : There(Memory(id))
    /\ \A t \in born : t[1] = "span" => There(Record(t[2])) /\ There(Chunk(t[2]))
    /\ \A t \in born : Len(t) = 3 => There(t[2]) /\ There(t[3])

\* Who finds an edge finds all that was imported with it: the second loop does
\* not start before the first one has ended for every row of the file.
EntitiesThere(f) ==
    \A n \in 1..Len(f), slot \in 1..LastEntity :
        Wants(f[n], slot) => Have(f, [row |-> n, slot |-> slot])

EdgesComeLast ==
    [][\A t \in born' \ born : Len(t) = 3 =>
          \E c \in Clients : Here(c).thing = t /\ EntitiesThere(file[c])]_vars

\* A result counts as created no memory that was there, live or deleted, when
\* the call began, and nothing twice: an import that is posted again reports as
\* skipped what the first one had done.
CountsAreNew ==
    \A c \in Clients : \A n \in made[c] :
        /\ file[c][n].id \notin before[c]
        /\ \A m \in made[c] : file[c][m].id = file[c][n].id => m = n

\* The store refuses an import only for something that was deleted: never for
\* what another import does at the same time, nor for the order of the rows.
RejectionsExplained ==
    \A c \in Clients : status[c] = "rejected" =>
        \E t \in Here(c).needs : t \in dead

\* A vector's SourceSeq covers the creation of its node, in its file and in
\* memory, and IndexedSeq covers every entry in memory: two requests that upsert
\* the same node, with watermarks read in the other order, do not undo that,
\* nor does a file left behind by a failed upsert or loading the files again.
VectorsSourced ==
    /\ \A id \in DOMAIN vectors : There(Memory(id)) /\ nodeSeq[id] <= vectors[id]
    /\ \A id \in DOMAIN entries : /\ nodeSeq[id] <= entries[id]
                                  /\ entries[id] <= indexedSeq

\* What makes them inductive.  The loops pass the places in this order.
Precedes(p, q) ==
    IF (p.slot <= LastEntity) # (q.slot <= LastEntity) THEN p.slot < q.slot
    ELSE p.row < q.row \/ (p.row = q.row /\ p.slot < q.slot)

\* Everything behind the place a call has come to is in the store.
Passed(c, p) ==
    \/ status[c] = "returned"
    \/ status[c] \in {"running", "rejected"} /\ Precedes(p, at[c])

PassedIsThere ==
    \A c \in Clients : \A p \in Wanted(file[c]) :
        Passed(c, p) /\ (p.slot = SupersedesSlot => TargetSeen(c, p)) => Have(file[c], p)

\* What a call has read of the place it is at.
ReadsHold ==
    \A c \in Clients : status[c] = "running" =>
        /\ phase[c] = "target" => at[c].slot = SupersedesSlot
        /\ at[c].slot = SupersedesSlot /\ phase[c] # "target" =>
              There(Memory(RowOf(c).supersedes))
        /\ at[c].slot = VectorSlot /\ phase[c] = "write" =>
              There(Memory(RowOf(c).id)) /\ nodeSeq[RowOf(c).id] <= seq[c]
        /\ at[c].slot = 1 /\ phase[c] = "write" =>
              /\ RowOf(c).id \notin before[c]
              /\ \A n \in made[c] : file[c][n].id # RowOf(c).id

\* A row whose record is counted lies behind, and nodes have numbers.
MadePassed ==
    \A c \in Clients : \A n \in made[c] :
        status[c] # "failed" /\ Passed(c, [row |-> n, slot |-> 1])

NodesNumbered ==
    /\ \A t \in born : t[1] = "node:memory" => t[2] \in DOMAIN nodeSeq
    /\ \A id \in DOMAIN nodeSeq : There(Memory(id))

ImportInv ==
    /\ TypeOK
    /\ PassedIsThere
    /\ ReadsHold
    /\ MadePassed
    /\ NodesNumbered
    /\ NothingDangles
    /\ VectorsSourced
    /\ CountsAreNew
    /\ RejectionsExplained

\* A failed import that its client posts again returns in the end, and owes
\* then what any other does, unless something it uses has been deleted.
Resumes ==
    \A c \in Clients : status[c] = "failed" ~> (status[c] = "returned" \/ dead # {})

\* What Resumes rests on besides fairness: every step of a call brings it to a
\* later place or phase of its file, of which there are finitely many; it ends
\* behind the last one, by a fault, or because something was deleted.
Number(f, p) ==
    IF p.slot <= LastEntity THEN LastEntity * (p.row - 1) + p.slot
    ELSE LastEntity * Len(f) + (SupersedesSlot - LastEntity) * (p.row - 1)
            + p.slot - LastEntity

PhaseNumber == [ph \in Phases |-> IF ph = "target" THEN 0 ELSE IF ph = "read" THEN 1 ELSE 2]
Come(c) == 3 * Number(file[c], at[c]) + PhaseNumber[phase[c]]

Advances(c) ==
    \/ status'[c] = "running" /\ UNCHANGED <<at[c], phase[c]>>
    \/ status'[c] = "running" /\ Come(c)' > Come(c)
    \/ status'[c] = "returned" /\ IsLast(file[c], at[c])
    \/ status'[c] = "rejected" /\ dead # {}
    \/ status'[c] = "failed" /\ faults' > faults

AdvanceStep ==
    \A c \in Clients : status[c] = "running" =>
        /\ Come(c) \in 3..(3 * SupersedesSlot * Len(file[c]) + 2)
        /\ Advances(c)

CallsAdvance == [][AdvanceStep]_vars

\* Two imports that run side by side do not count the same thing as created.
\* They do: the answer to a repeated key is taken for a creation.
CountedOnce ==
    \A c, d \in Clients : c # d =>
        \A m \in made[c], n \in made[d] : file[c][m].id # file[d][n].id

\* Every vector of a node that IndexedSeq covers is in the index.  SourceSeq is
\* the watermark of the whole store, so another row's vector can claim a node
\* whose own vector is still to come, or was lost with its import.
IndexedSeqCovers ==
    \A c \in Clients : \A p \in Wanted(file[c]) :
        LET id == file[c][p.row].id
        IN (p.slot = VectorSlot /\ There(Memory(id)) /\ nodeSeq[id] <= indexedSeq)
              => id \in DOMAIN entries

\* No vector is there for a node that is deleted; an import of its row brings
\* it back.
DeadStaysOut == \A id \in DOMAIN entries : Memory(id) \notin dead
=============================================================================
