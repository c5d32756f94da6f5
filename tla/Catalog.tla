------------------------------- MODULE Catalog -------------------------------
(***************************************************************************)
(* The materialized catalog of a Kilo store: records, chunks, source       *)
(* spans, graph nodes and edges, purge requests, the in-memory indexes     *)
(* over them and the bodies of chunks on disk.  Apply checks a mutation    *)
(* (preflightLocked), writes a chunk's body, logs the mutation and applies *)
(* it (applyLocked); Open applies what the log holds beyond the snapshot   *)
(* once more.                                                              *)
(*                                                                         *)
(* A catalog is a value here, so that what was logged, what was captured   *)
(* in a snapshot and what replay makes of both can be compared.  How       *)
(* frames and snapshots reach the disk is KiloStore's business: the log is *)
(* a sequence of mutations and a snapshot is installed in one step.        *)
(***************************************************************************)
EXTENDS Integers, Sequences

CONSTANTS
    Ids,            \* identifiers, of entities of any kind
    Labels,         \* (field, value) pairs an entity can be filtered by
    Contents,       \* chunk contents; a content stands for its hash too
    Keys, NoKey,    \* idempotency keys, and the absence of one
    Length,         \* the length of a content
    Decoded,        \* what an id reads as once it was written as JSON
    Submitted,      \* the normalized mutations that callers submit
    MaxSeq,         \* bound on the mutations logged
    MaxOpens        \* bound on the times the store is opened

Kinds == {"record", "chunk", "span", "node", "edge", "purge"}
Ref == [chunk : Ids, start : Nat, end : Nat]

\* What the caller sets of an entity of each kind.
Data(kind) ==
    CASE kind = "chunk" -> [labels : SUBSET Labels, content : Contents]
      [] kind = "span" -> [labels : SUBSET Labels, record : Ids, refs : SUBSET Ref]
      [] kind = "edge" -> [labels : SUBSET Labels, from : Ids, to : Ids]
      [] OTHER -> [labels : SUBSET Labels]

\* The mutation types; an at of 0 is a time the caller leaves to the store.
Types == {"create"} \X Kinds \union
         {"update", "delete"} \X {"record", "node"} \union {<<"delete", "edge">>}

Mutation(kind) ==
    [op : {"create", "update", "delete"}, kind : {kind}, id : Ids, data : Data(kind),
     expected : Nat, key : Keys \union {NoKey}, at : Nat]

ASSUME LengthAssumption == Length \in [Contents -> Nat]
ASSUME DecodedAssumption == Decoded \in [Ids -> Ids]
ASSUME NoKeyAssumption == NoKey \notin Keys
ASSUME LabelsAssumption == Labels \intersect Ids = {}
ASSUME SubmittedAssumption ==
    \A m \in Submitted : \E kind \in Kinds :
        m \in Mutation(kind) /\ <<m.op, kind>> \in Types
ASSUME BoundsAssumption == MaxSeq \in Nat /\ MaxOpens \in Nat \ {0}

VARIABLES
    \* On disk.
    log,            \* the logged mutations
    snapshot,       \* the installed snapshot: a seq, the catalog at it, and
                    \* whether its checksum is that of what Open reads
    bodies,         \* the chunk bodies, by chunk id
    \* The open Store.
    status,         \* "down", "loading", "up", or "failed": Open gave up
    catalog,        \* entities of every kind, and results by idempotency key
    index,          \* for every kind, pairs of a term and an id
    durableSeq,
    replayAt,       \* the log entry Open looks at next
    clock,
    \* History: what was promised.
    history,        \* history[i] is the catalog when mutation i was logged
    acked           \* the keys and results of the calls that returned

disk == <<log, snapshot, bodies>>
memory == <<status, catalog, index, durableSeq, replayAt, clock>>
vars == <<disk, memory, history, acked>>

-----------------------------------------------------------------------------
(***************************************************************************)
(* Catalogs.                                                               *)
(***************************************************************************)
EmptyMap == [x \in {} |-> x]
Put(f, x, v) == [y \in DOMAIN f \union {x} |-> IF y = x THEN v ELSE f[y]]

EmptyCatalog == [entities |-> [k \in Kinds |-> EmptyMap], results |-> EmptyMap]

Live(f, id) == id \in DOMAIN f /\ ~f[id].deleted

\* validateSourceSpanReferencesLocked: the record is live, the chunks exist
\* and are as long as the offsets say.
SpanReferences(c, d) ==
    /\ Live(c.entities["record"], d.record)
    /\ \A r \in d.refs :
          /\ r.chunk \in DOMAIN c.entities["chunk"]
          /\ LET size == Length[c.entities["chunk"][r.chunk].data.content]
             IN r.start <= size /\ r.end <= size

\* Mutant: the first endpoint is checked twice.
FromEndpointOnly(c, d) ==
    /\ Live(c.entities["node"], d.from)
    /\ Live(c.entities["node"], d.from)

\* validateEdgeEndpointsLocked.
EdgeEndpoints(c, d) ==
    /\ Live(c.entities["node"], d.from)
    /\ Live(c.entities["node"], d.to)

References(c, m) ==
    /\ m.kind = "span" => SpanReferences(c, m.data)
    /\ m.kind = "edge" => EdgeEndpoints(c, m.data)

\* Mutant: a chunk that exists is not refused.
PreflightOverwritesChunk(c, m) ==
    LET f == c.entities[m.kind] IN
    IF m.op = "create"
    THEN (m.id \in DOMAIN f => m.kind = "chunk") /\ References(c, m)
    ELSE Live(f, m.id) /\ m.expected \in {0, f[m.id].revision}

\* preflightLocked lets the mutation pass.
Preflight(c, m) ==
    LET f == c.entities[m.kind] IN
    IF m.op = "create"
    THEN m.id \notin DOMAIN f /\ References(c, m)
    ELSE Live(f, m.id) /\ m.expected \in {0, f[m.id].revision}

\* The apply* function of the mutation's type finds nothing to object to.
Applies(c, m) ==
    LET f == c.entities[m.kind] IN
    \/ m.op = "create" /\ m.id \notin DOMAIN f /\ References(c, m)
    \/ /\ m.op # "create"
       /\ Live(f, m.id)
       /\ m.expected \in {0, f[m.id].revision}

\* The entity that the apply* function stores at time now.
Entity(c, seq, m, now) ==
    LET old == c.entities[m.kind][m.id]
    IN [data |-> IF m.op = "delete" THEN old.data ELSE m.data,
        revision |-> IF m.op = "create" THEN 1 ELSE old.revision + 1,
        deleted |-> m.op = "delete",
        created |-> IF m.op = "create" THEN seq ELSE old.created,
        updated |-> seq,
        at |-> IF m.at = 0 THEN now ELSE m.at]

Result(c, seq, m, now) ==
    [kind |-> m.kind, id |-> m.id, seq |-> seq,
     revision |-> Entity(c, seq, m, now).revision]

\* The catalog after applyLocked.
Applied(c, seq, m, now) ==
    [entities |-> [c.entities EXCEPT
                      ![m.kind] = Put(@, m.id, Entity(c, seq, m, now))],
     results |-> IF m.key = NoKey THEN c.results
                 ELSE Put(c.results, m.key, Result(c, seq, m, now))]

-----------------------------------------------------------------------------
(***************************************************************************)
(* Indexes.                                                                *)
(***************************************************************************)
RecordTerms(d) == d.labels
ChunkTerms(d) == d.labels
SpanTerms(d) == d.labels \union {d.record}
EdgeTerms(d) == {<<"outgoing", d.from>>, <<"incoming", d.to>>}

\* Nodes and purge requests are in no index.
Terms(kind, d) ==
    CASE kind = "record" -> RecordTerms(d)
      [] kind = "chunk" -> ChunkTerms(d)
      [] kind = "span" -> SpanTerms(d)
      [] kind = "edge" -> EdgeTerms(d)
      [] OTHER -> {}

Postings(kind, id, d) == {<<t, id>> : t \in Terms(kind, d)}

\* Mutant: tombstones are not indexed when a snapshot is installed.
IndexOfLive(c) ==
    [k \in Kinds |-> UNION {Postings(k, id, c.entities[k][id].data) :
                               id \in {i \in DOMAIN c.entities[k] :
                                          ~c.entities[k][i].deleted}}]

\* installCatalogSnapshot indexes what the snapshot holds.
IndexOf(c) ==
    [k \in Kinds |-> UNION {Postings(k, id, c.entities[k][id].data) :
                               id \in DOMAIN c.entities[k]}]

\* Mutant: an update leaves the old terms of the record in the index.
IndexAddsOnly(ix, c, m, d) ==
    [ix EXCEPT ![m.kind] = @ \union Postings(m.kind, m.id, d)]

Unindexed(c, m) ==
    IF m.op = "create" THEN {}
    ELSE Postings(m.kind, m.id, c.entities[m.kind][m.id].data)

\* applyUpdate and applyDelete take the record's old terms out first;
\* applyDeleteEdge leaves the edge where it is.
Reindexed(ix, c, m, d) ==
    IF m.op = "create" \/ m.kind = "record"
    THEN [ix EXCEPT ![m.kind] = (@ \ Unindexed(c, m)) \union
                                   Postings(m.kind, m.id, d)]
    ELSE ix

\* candidateIDsLocked: the intersection of the buckets, or every id.
Candidates(kind, terms) ==
    IF terms = {} THEN DOMAIN catalog.entities[kind]
    ELSE {id \in Ids : \A t \in terms : <<t, id>> \in index[kind]}

\* The candidates that match, without tombstones unless the caller wants them.
QueryRecords(labels, includeDeleted) ==
    {id \in Candidates("record", labels) \intersect DOMAIN catalog.entities["record"] :
        LET e == catalog.entities["record"][id]
        IN (includeDeleted \/ ~e.deleted) /\ labels \subseteq e.data.labels}

QueryChunks(labels) ==
    {id \in Candidates("chunk", labels) \intersect DOMAIN catalog.entities["chunk"] :
        labels \subseteq catalog.entities["chunk"][id].data.labels}

QuerySourceSpans(terms) ==
    {id \in Candidates("span", terms) \intersect DOMAIN catalog.entities["span"] :
        terms \subseteq SpanTerms(catalog.entities["span"][id].data)}

\* What expandSourceSpansLocked finds for a record.
SpansOf(record) ==
    {id \in DOMAIN catalog.entities["span"] : <<record, id>> \in index["span"]}

Adjacent(direction, node) ==
    {id \in Ids : <<<<direction, node>>, id>> \in index["edge"]}

Far(direction, id) ==
    LET d == catalog.entities["edge"][id].data
    IN IF direction = "outgoing" THEN d.to ELSE d.from

\* traverseEdgesLocked: the edges to show, each with the node at its far end.
Traverse(direction, node, includeDeleted) ==
    {<<id, Far(direction, id)>> : id \in {i \in Adjacent(direction, node) :
        LET far == Far(direction, i)
            nodes == catalog.entities["node"]
        IN /\ includeDeleted \/ ~catalog.entities["edge"][i].deleted
           /\ far \in DOMAIN nodes
           /\ includeDeleted \/ ~nodes[far].deleted}}

\* relatedEdgesLocked, in the given directions as seen from the related node.
RelatedEdges(related, node, directions, includeDeleted) ==
    UNION {{id \in Adjacent(dir, related) :
               /\ Far(dir, id) = node
               /\ includeDeleted \/ ~catalog.entities["edge"][id].deleted} :
              dir \in directions}

\* QueryNodes with a RelatedNodeID.
QueryNodes(labels, related, directions, includeDeleted) ==
    {id \in DOMAIN catalog.entities["node"] :
        LET e == catalog.entities["node"][id]
        IN /\ includeDeleted \/ ~e.deleted
           /\ labels \subseteq e.data.labels
           /\ RelatedEdges(related, id, directions, includeDeleted) # {}}

-----------------------------------------------------------------------------
(***************************************************************************)
(* JSON.  An id that is valid UTF-8 is read as it was written; in any other *)
(* each bad byte is replaced by U+FFFD, written as an escape and read, and *)
(* written again, as the character.                                        *)
(***************************************************************************)
IdsIn(kind, d) ==
    CASE kind = "span" -> {d.record} \union {r.chunk : r \in d.refs}
      [] kind = "edge" -> {d.from, d.to}
      [] OTHER -> {}

DataOnDisk(kind, d) ==
    CASE kind = "span" ->
            [d EXCEPT !.record = Decoded[@],
                      !.refs = {[r EXCEPT !.chunk = Decoded[@]] : r \in @}]
      [] kind = "edge" -> [d EXCEPT !.from = Decoded[@], !.to = Decoded[@]]
      [] OTHER -> d

OnDisk(m) ==
    [m EXCEPT !.id = Decoded[@], !.data = DataOnDisk(m.kind, @)]

IsText(c) ==
    \A kind \in Kinds : \A id \in DOMAIN c.entities[kind] :
        \A i \in {id} \union IdsIn(kind, c.entities[kind][id].data) : Decoded[i] = i

-----------------------------------------------------------------------------
(***************************************************************************)
(* The store.                                                              *)
(***************************************************************************)
Init ==
    /\ log = <<>>
    /\ snapshot = [seq |-> 0, catalog |-> EmptyCatalog, readable |-> TRUE]
    /\ bodies = EmptyMap
    /\ status = "down"
    /\ catalog = EmptyCatalog
    /\ index = IndexOf(EmptyCatalog)
    /\ durableSeq = 0
    /\ replayAt = 1
    /\ clock = 0
    /\ history = <<>>
    /\ acked = {}

\* Mutant: the mutation is logged with the time the caller left out.
LoggedUnstamped(m) == m

\* Apply fills in the time before it logs the mutation.
Logged(m) == [m EXCEPT !.at = IF @ = 0 THEN clock ELSE @]

\* The keys that Apply has seen are answered before anything else.
Fresh(m) == m.key \notin DOMAIN catalog.results

\* applyLocked on the live catalog, for a mutation that applies.
Materialize(seq, m) ==
    /\ catalog' = Applied(catalog, seq, m, clock)
    /\ index' = Reindexed(index, catalog, m,
                          Entity(catalog, seq, m, clock).data)
    /\ durableSeq' = seq

\* chunkBodyStore.Write: a temporary file, renamed over the body.
BodyWritten(m) ==
    IF m.kind = "chunk" THEN Put(bodies, m.id, m.data.content) ELSE bodies

AppendedToLog(m) ==
    /\ log' = Append(log, OnDisk(Logged(m)))
    /\ history' = Append(history, Applied(catalog, durableSeq + 1, Logged(m), clock))

\* Apply has come as far as to write to disk.
Ready(m) ==
    /\ status = "up"
    /\ Len(log) < MaxSeq
    /\ Fresh(m)
    /\ Preflight(catalog, m)

Apply(m) ==
    /\ Ready(m)
    /\ bodies' = BodyWritten(m)
    /\ AppendedToLog(m)
    /\ IF Applies(catalog, Logged(m))
       THEN /\ Materialize(durableSeq + 1, Logged(m))
            /\ acked' = acked \union
                  {[key |-> m.key,
                    result |-> Result(catalog, durableSeq + 1, Logged(m), clock)]}
       ELSE UNCHANGED <<catalog, index, durableSeq, acked>>
    /\ UNCHANGED <<snapshot, status, replayAt, clock>>

\* A call with a key that was used before is answered with the first result,
\* whatever it asks for.
ApplyIdempotent(key) ==
    /\ status = "up"
    /\ key \in DOMAIN catalog.results
    /\ acked' = acked \union {[key |-> key, result |-> catalog.results[key]]}
    /\ UNCHANGED <<disk, memory, history>>

\* Append fails and leaves nothing in the log; the body of the chunk stays.
AppendFails(m) ==
    /\ Ready(m)
    /\ m.kind = "chunk"
    /\ bodies' = BodyWritten(m)
    /\ UNCHANGED <<log, snapshot, memory, history, acked>>

\* Mutant: the snapshot leaves tombstoned records out.
SnapshotDataLive ==
    [seq |-> durableSeq, readable |-> IsText(catalog),
     catalog |-> [catalog EXCEPT !.entities["record"] =
                     [id \in {i \in DOMAIN @ : ~@[i].deleted} |-> @[id]]]]

\* Mutant: the snapshot leaves the idempotency results out.
SnapshotDataKeyless ==
    [seq |-> durableSeq, readable |-> IsText(catalog),
     catalog |-> [catalog EXCEPT !.results = EmptyMap]]

\* catalogSnapshotDataLocked.  The checksum is that of the catalog in memory;
\* Open takes it of what it has decoded.
SnapshotData ==
    [seq |-> durableSeq, readable |-> IsText(catalog), catalog |-> catalog]

\* WriteSnapshot, or the first half of Compact.
WriteSnapshot ==
    /\ status = "up"
    /\ snapshot' = SnapshotData
    /\ UNCHANGED <<log, bodies, memory, history, acked>>

Forget ==
    /\ clock < MaxOpens
    /\ status' = "down"
    /\ catalog' = EmptyCatalog
    /\ index' = IndexOf(EmptyCatalog)
    /\ durableSeq' = 0
    /\ replayAt' = 1

\* Close, or a crash between two calls.
Stop ==
    /\ status \in {"loading", "up"}
    /\ Forget
    /\ UNCHANGED <<disk, clock, history, acked>>

\* Mutant: the body is written after the mutation is logged.
CrashBodyLast(m) ==
    /\ Ready(m)
    /\ AppendedToLog(m)
    /\ Forget
    /\ UNCHANGED <<bodies, snapshot, clock, acked>>

\* The process dies in Apply, before or after the mutation is in the log.
CrashInApply(m) ==
    /\ Ready(m)
    /\ bodies' = BodyWritten(m)
    /\ \/ AppendedToLog(m)
       \/ m.kind = "chunk" /\ UNCHANGED <<log, history>>
    /\ Forget
    /\ UNCHANGED <<snapshot, clock, acked>>

\* Open: the snapshot is checked and installed (an absent one is empty, at
\* seq 0) ...
OpenLoad ==
    /\ status = "down"
    /\ clock' = clock + 1
    /\ replayAt' = 1
    /\ IF snapshot.readable
       THEN /\ status' = "loading"
            /\ catalog' = snapshot.catalog
            /\ index' = IndexOf(snapshot.catalog)
            /\ durableSeq' = snapshot.seq
       ELSE status' = "failed" /\ UNCHANGED <<catalog, index, durableSeq>>
    /\ UNCHANGED <<disk, history, acked>>

\* ... and the log replayed.  An entry that the snapshot covers is passed
\* over, and so is one whose key has a result.
ReplayEntry ==
    /\ status = "loading"
    /\ replayAt <= Len(log)
    /\ LET m == log[replayAt] IN
       IF replayAt <= durableSeq \/ ~Fresh(m)
       THEN UNCHANGED <<status, catalog, index, durableSeq>>
       ELSE IF Applies(catalog, m)
       THEN Materialize(replayAt, m) /\ UNCHANGED status
       ELSE status' = "failed" /\ UNCHANGED <<catalog, index, durableSeq>>
    /\ replayAt' = replayAt + 1
    /\ UNCHANGED <<disk, clock, history, acked>>

OpenDone ==
    /\ status = "loading"
    /\ replayAt > Len(log)
    /\ status' = "up"
    /\ UNCHANGED <<disk, catalog, index, durableSeq, replayAt, clock, history, acked>>

Next ==
    \/ \E m \in Submitted : Apply(m) \/ AppendFails(m) \/ CrashInApply(m)
    \/ \E key \in Keys : ApplyIdempotent(key)
    \/ WriteSnapshot
    \/ Stop
    \/ OpenLoad
    \/ ReplayEntry
    \/ OpenDone

Spec == Init /\ [][Next]_vars
-----------------------------------------------------------------------------
(***************************************************************************)
(* Properties.                                                             *)
(***************************************************************************)
CatalogAt(i) == IF i = 0 THEN EmptyCatalog ELSE history[i]

\* A store that was closed, or whose process died, can be opened again.
Reopens == status # "failed"

\* Whatever was logged applies again: Open never gives up on a mutation that
\* Apply let into the log (preflightLocked is as strict as the apply* functions).
ReplaySucceeds ==
    /\ Reopens
    /\ \A i \in 1..Len(log) : Applies(CatalogAt(i - 1), log[i])

\* Materialization is deterministic: snapshot and replay, at whatever time and
\* after whatever crash, rebuild exactly the catalog that the calls were
\* answered from.
ReplayRebuilds ==
    /\ status \in {"loading", "up"} => catalog = CatalogAt(durableSeq)
    /\ status = "up" => durableSeq = Len(log)

Resolved(c) ==
    /\ \A id \in DOMAIN c.entities["edge"] :
          LET d == c.entities["edge"][id].data
          IN d.from \in DOMAIN c.entities["node"] /\ d.to \in DOMAIN c.entities["node"]
    /\ \A id \in DOMAIN c.entities["span"] :
          LET d == c.entities["span"][id].data
              chunks == c.entities["chunk"]
          IN /\ d.record \in DOMAIN c.entities["record"]
             /\ \A r \in d.refs :
                   /\ r.chunk \in DOMAIN chunks
                   /\ r.end <= Length[chunks[r.chunk].data.content]

\* An edge and a source span never refer to something that was never there, in
\* the live catalog or on the way through replay (ReadSourceSpan never fails).
ReferencesResolve == Resolved(catalog)

Embodied(c) ==
    \A id \in DOMAIN c.entities["chunk"] :
        /\ id \in DOMAIN bodies
        /\ bodies[id] = c.entities["chunk"][id].data.content

\* ReadChunkContent never finds a chunk's body missing or other than what the
\* catalog has the hash of: the body is there before the chunk and is never
\* written again, though a failed or interrupted call may leave one behind.
BodiesMatch == Embodied(catalog)

\* A revision of an entity is handed out once, deletions, snapshots and restarts
\* included, so that a stale ExpectedRevision cannot match a later state.
RevisionsNeverReissued ==
    \A a, b \in acked :
        /\ a.result.kind = b.result.kind
        /\ a.result.id = b.result.id
        /\ a.result.revision = b.result.revision
        => a.result.seq = b.result.seq

\* Every call with the same key gets the same result, before and after restarts.
RetriesAgree ==
    \A a, b \in acked : a.key = b.key /\ a.key # NoKey => a.result = b.result

\* The record, chunk and span indexes, updated one mutation at a time or rebuilt
\* from a snapshot, give what a scan of the catalog would, tombstones and the
\* candidate ids shown for audit included.
QueriesAgree ==
    LET records == catalog.entities["record"]
        chunks == catalog.entities["chunk"]
        spans == catalog.entities["span"]
    IN \A labels \in SUBSET Labels :
       /\ Candidates("record", labels) =
             {id \in DOMAIN records : labels \subseteq records[id].data.labels}
       /\ \A all \in BOOLEAN :
             QueryRecords(labels, all) =
                {id \in DOMAIN records : /\ labels \subseteq records[id].data.labels
                                         /\ all \/ ~records[id].deleted}
       /\ QueryChunks(labels) =
             {id \in DOMAIN chunks : labels \subseteq chunks[id].data.labels}
       /\ \A record \in Ids :
             /\ QuerySourceSpans(labels \union {record}) =
                   {id \in DOMAIN spans : /\ labels \subseteq spans[id].data.labels
                                          /\ record = spans[id].data.record}
             /\ SpansOf(record) =
                   {id \in DOMAIN spans : record = spans[id].data.record}

\* Traversals through the adjacency indexes miss no edge and show none that they
\* should not, though deleting a node leaves its edges alive and deleting an
\* edge leaves it in the index.
TraversalsAgree ==
    LET edges == catalog.entities["edge"]
        nodes == catalog.entities["node"]
        Near(dir, id) == IF dir = "outgoing" THEN edges[id].data.from
                         ELSE edges[id].data.to
        Shown(all, e) == all \/ ~e.deleted
    IN \A node \in Ids, all \in BOOLEAN :
       /\ \A dir \in {"outgoing", "incoming"} :
             Traverse(dir, node, all) =
                {<<id, Far(dir, id)>> : id \in
                    {i \in DOMAIN edges : /\ node = Near(dir, i)
                                          /\ Shown(all, edges[i])
                                          /\ Shown(all, nodes[Far(dir, i)])}}
       /\ \A dirs \in SUBSET {"outgoing", "incoming"} :
             QueryNodes({}, node, dirs, all) =
                {id \in DOMAIN nodes :
                    /\ Shown(all, nodes[id])
                    /\ \E e \in DOMAIN edges, dir \in dirs :
                          /\ Shown(all, edges[e])
                          /\ node = Near(dir, e)
                          /\ id = Far(dir, e)}
=============================================================================
