------------------------------ MODULE MCCatalog ------------------------------
(* A small instance of Catalog for TLC: mutations of every type that build on *)
(* one another, with and without keys, expected revisions and times.          *)
EXTENDS CatalogInv, TLC

CONSTANTS r, c, s, n, o, link, p, red, blue, short, long, k, none

M(op, kind, id, data) ==
    [op |-> op, kind |-> kind, id |-> id, data |-> data, expected |-> 0,
     key |-> none, at |-> 0]
Guarded(m, revision) == [m EXCEPT !.expected = revision]
Keyed(m) == [m EXCEPT !.key = k]

Plain(labels) == [labels |-> labels]
Chunk(content) == [labels |-> {blue}, content |-> content]
Span(end) == [labels |-> {red}, record |-> r, refs |-> {[chunk |-> c, start |-> 0, end |-> end]}]
Edge(from, to) == [labels |-> {}, from |-> from, to |-> to]

RecordMutations ==
    {M("create", "record", r, Plain({red})),
     Keyed(M("create", "record", r, Plain({red, blue}))),
     Keyed(M("update", "record", r, Plain({blue}))),
     Guarded(M("update", "record", r, Plain({})), 1),
     [M("delete", "record", r, Plain({})) EXCEPT !.at = 7]}
ChunkMutations ==
    {M("create", "chunk", c, Chunk(short)),
     M("create", "chunk", c, Chunk(long)),
     M("create", "span", s, Span(1)),
     M("create", "span", s, Span(2))}
GraphMutations ==
    {M("create", "node", n, Plain({red})),
     M("create", "node", o, Plain({})),
     M("update", "node", n, Plain({blue})),
     Guarded(M("delete", "node", n, Plain({})), 1),
     M("create", "edge", link, Edge(n, o)),
     M("create", "edge", link, Edge(n, n)),
     M("delete", "edge", link, Edge(n, o)),
     M("create", "purge", p, Plain({}))}

MCIds == {r, c, s, n, o, link, p}
\* Ids that are all valid UTF-8, or two nodes' that are not and read alike.
MCDecoded == [i \in MCIds |-> i]
MCCoerced == [i \in MCIds |-> IF i \in {n, o} THEN p ELSE i]
MCLength == [x \in {short, long} |-> IF x = short THEN 1 ELSE 2]
MCSubmitted == RecordMutations \union ChunkMutations \union GraphMutations
=============================================================================
