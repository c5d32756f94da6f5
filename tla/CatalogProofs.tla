---------------------------- MODULE CatalogProofs ----------------------------
(***************************************************************************)
(* Proofs about Catalog: what applying one mutation does to a catalog, the *)
(* inductive invariant CatInv, and the properties that follow from it.     *)
(***************************************************************************)
EXTENDS CatalogInv, TLAPS, SequenceTheorems

\* --- One mutation --------------------------------------------------------

LEMMA LoggedKind ==
    ASSUME NEW m, IsLogged(m)
    PROVE  /\ m.kind \in Kinds
           /\ m.op \in {"create", "update", "delete"}
           /\ m.id \in Ids
           /\ m.data \in Data(m.kind)
           /\ m.key \in Keys \union {NoKey}
           /\ m.at \in Nat
           /\ m.expected \in Nat
           /\ <<m.op, m.kind>> \in Types
           /\ m.kind \in {"chunk", "span", "purge"} => m.op = "create"
           /\ m.kind = "edge" => m.op \in {"create", "delete"}
<1>1. PICK kind \in Kinds : m \in Mutation(kind) /\ <<m.op, kind>> \in Types
  BY DEF IsLogged
<1>2. m.kind = kind /\ m.op \in {"create", "update", "delete"} /\ m.data \in Data(kind)
      /\ m.id \in Ids /\ m.key \in Keys \union {NoKey} /\ m.at \in Nat
      /\ m.expected \in Nat
  BY <1>1 DEF Mutation
<1> QED
  BY <1>1, <1>2 DEF Types, Kinds

LEMMA EntityType ==
    ASSUME NEW c, IsCatalog(c), NEW m, IsLogged(m), Applies(c, m),
           NEW seq \in Nat, NEW now \in Nat
    PROVE  /\ Entity(c, seq, m, now) \in EntityOf(m.kind)
           /\ Entity(c, seq, m, now).updated = seq
           /\ m.op = "create" => Entity(c, seq, m, now).data = m.data
           /\ m.op = "delete" =>
                 Entity(c, seq, m, now).data = c.entities[m.kind][m.id].data
           /\ m.op # "create" =>
                 Entity(c, seq, m, now).revision =
                    c.entities[m.kind][m.id].revision + 1
<1> DEFINE old == c.entities[m.kind][m.id]
<1>0. m.kind \in Kinds /\ m.data \in Data(m.kind) /\ m.at \in Nat
      /\ m.op \in {"create", "update", "delete"}
  BY LoggedKind
<1>1. CASE m.op = "create"
  BY <1>0, <1>1 DEF Entity, EntityOf
<1>2. CASE m.op # "create"
  <2>1. old \in EntityOf(m.kind)
    BY <1>0, <1>2 DEF Applies, Live, IsCatalog
  <2> HIDE DEF old
  <2>2. Entity(c, seq, m, now) =
           [data |-> IF m.op = "delete" THEN old.data ELSE m.data,
            revision |-> old.revision + 1,
            deleted |-> m.op = "delete",
            created |-> old.created,
            updated |-> seq,
            at |-> IF m.at = 0 THEN now ELSE m.at]
    BY <1>2 DEF Entity, old
  <2>3. /\ Entity(c, seq, m, now) \in EntityOf(m.kind)
        /\ Entity(c, seq, m, now).updated = seq
        /\ Entity(c, seq, m, now).revision = old.revision + 1
        /\ m.op = "delete" => Entity(c, seq, m, now).data = old.data
    BY <1>0, <2>1, <2>2 DEF EntityOf
  <2> QED
    BY <1>0, <1>2, <2>3 DEF old
<1> QED
  BY <1>1, <1>2

\* What Applied does to the entities of each kind ...
LEMMA AppliedPut ==
    ASSUME NEW c, IsCatalog(c), NEW m, IsLogged(m), NEW seq, NEW now
    PROVE  LET a == Applied(c, seq, m, now) IN
           /\ a.entities[m.kind] =
                 Put(c.entities[m.kind], m.id, Entity(c, seq, m, now))
           /\ \A k \in Kinds : k # m.kind => a.entities[k] = c.entities[k]
<1> DEFINE a == Applied(c, seq, m, now)
           f == Put(c.entities[m.kind], m.id, Entity(c, seq, m, now))
<1>1. m.kind \in Kinds
  BY LoggedKind
<1>2. c.entities = [k \in Kinds |-> c.entities[k]]
  BY DEF IsCatalog
<1>3. a.entities = [c.entities EXCEPT ![m.kind] = f]
  BY DEF Applied
<1> HIDE DEF a, f
<1> QED
  BY <1>1, <1>2, <1>3 DEF a, f

LEMMA AppliedEntities ==
    ASSUME NEW c, IsCatalog(c), NEW m, IsLogged(m), NEW seq, NEW now
    PROVE  LET a == Applied(c, seq, m, now) IN
           /\ \A k \in Kinds : k # m.kind => a.entities[k] = c.entities[k]
           /\ DOMAIN a.entities[m.kind] = DOMAIN c.entities[m.kind] \union {m.id}
           /\ a.entities[m.kind][m.id] = Entity(c, seq, m, now)
           /\ \A id \in DOMAIN c.entities[m.kind] :
                 id # m.id => a.entities[m.kind][id] = c.entities[m.kind][id]
<1> DEFINE a == Applied(c, seq, m, now)
           f == c.entities[m.kind]
           e == Entity(c, seq, m, now)
<1>1. /\ DOMAIN Put(f, m.id, e) = DOMAIN f \union {m.id}
      /\ Put(f, m.id, e)[m.id] = e
      /\ \A id \in DOMAIN f : id # m.id => Put(f, m.id, e)[id] = f[id]
  BY DEF Put
<1>2. /\ a.entities[m.kind] = Put(f, m.id, e)
      /\ \A k \in Kinds : k # m.kind => a.entities[k] = c.entities[k]
  BY AppliedPut
<1> HIDE DEF a, f, e
<1>3. /\ DOMAIN a.entities[m.kind] = DOMAIN f \union {m.id}
      /\ a.entities[m.kind][m.id] = e
      /\ \A id \in DOMAIN f : id # m.id => a.entities[m.kind][id] = f[id]
  BY <1>1, <1>2
<1> QED
  BY <1>2, <1>3 DEF a, f, e

LEMMA AppliedDomain ==
    ASSUME NEW c, IsCatalog(c), NEW m, NEW seq, NEW now
    PROVE  LET a == Applied(c, seq, m, now)
           IN a.entities = [k \in Kinds |-> a.entities[k]]
<1> DEFINE a == Applied(c, seq, m, now)
           f == Put(c.entities[m.kind], m.id, Entity(c, seq, m, now))
<1>1. c.entities = [k \in Kinds |-> c.entities[k]]
  BY DEF IsCatalog
<1>2. a.entities = [c.entities EXCEPT ![m.kind] = f]
  BY DEF Applied
<1> HIDE DEF a, f
<1> QED
  BY <1>1, <1>2 DEF a

\* ... and to the results.
LEMMA AppliedResults ==
    ASSUME NEW c, NEW m, NEW seq, NEW now
    PROVE  LET a == Applied(c, seq, m, now) IN
           /\ a.results = IF m.key = NoKey THEN c.results
                          ELSE Put(c.results, m.key, Result(c, seq, m, now))
           /\ a = [entities |-> a.entities, results |-> a.results]
  BY DEF Applied

LEMMA AppliedIsCatalog ==
    ASSUME NEW c, IsCatalog(c), NEW m, IsLogged(m), Applies(c, m),
           NEW seq \in Nat, NEW now \in Nat
    PROVE  IsCatalog(Applied(c, seq, m, now))
<1> DEFINE a == Applied(c, seq, m, now)
           e == Entity(c, seq, m, now)
<1>0. m.kind \in Kinds /\ m.id \in Ids /\ m.key \in Keys \union {NoKey}
  BY LoggedKind
<1>1. e \in EntityOf(m.kind)
  BY EntityType
<1>2. /\ \A k \in Kinds : k # m.kind => a.entities[k] = c.entities[k]
      /\ a.entities[m.kind] = Put(c.entities[m.kind], m.id, e)
  BY AppliedPut
<1>7. a.entities = [k \in Kinds |-> a.entities[k]]
  BY AppliedDomain
<1>6. /\ a = [entities |-> a.entities, results |-> a.results]
      /\ a.results = IF m.key = NoKey THEN c.results
                     ELSE Put(c.results, m.key, Result(c, seq, m, now))
  BY AppliedResults
<1>3. Result(c, seq, m, now) \in ResultType
  BY <1>0, <1>1 DEF Result, ResultType, EntityOf
<1> HIDE DEF a, e
<1>4. ASSUME NEW k \in Kinds
      PROVE  /\ DOMAIN a.entities[k] \subseteq Ids
             /\ a.entities[k] \in [DOMAIN a.entities[k] -> EntityOf(k)]
  <2>1. /\ DOMAIN c.entities[k] \subseteq Ids
        /\ c.entities[k] \in [DOMAIN c.entities[k] -> EntityOf(k)]
    BY DEF IsCatalog
  <2>2. CASE k # m.kind
    BY <1>2, <2>1, <2>2
  <2>3. CASE k = m.kind
    <3>1. a.entities[k] = Put(c.entities[k], m.id, e)
      BY <1>2, <2>3
    <3> QED
      BY <1>0, <1>1, <2>1, <2>3, <3>1 DEF Put
  <2> QED
    BY <2>2, <2>3
<1>5. /\ DOMAIN a.results \subseteq Keys
      /\ a.results \in [DOMAIN a.results -> ResultType]
  <2>1. /\ DOMAIN c.results \subseteq Keys
        /\ c.results \in [DOMAIN c.results -> ResultType]
    BY DEF IsCatalog
  <2>2. CASE m.key = NoKey
    BY <1>6, <2>1, <2>2
  <2>3. CASE m.key # NoKey
    <3>1. a.results = Put(c.results, m.key, Result(c, seq, m, now))
      BY <1>6, <2>3
    <3> QED
      BY <1>0, <1>3, <2>1, <2>3, <3>1 DEF Put
  <2> QED
    BY <2>2, <2>3
<1> QED
  BY <1>4, <1>5, <1>6, <1>7 DEF IsCatalog, a

\* A mutation that carries its time has the same effect whenever it is applied.
LEMMA TimeIsLogged ==
    ASSUME NEW c, NEW m, m.at # 0, NEW seq, NEW now
    PROVE  /\ Applied(c, seq, m, now) = Applied(c, seq, m, 0)
           /\ Entity(c, seq, m, now) = Entity(c, seq, m, 0)
<1>1. Entity(c, seq, m, now) = Entity(c, seq, m, 0)
  BY DEF Entity
<1>2. Result(c, seq, m, now) = Result(c, seq, m, 0)
  BY <1>1 DEF Result
<1> QED
  BY <1>1, <1>2 DEF Applied

\* No entity is ever taken out, and chunks, spans and edges keep what they say.
LEMMA EntitiesStay ==
    ASSUME NEW c, IsCatalog(c), NEW m, IsLogged(m), Applies(c, m),
           NEW seq \in Nat, NEW now \in Nat, NEW k \in Kinds, NEW id,
           id \in DOMAIN c.entities[k]
    PROVE  /\ id \in DOMAIN Applied(c, seq, m, now).entities[k]
           /\ k \notin {"record", "node"} =>
                 Applied(c, seq, m, now).entities[k][id].data = c.entities[k][id].data
<1> DEFINE a == Applied(c, seq, m, now)
<1>1. /\ \A j \in Kinds : j # m.kind => a.entities[j] = c.entities[j]
      /\ DOMAIN a.entities[m.kind] = DOMAIN c.entities[m.kind] \union {m.id}
      /\ a.entities[m.kind][m.id] = Entity(c, seq, m, now)
      /\ \A i \in DOMAIN c.entities[m.kind] :
            i # m.id => a.entities[m.kind][i] = c.entities[m.kind][i]
  BY AppliedEntities
<1> HIDE DEF a
<1>2. CASE k # m.kind \/ id # m.id
  BY <1>1, <1>2 DEF a
<1>3. CASE k = m.kind /\ id = m.id
  <2>1. m.op # "create"
    BY <1>3 DEF Applies
  <2>2. k \notin {"record", "node"} => m.op = "delete"
    BY <1>3, <2>1, LoggedKind DEF Kinds
  <2>3. m.op = "delete" => Entity(c, seq, m, now).data = c.entities[k][id].data
    BY <1>3, EntityType
  <2> QED
    BY <1>1, <1>3, <2>2, <2>3 DEF a
<1> QED
  BY <1>2, <1>3

\* What is new in a catalog.
LEMMA EntitiesNew ==
    ASSUME NEW c, IsCatalog(c), NEW m, IsLogged(m), Applies(c, m),
           NEW seq \in Nat, NEW now \in Nat, NEW k \in Kinds, NEW id,
           id \in DOMAIN Applied(c, seq, m, now).entities[k],
           id \notin DOMAIN c.entities[k]
    PROVE  /\ k = m.kind /\ id = m.id /\ m.op = "create"
           /\ Applied(c, seq, m, now).entities[k][id].data = m.data
<1> DEFINE a == Applied(c, seq, m, now)
<1>1. /\ \A j \in Kinds : j # m.kind => a.entities[j] = c.entities[j]
      /\ DOMAIN a.entities[m.kind] = DOMAIN c.entities[m.kind] \union {m.id}
      /\ a.entities[m.kind][m.id] = Entity(c, seq, m, now)
  BY AppliedEntities
<1> HIDE DEF a
<1>2. k = m.kind /\ id = m.id
  BY <1>1 DEF a
<1>3. m.op = "create"
  BY <1>2 DEF Applies, Live
<1>4. Entity(c, seq, m, now).data = m.data
  BY <1>3 DEF Entity
<1> QED
  BY <1>1, <1>2, <1>3, <1>4 DEF a

\* References that resolve go on resolving, and new ones do.
LEMMA ResolvedStays ==
    ASSUME NEW c, IsCatalog(c), NEW m, IsLogged(m), Applies(c, m),
           NEW seq \in Nat, NEW now \in Nat, Resolved(c)
    PROVE  Resolved(Applied(c, seq, m, now))
<1> DEFINE a == Applied(c, seq, m, now)
<1>0. {"record", "chunk", "span", "node", "edge"} \subseteq Kinds
  BY DEF Kinds
<1>1. ASSUME NEW k \in Kinds, NEW id \in DOMAIN c.entities[k]
      PROVE  /\ id \in DOMAIN a.entities[k]
             /\ k \notin {"record", "node"} =>
                   a.entities[k][id].data = c.entities[k][id].data
  <2>1. id \in DOMAIN a.entities[k]
    BY <1>1, EntitiesStay
  <2>2. ASSUME k \notin {"record", "node"}
        PROVE  a.entities[k][id].data = c.entities[k][id].data
    BY <1>1, <2>2, EntitiesStay
  <2> QED
    BY <2>1, <2>2
<1>2. ASSUME NEW k \in Kinds, NEW id \in DOMAIN a.entities[k],
             id \notin DOMAIN c.entities[k]
      PROVE  /\ k = m.kind /\ id = m.id /\ m.op = "create"
             /\ a.entities[k][id].data = m.data
  BY <1>2, EntitiesNew
<1> HIDE DEF a
<1>3. ASSUME NEW id \in DOMAIN a.entities["edge"]
      PROVE  LET d == a.entities["edge"][id].data
             IN d.from \in DOMAIN a.entities["node"] /\ d.to \in DOMAIN a.entities["node"]
  <2>1. CASE id \in DOMAIN c.entities["edge"]
    <3>1. a.entities["edge"][id].data = c.entities["edge"][id].data
      BY <1>0, <1>1, <2>1
    <3> QED
      BY <1>0, <1>1, <2>1, <3>1 DEF Resolved
  <2>2. CASE id \notin DOMAIN c.entities["edge"]
    <3>1. m.kind = "edge" /\ m.op = "create" /\ a.entities["edge"][id].data = m.data
      BY <1>0, <1>2, <2>2
    <3>2. EdgeEndpoints(c, m.data)
      BY <3>1 DEF Applies, References
    <3> QED
      BY <1>0, <1>1, <3>1, <3>2 DEF EdgeEndpoints, Live
  <2> QED
    BY <2>1, <2>2
<1>4. ASSUME NEW id \in DOMAIN a.entities["span"]
      PROVE  LET d == a.entities["span"][id].data
                 chunks == a.entities["chunk"]
             IN /\ d.record \in DOMAIN a.entities["record"]
                /\ \A r \in d.refs :
                      /\ r.chunk \in DOMAIN chunks
                      /\ r.end <= Length[chunks[r.chunk].data.content]
  <2>1. CASE id \in DOMAIN c.entities["span"]
    <3>1. a.entities["span"][id].data = c.entities["span"][id].data
      BY <1>0, <1>1, <2>1
    <3>2. LET d == c.entities["span"][id].data
          IN /\ d.record \in DOMAIN c.entities["record"]
             /\ \A r \in d.refs :
                   /\ r.chunk \in DOMAIN c.entities["chunk"]
                   /\ r.end <= Length[c.entities["chunk"][r.chunk].data.content]
      BY <2>1 DEF Resolved
    <3> QED
      BY <1>0, <1>1, <3>1, <3>2
  <2>2. CASE id \notin DOMAIN c.entities["span"]
    <3>1. m.kind = "span" /\ m.op = "create" /\ a.entities["span"][id].data = m.data
      BY <1>0, <1>2, <2>2
    <3>2. SpanReferences(c, m.data)
      BY <3>1 DEF Applies, References
    <3> QED
      BY <1>0, <1>1, <3>1, <3>2 DEF SpanReferences, Live
  <2> QED
    BY <2>1, <2>2
<1> QED
  BY <1>3, <1>4 DEF Resolved, a

\* --- The indexes ---------------------------------------------------------

LEMMA PostingsOfOne ==
    ASSUME NEW k, NEW i, NEW j, NEW d, NEW b, NEW x,
           x \in Postings(k, i, d), x \in Postings(k, j, b)
    PROVE  i = j
<1>1. PICK t \in Terms(k, d) : x = <<t, i>>
  BY DEF Postings
<1>2. PICK u \in Terms(k, b) : x = <<u, j>>
  BY DEF Postings
<1> QED
  BY <1>1, <1>2

LEMMA IndexMember ==
    ASSUME NEW c, NEW k \in Kinds, NEW x
    PROVE  x \in IndexOf(c)[k] <=>
              \E id \in DOMAIN c.entities[k] : x \in Postings(k, id, c.entities[k][id].data)
  BY DEF IndexOf

LEMMA IndexDomain ==
    ASSUME NEW c
    PROVE  IndexOf(c) = [k \in Kinds |-> IndexOf(c)[k]]
  BY DEF IndexOf

LEMMA SameTerms ==
    ASSUME NEW c, IsCatalog(c), NEW m, IsLogged(m), Applies(c, m),
           NEW seq \in Nat, NEW now \in Nat, m.op # "create", m.kind # "record"
    PROVE  Postings(m.kind, m.id, Entity(c, seq, m, now).data) = Unindexed(c, m)
<1>1. CASE m.kind = "node"
  <2>1. \A d : Terms("node", d) = {}
    BY DEF Terms
  <2> QED
    BY <1>1, <2>1 DEF Postings, Unindexed
<1>2. CASE m.kind # "node"
  <2>1. m.op = "delete"
    BY <1>2, LoggedKind DEF Kinds
  <2>2. Entity(c, seq, m, now).data = c.entities[m.kind][m.id].data
    BY <2>1 DEF Entity
  <2> QED
    BY <2>2 DEF Unindexed
<1> QED
  BY <1>1, <1>2

\* Keeping the index up to date comes to the same as building it anew.
LEMMA IndexFollows ==
    ASSUME NEW c, IsCatalog(c), NEW m, IsLogged(m), Applies(c, m),
           NEW seq \in Nat, NEW now \in Nat
    PROVE  Reindexed(IndexOf(c), c, m, Entity(c, seq, m, now).data) =
              IndexOf(Applied(c, seq, m, now))
<1> DEFINE a == Applied(c, seq, m, now)
           new == Postings(m.kind, m.id, Entity(c, seq, m, now).data)
           old == Unindexed(c, m)
<1>0. m.kind \in Kinds
  BY LoggedKind
<1>1. /\ \A k \in Kinds : k # m.kind => a.entities[k] = c.entities[k]
      /\ DOMAIN a.entities[m.kind] = DOMAIN c.entities[m.kind] \union {m.id}
      /\ a.entities[m.kind][m.id] = Entity(c, seq, m, now)
      /\ \A id \in DOMAIN c.entities[m.kind] :
            id # m.id => a.entities[m.kind][id] = c.entities[m.kind][id]
  BY AppliedEntities
<1>2. m.op = "create" <=> m.id \notin DOMAIN c.entities[m.kind]
  BY DEF Applies, Live
<1>3. m.op # "create" => old = Postings(m.kind, m.id, c.entities[m.kind][m.id].data)
  BY DEF Unindexed
<1>4. m.op = "create" => old = {}
  BY DEF Unindexed
<1> HIDE DEF a, old
<1>5. ASSUME NEW k \in Kinds, k # m.kind
      PROVE  IndexOf(a)[k] = IndexOf(c)[k]
  BY <1>1, <1>5 DEF IndexOf
<1>6. IndexOf(a)[m.kind] = (IndexOf(c)[m.kind] \ old) \union new
  <2>1. ASSUME NEW x \in IndexOf(a)[m.kind]
        PROVE  x \in (IndexOf(c)[m.kind] \ old) \union new
    <3>1. PICK id \in DOMAIN a.entities[m.kind] :
             x \in Postings(m.kind, id, a.entities[m.kind][id].data)
      BY <1>0, <2>1, IndexMember
    <3>2. CASE id = m.id
      BY <1>1, <3>1, <3>2
    <3>3. CASE id # m.id
      <4>1. id \in DOMAIN c.entities[m.kind]
            /\ x \in Postings(m.kind, id, c.entities[m.kind][id].data)
        BY <1>1, <3>1, <3>3
      <4>2. x \in IndexOf(c)[m.kind]
        BY <1>0, <4>1, IndexMember
      <4>3. x \notin old
        BY <1>3, <1>4, <3>3, <4>1, PostingsOfOne
      <4> QED
        BY <4>2, <4>3
    <3> QED
      BY <3>2, <3>3
  <2>2. ASSUME NEW x \in (IndexOf(c)[m.kind] \ old) \union new
        PROVE  x \in IndexOf(a)[m.kind]
    <3>1. CASE x \in new
      <4>1. m.id \in DOMAIN a.entities[m.kind]
            /\ x \in Postings(m.kind, m.id, a.entities[m.kind][m.id].data)
        BY <1>1, <3>1
      <4> QED
        BY <1>0, <4>1, IndexMember
    <3>2. CASE x \in IndexOf(c)[m.kind] /\ x \notin old
      <4>1. PICK id \in DOMAIN c.entities[m.kind] :
               x \in Postings(m.kind, id, c.entities[m.kind][id].data)
        BY <1>0, <3>2, IndexMember
      <4>2. id # m.id
        BY <1>2, <1>3, <3>2, <4>1
      <4>3. id \in DOMAIN a.entities[m.kind]
            /\ x \in Postings(m.kind, id, a.entities[m.kind][id].data)
        BY <1>1, <4>1, <4>2
      <4> QED
        BY <1>0, <4>3, IndexMember
    <3> QED
      BY <2>2, <3>1, <3>2
  <2> QED
    BY <2>1, <2>2
<1> DEFINE ix == Reindexed(IndexOf(c), c, m, Entity(c, seq, m, now).data)
<1>7. ix = [k \in Kinds |-> ix[k]]
  BY IndexDomain DEF Reindexed
<1>8. ASSUME NEW k \in Kinds
      PROVE  ix[k] = IndexOf(a)[k]
  <2>1. CASE m.op = "create" \/ m.kind = "record"
    <3>1. ix = [IndexOf(c) EXCEPT ![m.kind] = (@ \ old) \union new]
      BY <2>1 DEF Reindexed, old
    <3>2. DOMAIN IndexOf(c) = Kinds
      BY DEF IndexOf
    <3> HIDE DEF ix, new
    <3> QED
      BY <1>0, <1>5, <1>6, <3>1, <3>2
  <2>2. CASE ~(m.op = "create" \/ m.kind = "record")
    <3>1. ix = IndexOf(c)
      BY <2>2 DEF Reindexed
    <3>2. new = old
      BY <2>2, SameTerms DEF old
    <3>3. old \subseteq IndexOf(c)[m.kind]
      BY <1>0, <1>2, <1>3, <2>2, IndexMember
    <3> HIDE DEF ix, new
    <3> QED
      BY <1>5, <1>6, <3>1, <3>2, <3>3
  <2> QED
    BY <2>1, <2>2
<1>9. IndexOf(a) = [k \in Kinds |-> IndexOf(a)[k]]
  BY IndexDomain
<1> HIDE DEF ix
<1> QED
  BY <1>7, <1>8, <1>9 DEF ix, a

\* --- JSON ----------------------------------------------------------------

\* What the theorems assume of the callers: every id is valid UTF-8.
IdsAreText == \A i \in Ids : Decoded[i] = i

LEMMA DataIds ==
    ASSUME NEW kind \in Kinds, NEW d \in Data(kind)
    PROVE  /\ IdsIn(kind, d) \subseteq Ids
           /\ kind = "span" =>
                 d = [labels |-> d.labels, record |-> d.record, refs |-> d.refs]
           /\ kind = "edge" =>
                 d = [labels |-> d.labels, from |-> d.from, to |-> d.to]
           /\ kind = "span" => d.refs \subseteq Ref
<1>1. CASE kind = "span"
  <2>1. d \in [labels : SUBSET Labels, record : Ids, refs : SUBSET Ref]
    BY <1>1 DEF Data
  <2> QED
    BY <1>1, <2>1 DEF IdsIn, Ref
<1>2. CASE kind = "edge"
  <2>1. d \in [labels : SUBSET Labels, from : Ids, to : Ids]
    BY <1>2 DEF Data
  <2> QED
    BY <1>2, <2>1 DEF IdsIn
<1>3. CASE kind \notin {"span", "edge"}
  BY <1>3 DEF IdsIn
<1> QED
  BY <1>1, <1>2, <1>3

\* What is read back is a mutation of the same type, its ids text or not.
LEMMA ReadBackIsLogged ==
    ASSUME NEW m, IsLogged(m)
    PROVE  IsLogged(OnDisk(m))
<1>1. PICK kind \in Kinds : m \in Mutation(kind) /\ <<m.op, kind>> \in Types
  BY DEF IsLogged
<1> DEFINE d == m.data
<1>2. m.kind = kind /\ d \in Data(kind) /\ m.id \in Ids
  BY <1>1 DEF Mutation
<1>3. Decoded[m.id] \in Ids
  BY <1>2, DecodedAssumption
<1>4. DataOnDisk(kind, d) \in Data(kind)
  <2> HIDE DEF d
  <2>1. CASE kind = "span"
    <3>1. d \in [labels : SUBSET Labels, record : Ids, refs : SUBSET Ref]
      BY <1>2, <2>1 DEF Data
    <3> DEFINE refs == {[r EXCEPT !.chunk = Decoded[@]] : r \in d.refs}
    <3>2. refs \subseteq Ref /\ Decoded[d.record] \in Ids
      BY <3>1, DecodedAssumption DEF Ref
    <3>3. DataOnDisk(kind, d) = [labels |-> d.labels, record |-> Decoded[d.record],
                                 refs |-> refs]
      BY <2>1, <3>1 DEF DataOnDisk
    <3> HIDE DEF refs
    <3> QED
      BY <2>1, <3>1, <3>2, <3>3 DEF Data
  <2>2. CASE kind = "edge"
    <3>1. d \in [labels : SUBSET Labels, from : Ids, to : Ids]
      BY <1>2, <2>2 DEF Data
    <3>2. DataOnDisk(kind, d) = [labels |-> d.labels, from |-> Decoded[d.from],
                                 to |-> Decoded[d.to]]
      BY <2>2, <3>1 DEF DataOnDisk
    <3> QED
      BY <2>2, <3>1, <3>2, DecodedAssumption DEF Data
  <2>3. CASE kind \notin {"span", "edge"}
    BY <1>2, <2>3 DEF DataOnDisk
  <2> QED
    BY <2>1, <2>2, <2>3
<1>5. OnDisk(m) = [op |-> m.op, kind |-> kind, id |-> Decoded[m.id],
                   data |-> DataOnDisk(kind, d), expected |-> m.expected,
                   key |-> m.key, at |-> m.at]
  <2>1. m = [op |-> m.op, kind |-> m.kind, id |-> m.id, data |-> d,
             expected |-> m.expected, key |-> m.key, at |-> m.at]
    BY <1>1 DEF Mutation
  <2>2. OnDisk(m) = [m EXCEPT !.id = Decoded[m.id], !.data = DataOnDisk(m.kind, d)]
    BY <2>1 DEF OnDisk
  <2> HIDE DEF d
  <2> QED
    BY <1>2, <2>1, <2>2
<1> HIDE DEF d
<1>6. OnDisk(m) \in Mutation(kind) /\ OnDisk(m).op = m.op
  BY <1>1, <1>3, <1>4, <1>5 DEF Mutation
<1> QED
  BY <1>1, <1>6 DEF IsLogged

LEMMA WrittenAsIs ==
    ASSUME IdsAreText, NEW m, IsLogged(m)
    PROVE  OnDisk(m) = m
<1>1. PICK kind \in Kinds : m \in Mutation(kind) /\ <<m.op, kind>> \in Types
  BY DEF IsLogged
<1> DEFINE d == m.data
<1>2. m.kind \in Kinds /\ d \in Data(m.kind) /\ m.id \in Ids
  BY LoggedKind
<1>3. Decoded[m.id] = m.id
  BY <1>2 DEF IdsAreText
<1>4. DataOnDisk(m.kind, d) = d
  <2> HIDE DEF d
  <2>1. CASE m.kind = "span"
    <3>1. /\ d = [labels |-> d.labels, record |-> d.record, refs |-> d.refs]
          /\ d.refs \subseteq Ref /\ d.record \in Ids
      BY <1>2, <2>1, DataIds DEF IdsIn
    <3>2. \A r \in d.refs : [r EXCEPT !.chunk = Decoded[@]] = r
      BY <3>1 DEF Ref, IdsAreText
    <3>3. {[r EXCEPT !.chunk = Decoded[@]] : r \in d.refs} = d.refs
      BY <3>2
    <3>4. Decoded[d.record] = d.record
      BY <3>1 DEF IdsAreText
    <3>5. DataOnDisk(m.kind, d) =
             [d EXCEPT !.record = Decoded[@],
                       !.refs = {[r EXCEPT !.chunk = Decoded[@]] : r \in @}]
      BY <2>1 DEF DataOnDisk
    <3> QED
      BY <3>1, <3>3, <3>4, <3>5
  <2>2. CASE m.kind = "edge"
    <3>1. /\ d = [labels |-> d.labels, from |-> d.from, to |-> d.to]
          /\ d.from \in Ids /\ d.to \in Ids
      BY <1>2, <2>2, DataIds DEF IdsIn
    <3>2. Decoded[d.from] = d.from /\ Decoded[d.to] = d.to
      BY <3>1 DEF IdsAreText
    <3>3. DataOnDisk(m.kind, d) = [d EXCEPT !.from = Decoded[@], !.to = Decoded[@]]
      BY <2>2 DEF DataOnDisk
    <3> QED
      BY <3>1, <3>2, <3>3
  <2>3. CASE m.kind \notin {"span", "edge"}
    BY <2>3 DEF DataOnDisk
  <2> QED
    BY <2>1, <2>2, <2>3
<1> QED
  BY <1>1, <1>3, <1>4 DEF OnDisk, Mutation

LEMMA CatalogIsText ==
    ASSUME IdsAreText, NEW c, IsCatalog(c)
    PROVE  IsText(c)
<1> SUFFICES ASSUME NEW kind \in Kinds, NEW id \in DOMAIN c.entities[kind],
                    NEW i \in {id} \union IdsIn(kind, c.entities[kind][id].data)
             PROVE  Decoded[i] = i
  BY DEF IsText
<1>1. id \in Ids /\ c.entities[kind][id].data \in Data(kind)
  BY DEF IsCatalog, EntityOf
<1>2. i \in Ids
  BY <1>1, DataIds
<1> QED
  BY <1>2 DEF IdsAreText

\* --- One step of the log -------------------------------------------------

\* An entity is left alone or goes one revision further.
LEMMA RevisionStays ==
    ASSUME NEW c, IsCatalog(c), NEW m, IsLogged(m), Applies(c, m),
           NEW seq \in Nat, NEW now \in Nat, NEW k \in Kinds, NEW id,
           id \in DOMAIN c.entities[k]
    PROVE  LET g == Applied(c, seq, m, now).entities[k]
               f == c.entities[k]
           IN /\ id \in DOMAIN g
              /\ f[id].revision \in Nat
              /\ \/ g[id] = f[id]
                 \/ g[id].revision = f[id].revision + 1
<1> DEFINE a == Applied(c, seq, m, now)
<1>1. /\ \A j \in Kinds : j # m.kind => a.entities[j] = c.entities[j]
      /\ DOMAIN a.entities[m.kind] = DOMAIN c.entities[m.kind] \union {m.id}
      /\ a.entities[m.kind][m.id] = Entity(c, seq, m, now)
      /\ \A i \in DOMAIN c.entities[m.kind] :
            i # m.id => a.entities[m.kind][i] = c.entities[m.kind][i]
  BY AppliedEntities
<1>2. c.entities[k][id].revision \in Nat
  BY DEF IsCatalog, EntityOf
<1> HIDE DEF a
<1>3. CASE k # m.kind \/ id # m.id
  BY <1>1, <1>2, <1>3 DEF a
<1>4. CASE k = m.kind /\ id = m.id
  <2>1. m.op # "create"
    BY <1>4 DEF Applies
  <2>2. Entity(c, seq, m, now).revision = c.entities[k][id].revision + 1
    BY <1>4, <2>1, EntityType
  <2> QED
    BY <1>1, <1>2, <1>4, <2>2 DEF a
<1> QED
  BY <1>3, <1>4

\* The result of a mutation tells the truth about the entity it made.
LEMMA ResultTrue ==
    ASSUME NEW c, IsCatalog(c), NEW m, IsLogged(m), Applies(c, m),
           NEW seq \in Nat, NEW now \in Nat
    PROVE  LET a == Applied(c, seq, m, now)
               x == Result(c, seq, m, now)
           IN /\ x \in ResultType
              /\ x.seq = seq
              /\ x.id \in DOMAIN a.entities[x.kind]
              /\ a.entities[x.kind][x.id].revision = x.revision
              /\ a.entities[x.kind][x.id].updated = x.seq
<1> DEFINE a == Applied(c, seq, m, now)
           e == Entity(c, seq, m, now)
<1>0. m.kind \in Kinds /\ m.id \in Ids
  BY LoggedKind
<1>1. e \in EntityOf(m.kind) /\ e.updated = seq
  BY EntityType
<1>2. /\ DOMAIN a.entities[m.kind] = DOMAIN c.entities[m.kind] \union {m.id}
      /\ a.entities[m.kind][m.id] = e
  BY AppliedEntities
<1>3. /\ Result(c, seq, m, now).kind = m.kind
      /\ Result(c, seq, m, now).id = m.id
      /\ Result(c, seq, m, now).seq = seq
      /\ Result(c, seq, m, now).revision = e.revision
  BY DEF Result
<1>4. Result(c, seq, m, now) \in ResultType
  BY <1>0, <1>1 DEF Result, ResultType, EntityOf
<1> HIDE DEF a, e
<1> QED
  BY <1>1, <1>2, <1>3, <1>4 DEF a

LEMMA EmptySound ==
    /\ IsCatalog(EmptyCatalog)
    /\ Resolved(EmptyCatalog)
    /\ Embodied(EmptyCatalog)
    /\ DOMAIN EmptyCatalog.entities["chunk"] = {}
    /\ DOMAIN EmptyCatalog.results = {}
<1>1. \A k \in Kinds : EmptyCatalog.entities[k] = EmptyMap
  BY DEF EmptyCatalog
<1>2. DOMAIN EmptyMap = {}
  BY DEF EmptyMap
<1>3. {"chunk", "span", "edge"} \subseteq Kinds
  BY DEF Kinds
<1>4. EmptyCatalog.results = EmptyMap
  BY DEF EmptyCatalog
<1>5. /\ EmptyCatalog = [entities |-> EmptyCatalog.entities, results |-> EmptyCatalog.results]
      /\ EmptyCatalog.entities = [k \in Kinds |-> EmptyCatalog.entities[k]]
  BY DEF EmptyCatalog
<1>6. \A S : EmptyMap \in [{} -> S]
  BY DEF EmptyMap
<1>7. IsCatalog(EmptyCatalog)
  BY <1>1, <1>2, <1>4, <1>5, <1>6 DEF IsCatalog
<1>8. Resolved(EmptyCatalog) /\ Embodied(EmptyCatalog)
  BY <1>1, <1>2, <1>3 DEF Resolved, Embodied
<1> QED
  BY <1>1, <1>2, <1>3, <1>4, <1>7, <1>8

\* Every catalog of the history is one, and resolves.
LEMMA HistoryCatalogs ==
    ASSUME TypeOK, HistorySound, NEW i \in 0..Len(log)
    PROVE  /\ IsCatalog(CatalogAt(i))
           /\ Resolved(CatalogAt(i))
           /\ Embodied(CatalogAt(i))
           /\ DOMAIN CatalogAt(i).entities["chunk"] \subseteq
                 DOMAIN CatalogAt(Len(log)).entities["chunk"]
<1>1. CASE i = 0
  <2>1. CatalogAt(i) = EmptyCatalog
    BY <1>1 DEF CatalogAt
  <2> QED
    BY <2>1, EmptySound
<1>2. CASE i # 0
  <2>1. i \in 1..Len(log) /\ CatalogAt(i) = history[i]
    BY <1>2 DEF CatalogAt, TypeOK
  <2> QED
    BY <2>1 DEF TypeOK, HistorySound
<1> QED
  BY <1>1, <1>2

\* Apply's two writes, for a mutation as it is logged.
Grown(m, now) ==
    /\ log' = Append(log, m)
    /\ history' = Append(history, Applied(CatalogAt(Len(log)), Len(log) + 1, m, now))
    /\ bodies' = BodyWritten(m)

\* m may come after the log.
Loggable(m) ==
    /\ IsLogged(m)
    /\ m.at # 0
    /\ Applies(CatalogAt(Len(log)), m)
    /\ m.key \notin DOMAIN CatalogAt(Len(log)).results

LEMMA IsSequence ==
    ASSUME NEW n \in Nat, NEW s, s = [i \in 1..n |-> s[i]]
    PROVE  \E S : s \in Seq(S)
<1> DEFINE S == {s[i] : i \in 1..n}
<1>1. \A i \in 1..n : s[i] \in S
  OBVIOUS
<1> HIDE DEF S
<1>2. s \in [1..n -> S]
  BY <1>1
<1> QED
  BY <1>2, SeqDef

LEMMA Appended ==
    ASSUME NEW n \in Nat, NEW s, s = [i \in 1..n |-> s[i]], Len(s) = n, NEW e
    PROVE  /\ Len(Append(s, e)) = n + 1
           /\ Append(s, e) = [i \in 1..(n + 1) |-> Append(s, e)[i]]
           /\ Append(s, e)[n + 1] = e
           /\ \A i \in 1..n : Append(s, e)[i] = s[i]
<1>1. PICK S : s \in Seq(S)
  BY IsSequence
<1>2. s \in Seq(S \union {e}) /\ e \in S \union {e}
  BY <1>1
<1> QED
  BY <1>2

LEMMA GrownLog ==
    ASSUME TypeOK, HistorySound, NEW m, Loggable(m), NEW now \in Nat, Grown(m, now)
    PROVE  /\ Len(log) \in Nat
           /\ Len(log') = Len(log) + 1 /\ Len(history') = Len(log')
           /\ log' = [i \in 1..Len(log') |-> log'[i]]
           /\ history' = [i \in 1..Len(log') |-> history'[i]]
           /\ \A i \in 0..Len(log) : CatalogAt(i)' = CatalogAt(i)
           /\ \A i \in 1..Len(log') : CatalogAt(i)' = history'[i]
           /\ \A i \in 1..Len(log) : log'[i] = log[i] /\ history'[i] = history[i]
           /\ log'[Len(log) + 1] = m
           /\ history'[Len(log) + 1] =
                 Applied(CatalogAt(Len(log)), Len(log) + 1, m, now)
<1> DEFINE n == Len(log)
           a == Applied(CatalogAt(n), n + 1, m, now)
<1>1. n \in Nat /\ Len(history) = n
  BY DEF TypeOK
<1>2. log' = Append(log, m) /\ history' = Append(history, a)
  BY DEF Grown
<1>3. log = [i \in 1..n |-> log[i]] /\ history = [i \in 1..n |-> history[i]]
  BY DEF TypeOK
<1> HIDE DEF a
<1>5. /\ Len(Append(log, m)) = n + 1
      /\ Append(log, m) = [i \in 1..(n + 1) |-> Append(log, m)[i]]
      /\ Append(log, m)[n + 1] = m
      /\ \A i \in 1..n : Append(log, m)[i] = log[i]
  BY <1>1, <1>3, Appended
<1>6. /\ Len(Append(history, a)) = n + 1
      /\ Append(history, a) = [i \in 1..(n + 1) |-> Append(history, a)[i]]
      /\ Append(history, a)[n + 1] = a
      /\ \A i \in 1..n : Append(history, a)[i] = history[i]
  BY <1>1, <1>3, Appended
<1>7. \A i \in 0..n : CatalogAt(i)' = CatalogAt(i)
  BY <1>1, <1>2, <1>6 DEF CatalogAt
<1>8. \A i \in 1..Len(log') : CatalogAt(i)' = history'[i]
  BY <1>1, <1>2, <1>5 DEF CatalogAt
<1> QED
  BY <1>1, <1>2, <1>5, <1>6, <1>7, <1>8 DEF a

\* A body is written only under a chunk id that no catalog of the history has.
LEMMA BodyIsNew ==
    ASSUME TypeOK, HistorySound, NEW m, IsLogged(m), Applies(CatalogAt(Len(log)), m),
           bodies' = BodyWritten(m), NEW i \in 0..Len(log)
    PROVE  /\ \A id \in DOMAIN CatalogAt(i).entities["chunk"] :
                 /\ id \in DOMAIN bodies'
                 /\ bodies'[id] = CatalogAt(i).entities["chunk"][id].data.content
           /\ DOMAIN bodies' \subseteq Ids
           /\ bodies' \in [DOMAIN bodies' -> Contents]
<1> DEFINE f == CatalogAt(i).entities["chunk"]
           last == CatalogAt(Len(log)).entities["chunk"]
<1>1. /\ DOMAIN f \subseteq DOMAIN last
      /\ \A id \in DOMAIN f : id \in DOMAIN bodies /\ bodies[id] = f[id].data.content
  BY HistoryCatalogs DEF Embodied
<1>2. DOMAIN bodies \subseteq Ids /\ bodies \in [DOMAIN bodies -> Contents]
  BY DEF TypeOK
<1> HIDE DEF f
<1>3. CASE m.kind # "chunk"
  <2>1. bodies' = bodies
    BY <1>3 DEF BodyWritten
  <2> QED
    BY <1>1, <1>2, <2>1 DEF f
<1>4. CASE m.kind = "chunk"
  <2>1. m.op = "create" /\ m.id \in Ids /\ m.data \in Data("chunk")
    BY <1>4, LoggedKind
  <2>2. m.data.content \in Contents
    BY <2>1 DEF Data
  <2>3. m.id \notin DOMAIN last
    BY <1>4, <2>1 DEF Applies
  <2>4. bodies' = Put(bodies, m.id, m.data.content)
    BY <1>4 DEF BodyWritten
  <2> HIDE DEF last
  <2>5. /\ DOMAIN bodies' = DOMAIN bodies \union {m.id}
        /\ bodies' \in [DOMAIN bodies' -> Contents]
        /\ \A id \in DOMAIN bodies : id # m.id => bodies'[id] = bodies[id]
    BY <1>2, <2>2, <2>4 DEF Put
  <2> QED
    BY <1>1, <1>2, <2>1, <2>3, <2>5 DEF f
<1> QED
  BY <1>3, <1>4

\* The new catalog has its bodies, too.
LEMMA NewEmbodied ==
    ASSUME TypeOK, HistorySound, NEW m, Loggable(m), NEW now \in Nat, Grown(m, now)
    PROVE  \A i \in {Len(log) + 1} : Embodied(history[i])'
<1> DEFINE n == Len(log)
           c == CatalogAt(n)
           a == Applied(c, n + 1, m, now)
<1>1. IsLogged(m) /\ Applies(c, m) /\ bodies' = BodyWritten(m) /\ n \in Nat
  BY DEF Loggable, Grown, TypeOK
<1>2. IsCatalog(c)
  BY <1>1, HistoryCatalogs
<1>3. \A id \in DOMAIN c.entities["chunk"] :
         /\ id \in DOMAIN bodies'
         /\ bodies'[id] = c.entities["chunk"][id].data.content
  BY <1>1, BodyIsNew
<1>4. "chunk" \in Kinds
  BY DEF Kinds
<1>5. ASSUME NEW id \in DOMAIN a.entities["chunk"]
      PROVE  /\ id \in DOMAIN bodies'
             /\ bodies'[id] = a.entities["chunk"][id].data.content
  <2>1. CASE id \in DOMAIN c.entities["chunk"]
    <3>1. a.entities["chunk"][id].data = c.entities["chunk"][id].data
      BY <1>1, <1>2, <1>4, <2>1, EntitiesStay
    <3> HIDE DEF a
    <3> QED
      BY <1>3, <2>1, <3>1
  <2>2. CASE id \notin DOMAIN c.entities["chunk"]
    <3>1. /\ "chunk" = m.kind /\ id = m.id
          /\ a.entities["chunk"][id].data = m.data
      BY <1>1, <1>2, <1>4, <2>2, EntitiesNew
    <3>2. bodies' = Put(bodies, m.id, m.data.content)
      BY <1>1, <3>1 DEF BodyWritten
    <3> HIDE DEF a
    <3> QED
      BY <3>1, <3>2 DEF Put
  <2> QED
    BY <2>1, <2>2
<1>6. history'[n + 1] = a
  BY GrownLog
<1> HIDE DEF a
<1> QED
  BY <1>5, <1>6 DEF Embodied

LEMMA HistoryGrows ==
    ASSUME TypeOK, HistorySound, NEW m, Loggable(m), NEW now \in Nat, Grown(m, now)
    PROVE  /\ HistorySound'
           /\ \A i \in 1..Len(log') : IsLogged(log'[i]) /\ IsCatalog(history'[i])
<1> DEFINE n == Len(log)
           c == CatalogAt(n)
           a == Applied(c, n + 1, m, now)
<1>0. /\ n \in Nat
      /\ Len(log') = n + 1 /\ Len(history') = Len(log')
      /\ \A i \in 0..n : CatalogAt(i)' = CatalogAt(i)
      /\ \A i \in 1..(n + 1) : CatalogAt(i)' = history'[i]
      /\ \A i \in 1..n : log'[i] = log[i] /\ history'[i] = history[i]
      /\ log'[n + 1] = m
      /\ history'[n + 1] = a
  BY GrownLog
<1>1. /\ IsLogged(m) /\ Applies(c, m) /\ m.at # 0 /\ m.key \notin DOMAIN c.results
      /\ bodies' = BodyWritten(m)
  BY DEF Loggable, Grown
<1>2. IsCatalog(c) /\ Resolved(c)
  BY <1>0, HistoryCatalogs
<1>3. IsCatalog(a) /\ Resolved(a)
  BY <1>0, <1>1, <1>2, AppliedIsCatalog, ResolvedStays
<1>4. a = Applied(c, n + 1, m, 0)
  BY <1>1, TimeIsLogged
<1>5. DOMAIN c.entities["chunk"] \subseteq DOMAIN a.entities["chunk"]
  BY <1>0, <1>1, <1>2, EntitiesStay DEF Kinds
<1>6. \A i \in 0..n : DOMAIN CatalogAt(i).entities["chunk"] \subseteq
                         DOMAIN c.entities["chunk"]
  BY <1>0, HistoryCatalogs
<1>7. \A i \in {n + 1} : Embodied(history[i])'
  BY NewEmbodied
<1>8. ASSUME NEW i \in 1..n
      PROVE  Embodied(history[i])'
  <2>1. /\ \A id \in DOMAIN CatalogAt(i).entities["chunk"] :
                 /\ id \in DOMAIN bodies'
                 /\ bodies'[id] = CatalogAt(i).entities["chunk"][id].data.content
    BY <1>0, <1>1, BodyIsNew
  <2>2. CatalogAt(i) = history'[i]
    BY <1>0
  <2> QED
    BY <2>1, <2>2 DEF Embodied
<1> HIDE DEF a, c
<1>9. \A i \in 1..Len(log') : IsLogged(log'[i]) /\ IsCatalog(history'[i])
  BY <1>0, <1>1, <1>3 DEF TypeOK
<1>10. ASSUME NEW i \in 1..(n + 1)
       PROVE  /\ log'[i].at # 0
              /\ Applies(CatalogAt(i - 1)', log'[i])
              /\ log'[i].key \notin DOMAIN CatalogAt(i - 1)'.results
              /\ history'[i] = Applied(CatalogAt(i - 1)', i, log'[i], 0)
              /\ Resolved(history'[i])
  <2>1. CASE i = n + 1
    <3>1. CatalogAt(i - 1)' = c
      BY <1>0, <2>1 DEF c
    <3> QED
      BY <1>0, <1>1, <1>3, <1>4, <2>1, <3>1
  <2>2. CASE i # n + 1
    <3>1. i \in 1..n /\ CatalogAt(i - 1)' = CatalogAt(i - 1)
      BY <1>0, <2>2
    <3> QED
      BY <1>0, <3>1 DEF HistorySound
  <2> QED
    BY <2>1, <2>2
<1>11. ASSUME NEW i \in 1..(n + 1)
       PROVE  /\ Embodied(history[i])'
              /\ DOMAIN history'[i].entities["chunk"] \subseteq
                    DOMAIN CatalogAt(Len(log))'.entities["chunk"]
  <2>1. CatalogAt(Len(log))' = a
    BY <1>0
  <2>2. Embodied(history[i])'
    BY <1>0, <1>7, <1>8
  <2>3. i = n + 1 \/ (i \in 1..n /\ history'[i] = CatalogAt(i))
    BY <1>0
  <2> QED
    BY <1>0, <1>5, <1>6, <2>1, <2>2, <2>3
<1>12. HistorySound'
  BY <1>0, <1>10, <1>11 DEF HistorySound
<1> QED
  BY <1>9, <1>12

\* --- What was promised ---------------------------------------------------

\* A promise outlives the next mutation.
LEMMA PromisesStay ==
    ASSUME TypeOK, HistorySound, NEW m, Loggable(m), NEW now \in Nat, Grown(m, now),
           NEW key, NEW x \in ResultType, Promised(key, x)
    PROVE  Promised(key, x)'
<1> DEFINE n == Len(log)
           c == CatalogAt(n)
           a == Applied(c, n + 1, m, now)
<1>0. /\ n \in Nat
      /\ Len(log') = n + 1
      /\ \A i \in 1..n : history'[i] = history[i]
      /\ history'[n + 1] = a
  BY GrownLog
<1>1. IsLogged(m) /\ Applies(c, m) /\ m.key \notin DOMAIN c.results
  BY DEF Loggable
<1>2. IsCatalog(c)
  BY <1>0, HistoryCatalogs
<1>3. x.seq \in 1..n /\ x.kind \in Kinds /\ x.revision \in Nat
  BY DEF Promised, ResultType
<1>4. c = history[n]
  BY <1>0, <1>3 DEF CatalogAt
<1>5. /\ Standing(n, x)
      /\ key # NoKey => key \in DOMAIN c.results /\ c.results[key] = x
  BY <1>0, <1>3, <1>4 DEF Promised
<1>6. x.id \in DOMAIN c.entities[x.kind]
  BY <1>4, <1>5 DEF Standing
<1>7. LET g == a.entities[x.kind]
          f == c.entities[x.kind]
      IN /\ x.id \in DOMAIN g
         /\ f[x.id].revision \in Nat
         /\ \/ g[x.id] = f[x.id]
            \/ g[x.id].revision = f[x.id].revision + 1
  <2>1. n + 1 \in Nat /\ x.kind \in Kinds
    BY <1>0, <1>3
  <2> HIDE DEF c
  <2>2. ASSUME NEW k \in Kinds, NEW id \in DOMAIN c.entities[k]
        PROVE  LET g == a.entities[k]
                   f == c.entities[k]
               IN /\ id \in DOMAIN g
                  /\ f[id].revision \in Nat
                  /\ \/ g[id] = f[id]
                     \/ g[id].revision = f[id].revision + 1
    BY <1>1, <1>2, <2>1, <2>2, RevisionStays
  <2> HIDE DEF a
  <2> QED
    BY <1>6, <2>1, <2>2
<1>8. a.results = IF m.key = NoKey THEN c.results
                  ELSE Put(c.results, m.key, Result(c, n + 1, m, now))
  BY AppliedResults
<1> HIDE DEF a, c
<1>9. key # NoKey => key \in DOMAIN a.results /\ a.results[key] = x
  <2> DEFINE r == Result(c, n + 1, m, now)
  <2> HIDE DEF r
  <2>1. a.results = IF m.key = NoKey THEN c.results ELSE Put(c.results, m.key, r)
    BY <1>8 DEF r
  <2> QED
    BY <1>1, <1>5, <2>1 DEF Put
<1>10. LET f == c.entities[x.kind] IN
       \/ f[x.id].revision = x.revision /\ f[x.id].updated = x.seq
       \/ f[x.id].revision > x.revision
  BY <1>4, <1>5 DEF Standing
<1>11. LET g == a.entities[x.kind] IN
       /\ x.id \in DOMAIN g
       /\ \/ g[x.id].revision = x.revision /\ g[x.id].updated = x.seq
          \/ g[x.id].revision > x.revision
  BY <1>3, <1>7, <1>10
<1>12. ASSUME NEW i \in x.seq..(n + 1)
       PROVE  /\ Standing(i, x)'
              /\ key # NoKey => /\ key \in DOMAIN history'[i].results
                                /\ history'[i].results[key] = x
  <2>1. CASE i = n + 1
    <3>1. i > x.seq
      BY <1>0, <1>3, <2>1
    <3> QED
      BY <1>0, <1>9, <1>11, <2>1, <3>1 DEF Standing
  <2>2. CASE i # n + 1
    <3>1. i \in x.seq..n /\ history'[i] = history[i]
      BY <1>0, <1>3, <2>2
    <3> QED
      BY <3>1 DEF Promised, Standing
  <2> QED
    BY <2>1, <2>2
<1> QED
  BY <1>0, <1>3, <1>12 DEF Promised

\* So does the promise that the mutation itself makes begin.
LEMMA PromiseMade ==
    ASSUME TypeOK, HistorySound, NEW m, Loggable(m), NEW now \in Nat, Grown(m, now),
           NEW x, x = Result(CatalogAt(Len(log)), Len(log) + 1, m, now)
    PROVE  x \in ResultType /\ Promised(m.key, x)'
<1> DEFINE n == Len(log)
           c == CatalogAt(n)
           a == Applied(c, n + 1, m, now)
<1>0. n \in Nat /\ Len(log') = n + 1 /\ history'[n + 1] = a
  BY GrownLog
<1>1. IsLogged(m) /\ Applies(c, m)
  BY DEF Loggable
<1>2. IsCatalog(c)
  BY <1>0, HistoryCatalogs
<1>3. /\ x \in ResultType
      /\ x.seq = n + 1
      /\ x.id \in DOMAIN a.entities[x.kind]
      /\ a.entities[x.kind][x.id].revision = x.revision
      /\ a.entities[x.kind][x.id].updated = x.seq
  BY <1>0, <1>1, <1>2, ResultTrue
<1>4. a.results = IF m.key = NoKey THEN c.results ELSE Put(c.results, m.key, x)
  BY AppliedResults
<1> HIDE DEF a, c
<1>5. m.key # NoKey => m.key \in DOMAIN a.results /\ a.results[m.key] = x
  BY <1>4 DEF Put
<1>6. ASSUME NEW i \in x.seq..(n + 1)
      PROVE  /\ Standing(i, x)'
             /\ m.key # NoKey => /\ m.key \in DOMAIN history'[i].results
                                 /\ history'[i].results[m.key] = x
  <2>1. i = n + 1
    BY <1>0, <1>3
  <2> QED
    BY <1>0, <1>3, <1>5, <2>1 DEF Standing
<1>7. x.seq \in 1..Len(log')
  BY <1>0, <1>3
<1>8. Promised(m.key, x)'
  BY <1>0, <1>6, <1>7 DEF Promised
<1> QED
  BY <1>3, <1>8

LEMMA ResultsPromised ==
    ASSUME TypeOK, HistorySound, PromisesSound,
           NEW m, Loggable(m), NEW now \in Nat, Grown(m, now)
    PROVE  \A i \in 1..Len(log') : \A key \in DOMAIN history'[i].results :
              Promised(key, history[i].results[key])'
<1> DEFINE n == Len(log)
           c == CatalogAt(n)
<1>0. /\ n \in Nat
      /\ Len(log') = n + 1
      /\ \A i \in 1..n : history'[i] = history[i]
      /\ history'[n + 1] = Applied(c, n + 1, m, now)
  BY GrownLog
<1>1. ASSUME NEW i \in 0..n, NEW key \in DOMAIN CatalogAt(i).results
      PROVE  \A x \in {CatalogAt(i).results[key]} : Promised(key, x)'
  <2>1. i # 0
    BY DEF CatalogAt, EmptyCatalog, EmptyMap
  <2>2. i \in 1..n /\ CatalogAt(i) = history[i]
    BY <1>0, <2>1 DEF CatalogAt
  <2>3. Promised(key, history[i].results[key])
    BY <1>1, <2>2 DEF PromisesSound
  <2>4. IsCatalog(history[i])
    BY <2>2 DEF TypeOK
  <2>5. history[i].results[key] \in ResultType
    BY <1>1, <2>2, <2>4 DEF IsCatalog
  <2> QED
    BY <2>2, <2>3, <2>5, PromisesStay
<1>2. ASSUME NEW i \in 1..(n + 1), NEW key \in DOMAIN history'[i].results
      PROVE  \A x \in {history'[i].results[key]} : Promised(key, x)'
  <2>1. CASE i # n + 1
    <3>1. i \in 0..n /\ CatalogAt(i) = history'[i]
      BY <1>0, <2>1 DEF CatalogAt
    <3> QED
      BY <1>1, <1>2, <3>1
  <2>2. CASE i = n + 1
    <3> DEFINE r == Result(c, n + 1, m, now)
               a == Applied(c, n + 1, m, now)
    <3>1. a.results = IF m.key = NoKey THEN c.results ELSE Put(c.results, m.key, r)
      BY AppliedResults
    <3>2. \A x \in {r} : Promised(m.key, x)'
      BY PromiseMade
    <3> HIDE DEF r, a
    <3>3. history'[i] = a
      BY <1>0, <2>2 DEF a
    <3> HIDE DEF c
    <3>4. \/ key = m.key /\ history'[i].results[key] = r
          \/ key \in DOMAIN c.results /\ history'[i].results[key] = c.results[key]
      BY <1>2, <3>1, <3>3 DEF Put
    <3>5. \A x \in {c.results[key]} : key \in DOMAIN c.results => Promised(key, x)'
      BY <1>0, <1>1 DEF c
    <3> QED
      BY <3>2, <3>4, <3>5
  <2> QED
    BY <2>1, <2>2
<1> QED
  BY <1>0, <1>2

\* --- The steps of the store ----------------------------------------------

\* The mutation with its time is one, whatever the caller set.
LEMMA StampedIsLogged ==
    ASSUME NEW m \in Submitted, clock \in Nat
    PROVE  /\ IsLogged(Logged(m))
           /\ clock # 0 => Logged(m).at # 0
           /\ Logged(m).op = m.op /\ Logged(m).kind = m.kind /\ Logged(m).id = m.id
           /\ Logged(m).data = m.data /\ Logged(m).expected = m.expected
           /\ Logged(m).key = m.key
<1>1. PICK kind \in Kinds : m \in Mutation(kind) /\ <<m.op, kind>> \in Types
  BY SubmittedAssumption
<1>2. Logged(m) = [op |-> m.op, kind |-> m.kind, id |-> m.id, data |-> m.data,
                   expected |-> m.expected, key |-> m.key,
                   at |-> IF m.at = 0 THEN clock ELSE m.at]
  BY <1>1 DEF Logged, Mutation
<1>3. Logged(m) \in Mutation(kind) /\ (clock # 0 => Logged(m).at # 0)
  BY <1>1, <1>2 DEF Mutation
<1>4. /\ Logged(m).op = m.op /\ Logged(m).kind = m.kind /\ Logged(m).id = m.id
      /\ Logged(m).data = m.data /\ Logged(m).expected = m.expected
      /\ Logged(m).key = m.key
  BY <1>2
<1> HIDE DEF Logged
<1> QED
  BY <1>1, <1>3, <1>4 DEF IsLogged

\* What Apply logs applies: preflight is as strict as the apply* functions.
LEMMA PreflightApplies ==
    ASSUME NEW m \in Submitted, clock \in Nat, NEW c, Preflight(c, m)
    PROVE  Applies(c, Logged(m))
<1>1. /\ Logged(m).op = m.op /\ Logged(m).kind = m.kind /\ Logged(m).id = m.id
      /\ Logged(m).data = m.data /\ Logged(m).expected = m.expected
  BY StampedIsLogged
<1> HIDE DEF Logged
<1> QED
  BY <1>1 DEF Preflight, Applies, References

LEMMA ReadyToLog ==
    ASSUME IdsAreText, TypeOK, MemorySound, NEW m \in Submitted, Ready(m)
    PROVE  /\ Loggable(Logged(m)) /\ OnDisk(Logged(m)) = Logged(m)
           /\ Logged(m).key = m.key
           /\ BodyWritten(Logged(m)) = BodyWritten(m)
           /\ catalog = CatalogAt(Len(log)) /\ durableSeq = Len(log)
           /\ clock \in Nat
           /\ Len(log) + 1 <= MaxSeq
<1>1. /\ durableSeq = Len(log) /\ catalog = CatalogAt(Len(log))
      /\ clock \in Nat \ {0} /\ Len(log) + 1 <= MaxSeq
  BY BoundsAssumption DEF TypeOK, MemorySound, Ready
<1>2. /\ IsLogged(Logged(m)) /\ Logged(m).at # 0
      /\ Logged(m).kind = m.kind /\ Logged(m).id = m.id /\ Logged(m).data = m.data
      /\ Logged(m).key = m.key
  BY <1>1, StampedIsLogged
<1>3. Applies(catalog, Logged(m))
  BY <1>1, PreflightApplies DEF Ready
<1> HIDE DEF Logged
<1>4. Logged(m).key \notin DOMAIN catalog.results
  BY <1>2 DEF Ready, Fresh
<1>5. OnDisk(Logged(m)) = Logged(m)
  BY <1>2, WrittenAsIs
<1> QED
  BY <1>1, <1>2, <1>3, <1>4, <1>5 DEF Loggable, BodyWritten

\* What Apply's two writes do to the invariant, whatever becomes of the process.
LEMMA WritesKeepInv ==
    ASSUME IdsAreText, CatInv, NEW m \in Submitted, Ready(m), AppendedToLog(m),
           bodies' = BodyWritten(m), snapshot' = snapshot
    PROVE  /\ HistorySound'
           /\ Len(log') = Len(log) + 1 /\ Len(log') \in 0..MaxSeq
           /\ \A i \in 1..Len(log') : IsLogged(log'[i]) /\ IsCatalog(history'[i])
           /\ Len(history') = Len(log')
           /\ log' = [i \in 1..Len(log') |-> log'[i]]
           /\ history' = [i \in 1..Len(log') |-> history'[i]]
           /\ snapshot'.seq \in 0..Len(log')
           /\ snapshot'.catalog = CatalogAt(snapshot.seq)'
           /\ DOMAIN bodies' \subseteq Ids
           /\ bodies' \in [DOMAIN bodies' -> Contents]
           /\ \A i \in {Len(log) + 1} :
                 CatalogAt(i)' = Applied(catalog, durableSeq + 1, Logged(m), clock)
           /\ \A a \in acked : Promised(a.key, a.result)'
           /\ \A i \in 1..Len(log') : \A key \in DOMAIN history'[i].results :
                 Promised(key, history[i].results[key])'
<1> DEFINE l == Logged(m)
<1>1. /\ Loggable(l) /\ OnDisk(l) = l /\ BodyWritten(l) = BodyWritten(m)
      /\ catalog = CatalogAt(Len(log)) /\ durableSeq = Len(log)
      /\ clock \in Nat /\ Len(log) + 1 <= MaxSeq
  BY ReadyToLog DEF CatInv
<1>2. Grown(l, clock)
  BY <1>1 DEF Grown, AppendedToLog
<1> HIDE DEF l
<1>3. /\ Len(log) \in Nat
      /\ Len(log') = Len(log) + 1 /\ Len(history') = Len(log')
      /\ log' = [i \in 1..Len(log') |-> log'[i]]
      /\ history' = [i \in 1..Len(log') |-> history'[i]]
      /\ \A i \in 0..Len(log) : CatalogAt(i)' = CatalogAt(i)
      /\ \A i \in 1..Len(log') : CatalogAt(i)' = history'[i]
      /\ history'[Len(log) + 1] = Applied(CatalogAt(Len(log)), Len(log) + 1, l, clock)
  BY <1>1, <1>2, GrownLog DEF CatInv
<1>4. /\ HistorySound'
      /\ \A i \in 1..Len(log') : IsLogged(log'[i]) /\ IsCatalog(history'[i])
  BY <1>1, <1>2, HistoryGrows DEF CatInv
<1>5. \A a \in acked : Promised(a.key, a.result)'
  BY <1>1, <1>2, PromisesStay DEF CatInv, PromisesSound, TypeOK
<1>6. \A i \in 1..Len(log') : \A key \in DOMAIN history'[i].results :
         Promised(key, history[i].results[key])'
  BY <1>1, <1>2, ResultsPromised DEF CatInv
<1>7. DOMAIN bodies' \subseteq Ids /\ bodies' \in [DOMAIN bodies' -> Contents]
  BY <1>1, <1>3, BodyIsNew DEF CatInv, Loggable
<1>8. /\ snapshot'.seq \in 0..Len(log')
      /\ snapshot'.catalog = CatalogAt(snapshot.seq)'
  <2>1. snapshot.seq \in 0..Len(log) /\ snapshot.catalog = CatalogAt(snapshot.seq)
    BY DEF CatInv, TypeOK, MemorySound
  <2>2. \A s \in {snapshot.seq} : CatalogAt(s)' = CatalogAt(s)
    BY <1>3, <2>1
  <2>3. snapshot'.seq = snapshot.seq
    OBVIOUS
  <2> QED
    BY <1>3, <2>1, <2>2, <2>3 DEF CatalogAt
<1>9. Len(log') \in 0..MaxSeq
  BY <1>1, <1>3, BoundsAssumption
<1>10. \A i \in {Len(log) + 1} :
          CatalogAt(i)' = Applied(catalog, durableSeq + 1, Logged(m), clock)
  BY <1>1, <1>3 DEF l
<1> QED
  BY <1>3, <1>4, <1>5, <1>6, <1>7, <1>8, <1>9, <1>10

\* --- The inductive invariant ---------------------------------------------

LEMMA InitInv ==
    Init => CatInv
<1> SUFFICES ASSUME Init PROVE CatInv
  OBVIOUS
<1>1. /\ Len(log) = 0 /\ Len(history) = 0
      /\ log = [i \in 1..Len(log) |-> log[i]]
      /\ history = [i \in 1..Len(log) |-> history[i]]
  BY DEF Init
<1>2. /\ DOMAIN bodies = {} /\ bodies \in [DOMAIN bodies -> Contents]
  BY DEF Init, EmptyMap
<1>3. /\ snapshot.seq = 0 /\ snapshot.catalog = EmptyCatalog /\ snapshot.readable
      /\ status = "down" /\ catalog = EmptyCatalog /\ index = IndexOf(EmptyCatalog)
      /\ durableSeq = 0 /\ replayAt = 1 /\ clock = 0 /\ acked = {}
  BY DEF Init
<1>4. CatalogAt(0) = EmptyCatalog
  BY DEF CatalogAt
<1>5. TypeOK
  BY <1>1, <1>2, <1>3, EmptySound, BoundsAssumption DEF TypeOK
<1>6. HistorySound /\ PromisesSound
  BY <1>1, <1>3 DEF HistorySound, PromisesSound
<1>7. MemorySound
  BY <1>3, <1>4, BoundsAssumption DEF MemorySound
<1> QED
  BY <1>5, <1>6, <1>7 DEF CatInv

\* The history and the promises are about the log, the bodies and acked.
LEMMA HistoryUntouched ==
    ASSUME CatInv, UNCHANGED <<log, history, bodies>>
    PROVE  /\ HistorySound'
           /\ \A i : CatalogAt(i)' = CatalogAt(i)
           /\ \A key, x : Promised(key, x)' <=> Promised(key, x)
           /\ UNCHANGED acked => PromisesSound'
<1>1. \A i : CatalogAt(i)' = CatalogAt(i)
  BY DEF CatalogAt
<1>2. \A key, x : Promised(key, x)' <=> Promised(key, x)
  BY DEF Promised, Standing
<1>3. UNCHANGED acked => PromisesSound'
  BY <1>2 DEF CatInv, PromisesSound
<1>4. HistorySound'
  BY <1>1 DEF CatInv, HistorySound, Embodied
<1> QED
  BY <1>1, <1>2, <1>3, <1>4

\* A body without a log entry disturbs nothing.
LEMMA OrphanBody ==
    ASSUME IdsAreText, CatInv, NEW m \in Submitted, Ready(m), bodies' = BodyWritten(m),
           UNCHANGED <<log, history, acked>>
    PROVE  /\ HistorySound' /\ PromisesSound'
           /\ \A i : CatalogAt(i)' = CatalogAt(i)
           /\ DOMAIN bodies' \subseteq Ids
           /\ bodies' \in [DOMAIN bodies' -> Contents]
<1>1. \A i : CatalogAt(i)' = CatalogAt(i)
  BY DEF CatalogAt
<1>2. \A key, x : Promised(key, x)' <=> Promised(key, x)
  BY DEF Promised, Standing
<1>3. PromisesSound'
  BY <1>2 DEF CatInv, PromisesSound
<1> DEFINE l == Logged(m)
<1>4. /\ IsLogged(l) /\ Applies(CatalogAt(Len(log)), l) /\ bodies' = BodyWritten(l)
  BY ReadyToLog DEF CatInv, Loggable
<1> HIDE DEF l
<1>5. Len(log) \in Nat
  BY DEF CatInv, TypeOK
<1>6. DOMAIN bodies' \subseteq Ids /\ bodies' \in [DOMAIN bodies' -> Contents]
  BY <1>4, <1>5, BodyIsNew DEF CatInv
<1>7. ASSUME NEW i \in 1..Len(log)
      PROVE  Embodied(history[i])'
  <2>1. \A id \in DOMAIN CatalogAt(i).entities["chunk"] :
           /\ id \in DOMAIN bodies'
           /\ bodies'[id] = CatalogAt(i).entities["chunk"][id].data.content
    BY <1>4, <1>5, BodyIsNew DEF CatInv
  <2>2. CatalogAt(i) = history[i]
    BY DEF CatalogAt
  <2> QED
    BY <2>1, <2>2 DEF Embodied
<1>8. HistorySound'
  BY <1>1, <1>7 DEF CatInv, HistorySound
<1> QED
  BY <1>1, <1>3, <1>6, <1>8

LEMMA StopInv ==
    ASSUME CatInv, Stop
    PROVE  CatInv'
<1>1. /\ status' = "down" /\ catalog' = EmptyCatalog /\ index' = IndexOf(EmptyCatalog)
      /\ durableSeq' = 0 /\ replayAt' = 1 /\ clock < MaxOpens
      /\ UNCHANGED <<log, snapshot, bodies, clock, history, acked>>
  BY DEF Stop, Forget, disk
<1>2. HistorySound' /\ PromisesSound' /\ \A i : CatalogAt(i)' = CatalogAt(i)
  BY <1>1, HistoryUntouched
<1>3. TypeOK'
  BY <1>1, EmptySound DEF CatInv, TypeOK
<1>4. CatalogAt(0) = EmptyCatalog
  BY DEF CatalogAt
<1>5. MemorySound'
  BY <1>1, <1>2, <1>4 DEF CatInv, MemorySound
<1> QED
  BY <1>2, <1>3, <1>5 DEF CatInv

LEMMA CrashInApplyInv ==
    ASSUME IdsAreText, CatInv, NEW m \in Submitted, CrashInApply(m)
    PROVE  CatInv'
<1>1. /\ status' = "down" /\ catalog' = EmptyCatalog /\ index' = IndexOf(EmptyCatalog)
      /\ durableSeq' = 0 /\ replayAt' = 1 /\ clock < MaxOpens
      /\ UNCHANGED <<snapshot, clock, acked>>
      /\ bodies' = BodyWritten(m) /\ Ready(m)
  BY DEF CrashInApply, Forget
<1>2. CatalogAt(0)' = EmptyCatalog
  BY DEF CatalogAt
<1>3. CASE AppendedToLog(m)
  <2>1. /\ HistorySound'
        /\ Len(log') = Len(log) + 1 /\ Len(log') \in 0..MaxSeq
        /\ \A i \in 1..Len(log') : IsLogged(log'[i]) /\ IsCatalog(history'[i])
        /\ Len(history') = Len(log')
        /\ log' = [i \in 1..Len(log') |-> log'[i]]
        /\ history' = [i \in 1..Len(log') |-> history'[i]]
        /\ snapshot'.seq \in 0..Len(log')
        /\ snapshot'.catalog = CatalogAt(snapshot.seq)'
        /\ DOMAIN bodies' \subseteq Ids
        /\ bodies' \in [DOMAIN bodies' -> Contents]
        /\ \A a \in acked : Promised(a.key, a.result)'
        /\ \A i \in 1..Len(log') : \A key \in DOMAIN history'[i].results :
              Promised(key, history[i].results[key])'
    BY <1>1, <1>3, WritesKeepInv
  <2>2. TypeOK'
    BY <1>1, <2>1, EmptySound DEF CatInv, TypeOK
  <2>3. MemorySound'
    BY <1>1, <1>2, <2>1 DEF CatInv, MemorySound
  <2>4. PromisesSound'
    BY <1>1, <2>1 DEF PromisesSound
  <2> QED
    BY <2>1, <2>2, <2>3, <2>4 DEF CatInv
<1>4. CASE UNCHANGED <<log, history>>
  <2>1. /\ HistorySound' /\ PromisesSound'
        /\ \A i : CatalogAt(i)' = CatalogAt(i)
        /\ DOMAIN bodies' \subseteq Ids
        /\ bodies' \in [DOMAIN bodies' -> Contents]
    BY <1>1, <1>4, OrphanBody
  <2>2. TypeOK'
    BY <1>1, <1>4, <2>1, EmptySound DEF CatInv, TypeOK
  <2>3. MemorySound'
    BY <1>1, <1>2, <1>4, <2>1 DEF CatInv, MemorySound
  <2> QED
    BY <2>1, <2>2, <2>3 DEF CatInv
<1> QED
  BY <1>1, <1>3, <1>4 DEF CrashInApply

LEMMA AppendFailsInv ==
    ASSUME IdsAreText, CatInv, NEW m \in Submitted, AppendFails(m)
    PROVE  CatInv'
<1>1. /\ UNCHANGED <<log, snapshot, status, catalog, index, durableSeq, replayAt, clock>>
      /\ UNCHANGED <<history, acked>>
      /\ bodies' = BodyWritten(m) /\ Ready(m)
  BY DEF AppendFails, memory
<1>2. /\ HistorySound' /\ PromisesSound'
      /\ \A i : CatalogAt(i)' = CatalogAt(i)
      /\ DOMAIN bodies' \subseteq Ids
      /\ bodies' \in [DOMAIN bodies' -> Contents]
  BY <1>1, OrphanBody
<1>3. TypeOK'
  BY <1>1, <1>2 DEF CatInv, TypeOK
<1>4. MemorySound'
  BY <1>1, <1>2 DEF CatInv, MemorySound
<1> QED
  BY <1>2, <1>3, <1>4 DEF CatInv

LEMMA ApplyInv ==
    ASSUME IdsAreText, CatInv, NEW m \in Submitted, Apply(m)
    PROVE  CatInv'
<1> DEFINE l == Logged(m)
           a == Applied(catalog, durableSeq + 1, l, clock)
           x == Result(catalog, durableSeq + 1, l, clock)
<1>0. /\ Ready(m) /\ bodies' = BodyWritten(m) /\ AppendedToLog(m)
      /\ UNCHANGED <<snapshot, status, replayAt, clock>>
  BY DEF Apply
<1>1. /\ Loggable(l) /\ OnDisk(l) = l /\ l.key = m.key /\ BodyWritten(l) = BodyWritten(m)
      /\ catalog = CatalogAt(Len(log)) /\ durableSeq = Len(log)
      /\ clock \in Nat
  BY <1>0, ReadyToLog DEF CatInv
<1>2. Applies(catalog, l) /\ IsLogged(l)
  BY <1>1 DEF Loggable
<1>3. /\ catalog' = a
      /\ index' = Reindexed(index, catalog, l, Entity(catalog, durableSeq + 1, l, clock).data)
      /\ durableSeq' = durableSeq + 1
      /\ acked' = acked \union {[key |-> m.key, result |-> x]}
  BY <1>2 DEF Apply, Materialize
<1>4. Grown(l, clock)
  BY <1>0, <1>1 DEF Grown, AppendedToLog
<1>5. \A y \in {x} : y \in ResultType /\ Promised(m.key, y)'
  BY <1>1, <1>4, PromiseMade DEF CatInv
<1>6. /\ HistorySound'
      /\ Len(log') = Len(log) + 1 /\ Len(log') \in 0..MaxSeq
      /\ \A i \in 1..Len(log') : IsLogged(log'[i]) /\ IsCatalog(history'[i])
      /\ Len(history') = Len(log')
      /\ log' = [i \in 1..Len(log') |-> log'[i]]
      /\ history' = [i \in 1..Len(log') |-> history'[i]]
      /\ snapshot'.seq \in 0..Len(log')
      /\ snapshot'.catalog = CatalogAt(snapshot.seq)'
      /\ DOMAIN bodies' \subseteq Ids
      /\ bodies' \in [DOMAIN bodies' -> Contents]
      /\ \A i \in {Len(log) + 1} : CatalogAt(i)' = a
      /\ \A p \in acked : Promised(p.key, p.result)'
      /\ \A i \in 1..Len(log') : \A key \in DOMAIN history'[i].results :
            Promised(key, history[i].results[key])'
  BY <1>0, WritesKeepInv
<1>7. IsCatalog(catalog) /\ Len(log) \in Nat /\ index = IndexOf(catalog)
  BY DEF CatInv, TypeOK, MemorySound
<1>8. IsCatalog(a)
  BY <1>1, <1>2, <1>7, AppliedIsCatalog
<1>9. index' = IndexOf(a)
  BY <1>1, <1>2, <1>3, <1>7, IndexFollows
<1>10. l.key \in Keys \union {NoKey}
  BY <1>2, LoggedKind
<1> HIDE DEF l, a, x
<1>11. /\ durableSeq' = Len(log') /\ durableSeq' \in 0..Len(log')
       /\ catalog' = CatalogAt(durableSeq)'
  <2>1. \A i \in {Len(log) + 1} : CatalogAt(i)' = a
    BY <1>6
  <2>2. durableSeq' = Len(log) + 1
    BY <1>1, <1>3
  <2> QED
    BY <1>3, <1>6, <1>7, <2>1, <2>2 DEF CatalogAt
<1>12. \A p \in acked' : p.key \in Keys \union {NoKey} /\ p.result \in ResultType
  BY <1>1, <1>3, <1>5, <1>10 DEF CatInv, TypeOK
<1>13. TypeOK'
  BY <1>0, <1>3, <1>6, <1>8, <1>11, <1>12 DEF CatInv, TypeOK
<1>14. MemorySound'
  BY <1>0, <1>3, <1>6, <1>9, <1>11 DEF CatInv, MemorySound, Ready
<1>15. PromisesSound'
  BY <1>3, <1>5, <1>6 DEF PromisesSound
<1> QED
  BY <1>6, <1>13, <1>14, <1>15 DEF CatInv

LEMMA ApplyIdempotentInv ==
    ASSUME CatInv, NEW key \in Keys, ApplyIdempotent(key)
    PROVE  CatInv'
<1> DEFINE x == catalog.results[key]
<1>1. /\ status = "up" /\ key \in DOMAIN catalog.results
      /\ acked' = acked \union {[key |-> key, result |-> x]}
      /\ UNCHANGED <<log, snapshot, bodies, status, catalog, index, durableSeq>>
      /\ UNCHANGED <<replayAt, clock, history>>
  BY DEF ApplyIdempotent, disk, memory
<1>2. /\ HistorySound'
      /\ \A i : CatalogAt(i)' = CatalogAt(i)
      /\ \A k, r : Promised(k, r)' <=> Promised(k, r)
  BY <1>1, HistoryUntouched
<1>3. IsCatalog(catalog) /\ catalog = CatalogAt(Len(log)) /\ Len(log) \in Nat
  BY <1>1 DEF CatInv, TypeOK, MemorySound
<1>4. x \in ResultType
  BY <1>1, <1>3 DEF IsCatalog
<1>5. catalog = history[Len(log)] /\ Len(log) \in 1..Len(log)
  BY <1>1, <1>3, EmptySound DEF CatalogAt
<1>6. Promised(key, x)
  BY <1>1, <1>5 DEF CatInv, PromisesSound
<1> HIDE DEF x
<1>7. TypeOK'
  BY <1>1, <1>4 DEF CatInv, TypeOK
<1>8. MemorySound'
  BY <1>1, <1>2 DEF CatInv, MemorySound
<1>9. PromisesSound'
  BY <1>1, <1>2, <1>6 DEF CatInv, PromisesSound
<1> QED
  BY <1>2, <1>7, <1>8, <1>9 DEF CatInv

LEMMA WriteSnapshotInv ==
    ASSUME IdsAreText, CatInv, WriteSnapshot
    PROVE  CatInv'
<1>1. /\ status = "up"
      /\ snapshot'.seq = durableSeq /\ snapshot'.catalog = catalog
      /\ snapshot'.readable = IsText(catalog)
      /\ UNCHANGED <<log, bodies, status, catalog, index, durableSeq, replayAt, clock>>
      /\ UNCHANGED <<history, acked>>
  BY DEF WriteSnapshot, SnapshotData, memory
<1>2. HistorySound' /\ PromisesSound' /\ \A i : CatalogAt(i)' = CatalogAt(i)
  BY <1>1, HistoryUntouched
<1>3. TypeOK'
  BY <1>1 DEF CatInv, TypeOK
<1>4. snapshot'.catalog = CatalogAt(snapshot.seq)' /\ snapshot'.readable
  BY <1>1, CatalogIsText DEF CatInv, MemorySound, CatalogAt, TypeOK
<1>5. MemorySound'
  BY <1>1, <1>2, <1>4 DEF CatInv, MemorySound
<1> QED
  BY <1>2, <1>3, <1>5 DEF CatInv

LEMMA OpenLoadInv ==
    ASSUME CatInv, OpenLoad
    PROVE  CatInv'
<1>1. /\ clock' = clock + 1 /\ status' = "loading"
      /\ catalog' = snapshot.catalog /\ index' = IndexOf(snapshot.catalog)
      /\ durableSeq' = snapshot.seq /\ replayAt' = 1
      /\ UNCHANGED <<log, snapshot, bodies, history, acked>>
  BY DEF OpenLoad, disk, CatInv, MemorySound
<1>2. HistorySound' /\ PromisesSound' /\ \A i : CatalogAt(i)' = CatalogAt(i)
  BY <1>1, HistoryUntouched
<1>3. /\ snapshot.seq \in 0..Len(log) /\ Len(log) \in Nat
      /\ snapshot.catalog = CatalogAt(snapshot.seq)
      /\ clock \in Nat /\ clock < MaxOpens
  BY BoundsAssumption DEF CatInv, TypeOK, MemorySound, OpenLoad
<1>4. IsCatalog(snapshot.catalog)
  BY <1>3, HistoryCatalogs DEF CatInv
<1>5. TypeOK'
  BY <1>1, <1>3, <1>4, BoundsAssumption DEF CatInv, TypeOK
<1>6. MemorySound'
  BY <1>1, <1>2, <1>3, BoundsAssumption DEF CatInv, MemorySound, TypeOK, CatalogAt
<1> QED
  BY <1>2, <1>5, <1>6 DEF CatInv

\* The entry that Open applies is the one after the catalog in memory, and it
\* comes to the catalog that the history has.
LEMMA ReplayEntryInv ==
    ASSUME CatInv, ReplayEntry
    PROVE  CatInv'
<1> DEFINE m == log[replayAt]
<1>1. /\ status = "loading" /\ replayAt \in 1..Len(log) /\ Len(log) \in Nat
      /\ replayAt' = replayAt + 1
      /\ UNCHANGED <<log, snapshot, bodies, clock, history, acked>>
  BY DEF ReplayEntry, disk, CatInv, TypeOK
<1>2. HistorySound' /\ PromisesSound' /\ \A i : CatalogAt(i)' = CatalogAt(i)
  BY <1>1, HistoryUntouched
<1>3. /\ replayAt <= durableSeq + 1 /\ durableSeq \in 0..Len(log)
      /\ catalog = CatalogAt(durableSeq) /\ index = IndexOf(catalog)
      /\ IsCatalog(catalog) /\ clock \in Nat
  BY <1>1, BoundsAssumption DEF CatInv, TypeOK, MemorySound
<1>4. CASE replayAt <= durableSeq
  <2>1. UNCHANGED <<status, catalog, index, durableSeq>>
    BY <1>4 DEF ReplayEntry
  <2>2. TypeOK'
    BY <1>1, <2>1 DEF CatInv, TypeOK
  <2>3. replayAt' <= durableSeq' + 1
    BY <1>1, <1>3, <1>4, <2>1
  <2>4. MemorySound'
    BY <1>1, <1>2, <2>1, <2>3 DEF CatInv, MemorySound, CatalogAt
  <2> QED
    BY <1>2, <2>2, <2>4 DEF CatInv
<1>5. CASE replayAt > durableSeq
  <2>1. replayAt = durableSeq + 1 /\ durableSeq = replayAt - 1
    BY <1>1, <1>3, <1>5
  <2>2. /\ m.at # 0 /\ Applies(catalog, m) /\ Fresh(m)
        /\ history[replayAt] = Applied(catalog, replayAt, m, 0)
    BY <1>1, <1>3, <2>1 DEF CatInv, HistorySound, Fresh
  <2>3. IsLogged(m) /\ IsCatalog(history[replayAt])
    BY <1>1 DEF CatInv, TypeOK
  <2>4. /\ catalog' = Applied(catalog, replayAt, m, clock)
        /\ index' = Reindexed(index, catalog, m, Entity(catalog, replayAt, m, clock).data)
        /\ durableSeq' = replayAt
        /\ UNCHANGED status
    BY <1>1, <1>3, <1>5, <2>2 DEF ReplayEntry, Materialize
  <2>5. Applied(catalog, replayAt, m, clock) = history[replayAt]
    BY <2>2, TimeIsLogged
  <2>6. index' = IndexOf(history[replayAt])
    BY <1>1, <1>3, <2>2, <2>3, <2>4, <2>5, IndexFollows
  <2>7. catalog' = history[replayAt]
    BY <2>4, <2>5
  <2> HIDE DEF m
  <2>8. TypeOK'
    BY <1>1, <2>3, <2>4, <2>7 DEF CatInv, TypeOK
  <2>9. history[replayAt] = CatalogAt(durableSeq)'
    BY <1>1, <2>4 DEF CatalogAt
  <2>10. snapshot'.catalog = CatalogAt(snapshot.seq)'
    BY <1>1, <1>2 DEF CatInv, MemorySound, CatalogAt
  <2>11. MemorySound'
    BY <1>1, <2>4, <2>6, <2>7, <2>9, <2>10 DEF CatInv, MemorySound
  <2> QED
    BY <1>2, <2>8, <2>11 DEF CatInv
<1> QED
  BY <1>1, <1>3, <1>4, <1>5

LEMMA OpenDoneInv ==
    ASSUME CatInv, OpenDone
    PROVE  CatInv'
<1>1. /\ status = "loading" /\ status' = "up" /\ replayAt > Len(log)
      /\ UNCHANGED <<log, snapshot, bodies, catalog, index, durableSeq, replayAt, clock>>
      /\ UNCHANGED <<history, acked>>
  BY DEF OpenDone, disk
<1>2. HistorySound' /\ PromisesSound' /\ \A i : CatalogAt(i)' = CatalogAt(i)
  BY <1>1, HistoryUntouched
<1>3. TypeOK'
  BY <1>1 DEF CatInv, TypeOK
<1>4. durableSeq = Len(log)
  BY <1>1 DEF CatInv, TypeOK, MemorySound
<1>5. /\ snapshot'.catalog = CatalogAt(snapshot.seq)'
      /\ catalog' = CatalogAt(durableSeq)'
  BY <1>1, <1>2 DEF CatInv, MemorySound, CatalogAt
<1>6. MemorySound'
  BY <1>1, <1>4, <1>5 DEF CatInv, MemorySound
<1> QED
  BY <1>2, <1>3, <1>6 DEF CatInv

LEMMA StutterInv ==
    ASSUME CatInv, UNCHANGED vars
    PROVE  CatInv'
<1>1. /\ UNCHANGED <<log, snapshot, bodies, status, catalog, index, durableSeq>>
      /\ UNCHANGED <<replayAt, clock, history, acked>>
  BY DEF vars, disk, memory
<1>2. HistorySound' /\ PromisesSound' /\ \A i : CatalogAt(i)' = CatalogAt(i)
  BY <1>1, HistoryUntouched
<1>3. TypeOK'
  BY <1>1 DEF CatInv, TypeOK
<1>4. /\ snapshot'.catalog = CatalogAt(snapshot.seq)'
      /\ catalog' = CatalogAt(durableSeq)'
  BY <1>1 DEF CatInv, MemorySound, CatalogAt
<1>5. MemorySound'
  BY <1>1, <1>4 DEF CatInv, MemorySound
<1> QED
  BY <1>2, <1>3, <1>5 DEF CatInv

LEMMA NextInv ==
    ASSUME IdsAreText
    PROVE  CatInv /\ [Next]_vars => CatInv'
<1> SUFFICES ASSUME CatInv, [Next]_vars PROVE CatInv'
  OBVIOUS
<1>1. ASSUME NEW m \in Submitted, Apply(m)
      PROVE  CatInv'
  BY <1>1, ApplyInv
<1>2. ASSUME NEW m \in Submitted, AppendFails(m)
      PROVE  CatInv'
  BY <1>2, AppendFailsInv
<1>3. ASSUME NEW m \in Submitted, CrashInApply(m)
      PROVE  CatInv'
  BY <1>3, CrashInApplyInv
<1>4. ASSUME NEW key \in Keys, ApplyIdempotent(key)
      PROVE  CatInv'
  BY <1>4, ApplyIdempotentInv
<1>5. CASE WriteSnapshot
  BY <1>5, WriteSnapshotInv
<1>6. CASE Stop
  BY <1>6, StopInv
<1>7. CASE OpenLoad
  BY <1>7, OpenLoadInv
<1>8. CASE ReplayEntry
  BY <1>8, ReplayEntryInv
<1>9. CASE OpenDone
  BY <1>9, OpenDoneInv
<1>10. CASE UNCHANGED vars
  BY <1>10, StutterInv
<1> QED
  BY <1>1, <1>2, <1>3, <1>4, <1>5, <1>6, <1>7, <1>8, <1>9, <1>10 DEF Next

\* The invariant holds of every reachable state, for any ids, labels, contents,
\* keys and mutations, logs and restarts of any number.
THEOREM CatalogInvariant ==
    ASSUME IdsAreText
    PROVE  Spec => []CatInv
<1> QED
  BY InitInv, NextInv, PTL DEF Spec

\* --- The memory, for ids of any bytes ------------------------------------

LEMMA LiveInit ==
    Init => LiveInv
<1> SUFFICES ASSUME Init PROVE LiveInv
  OBVIOUS
<1>1. Len(log) = 0 /\ log = [i \in 1..Len(log) |-> log[i]]
  BY DEF Init
<1>2. /\ snapshot.seq = 0 /\ snapshot.catalog = EmptyCatalog
      /\ catalog = EmptyCatalog /\ index = IndexOf(EmptyCatalog)
      /\ durableSeq = 0 /\ replayAt = 1 /\ clock = 0
  BY DEF Init
<1> QED
  BY <1>1, <1>2, EmptySound DEF LiveInv

\* What LiveInv says of the log after Apply has appended to it.
LEMMA LiveAppend ==
    ASSUME LiveInv, NEW m \in Submitted, AppendedToLog(m)
    PROVE  /\ Len(log') \in Nat
           /\ log' = [i \in 1..Len(log') |-> log'[i]]
           /\ \A i \in 1..Len(log') : IsLogged(log'[i])
<1> DEFINE e == OnDisk(Logged(m))
           n == Len(log)
<1>1. clock \in Nat /\ n \in Nat
  BY DEF LiveInv
<1>2. IsLogged(e)
  BY <1>1, StampedIsLogged, ReadBackIsLogged
<1>3. log' = Append(log, e)
  BY DEF AppendedToLog
<1> HIDE DEF e
<1>4. /\ Len(log') = n + 1
      /\ log' = [i \in 1..(n + 1) |-> log'[i]]
      /\ log'[n + 1] = e
      /\ \A i \in 1..n : log'[i] = log[i]
  BY <1>1, <1>3, Appended DEF LiveInv
<1> QED
  BY <1>1, <1>2, <1>4 DEF LiveInv

\* A mutation that applies leaves the memory as LiveInv says, under any seq.
LEMMA LiveMaterialize ==
    ASSUME LiveInv, NEW m, IsLogged(m), Applies(catalog, m), NEW seq \in Nat,
           Materialize(seq, m)
    PROVE  /\ IsCatalog(catalog') /\ Resolved(catalog')
           /\ index' = IndexOf(catalog')
           /\ durableSeq' = seq
<1>1. /\ IsCatalog(catalog) /\ Resolved(catalog) /\ index = IndexOf(catalog)
      /\ clock \in Nat
  BY DEF LiveInv
<1>2. /\ catalog' = Applied(catalog, seq, m, clock)
      /\ index' = Reindexed(index, catalog, m, Entity(catalog, seq, m, clock).data)
      /\ durableSeq' = seq
  BY DEF Materialize
<1>3. IsCatalog(catalog')
  BY <1>1, <1>2, AppliedIsCatalog
<1>4. Resolved(catalog')
  BY <1>1, <1>2, ResolvedStays
<1>5. index' = IndexOf(catalog')
  BY <1>1, <1>2, IndexFollows
<1> QED
  BY <1>2, <1>3, <1>4, <1>5

\* A process that has gone leaves an empty memory.
LEMMA LiveForget ==
    ASSUME Forget
    PROVE  /\ IsCatalog(catalog') /\ Resolved(catalog')
           /\ index' = IndexOf(catalog')
           /\ {durableSeq', replayAt'} \subseteq Nat /\ replayAt' # 0
<1>1. /\ catalog' = EmptyCatalog /\ index' = IndexOf(EmptyCatalog)
      /\ durableSeq' = 0 /\ replayAt' = 1
  BY DEF Forget
<1> QED
  BY <1>1, EmptySound

LEMMA LiveStep ==
    LiveInv /\ [Next]_vars => LiveInv'
<1> SUFFICES ASSUME LiveInv, [Next]_vars PROVE LiveInv'
  OBVIOUS
<1>0. /\ Len(log) \in Nat /\ log = [i \in 1..Len(log) |-> log[i]]
      /\ \A i \in 1..Len(log) : IsLogged(log[i])
      /\ IsCatalog(catalog) /\ Resolved(catalog)
      /\ IsCatalog(snapshot.catalog) /\ Resolved(snapshot.catalog)
      /\ index = IndexOf(catalog)
      /\ snapshot.seq \in Nat /\ durableSeq \in Nat /\ clock \in Nat
      /\ replayAt \in Nat /\ replayAt # 0
  BY DEF LiveInv
<1>1. ASSUME NEW m \in Submitted, Apply(m)
      PROVE  LiveInv'
  <2>1. /\ Preflight(catalog, m) /\ AppendedToLog(m)
        /\ UNCHANGED <<snapshot, replayAt, clock>>
    BY <1>1 DEF Apply, Ready
  <2>2. /\ Len(log') \in Nat /\ log' = [i \in 1..Len(log') |-> log'[i]]
        /\ \A i \in 1..Len(log') : IsLogged(log'[i])
    BY <2>1, LiveAppend
  <2>3. IsLogged(Logged(m)) /\ Applies(catalog, Logged(m))
    BY <1>0, <2>1, StampedIsLogged, PreflightApplies
  <2>4. Materialize(durableSeq + 1, Logged(m))
    BY <1>1, <2>3 DEF Apply
  <2>5. /\ IsCatalog(catalog') /\ Resolved(catalog') /\ index' = IndexOf(catalog')
        /\ durableSeq' = durableSeq + 1
    BY <1>0, <2>3, <2>4, LiveMaterialize
  <2> QED
    BY <1>0, <2>1, <2>2, <2>5 DEF LiveInv
<1>2. ASSUME NEW m \in Submitted, AppendFails(m)
      PROVE  LiveInv'
  BY <1>0, <1>2 DEF AppendFails, memory, LiveInv
<1>3. ASSUME NEW m \in Submitted, CrashInApply(m)
      PROVE  LiveInv'
  <2>1. Forget /\ UNCHANGED <<snapshot, clock>>
    BY <1>3 DEF CrashInApply
  <2>2. /\ Len(log') \in Nat /\ log' = [i \in 1..Len(log') |-> log'[i]]
        /\ \A i \in 1..Len(log') : IsLogged(log'[i])
    <3>1. CASE AppendedToLog(m)
      BY <3>1, LiveAppend
    <3>2. CASE UNCHANGED log
      BY <1>0, <3>2
    <3> QED
      BY <1>3, <3>1, <3>2 DEF CrashInApply
  <2> QED
    BY <1>0, <2>1, <2>2, LiveForget DEF LiveInv
<1>4. ASSUME NEW key \in Keys, ApplyIdempotent(key)
      PROVE  LiveInv'
  BY <1>0, <1>4 DEF ApplyIdempotent, disk, memory, LiveInv
<1>5. CASE WriteSnapshot
  <2>1. snapshot'.seq = durableSeq /\ snapshot'.catalog = catalog
    BY <1>5 DEF WriteSnapshot, SnapshotData
  <2>2. UNCHANGED <<log, catalog, index, durableSeq, replayAt, clock>>
    BY <1>5 DEF WriteSnapshot, memory
  <2> QED
    BY <1>0, <2>1, <2>2 DEF LiveInv
<1>6. CASE Stop
  <2>1. Forget /\ UNCHANGED <<log, snapshot, clock>>
    BY <1>6 DEF Stop, disk
  <2> QED
    BY <1>0, <2>1, LiveForget DEF LiveInv
<1>7. CASE OpenLoad
  <2>1. /\ clock' = clock + 1 /\ replayAt' = 1 /\ UNCHANGED <<log, snapshot>>
        /\ \/ /\ catalog' = snapshot.catalog /\ index' = IndexOf(snapshot.catalog)
              /\ durableSeq' = snapshot.seq
           \/ UNCHANGED <<catalog, index, durableSeq>>
    BY <1>7 DEF OpenLoad, disk
  <2> QED
    BY <1>0, <2>1 DEF LiveInv
<1>8. CASE ReplayEntry
  <2> DEFINE m == log[replayAt]
  <2>1. /\ replayAt \in 1..Len(log) /\ replayAt' = replayAt + 1
        /\ UNCHANGED <<log, snapshot, clock>>
        /\ \/ Applies(catalog, m) /\ Materialize(replayAt, m)
           \/ UNCHANGED <<catalog, index, durableSeq>>
    BY <1>0, <1>8 DEF ReplayEntry, disk
  <2>2. IsLogged(m)
    BY <1>0, <2>1
  <2> HIDE DEF m
  <2>3. /\ IsCatalog(catalog') /\ Resolved(catalog') /\ index' = IndexOf(catalog')
        /\ durableSeq' \in Nat
    BY <1>0, <2>1, <2>2, LiveMaterialize
  <2> QED
    BY <1>0, <2>1, <2>3 DEF LiveInv
<1>9. CASE OpenDone
  BY <1>0, <1>9 DEF OpenDone, disk, LiveInv
<1>10. CASE UNCHANGED vars
  BY <1>0, <1>10 DEF vars, disk, memory, LiveInv
<1> QED
  BY <1>1, <1>2, <1>3, <1>4, <1>5, <1>6, <1>7, <1>8, <1>9, <1>10 DEF Next

\* Whatever bytes the ids are of, and whatever became of them on disk, the
\* catalog in memory is well formed, refers to what is there and is indexed.
THEOREM LiveInvariant ==
    Spec => []LiveInv
<1> QED
  BY LiveInit, LiveStep, PTL DEF Spec

\* --- What follows --------------------------------------------------------

\* Open never gives up on what Apply has logged.
THEOREM ReplaySafe ==
    ASSUME IdsAreText
    PROVE  Spec => []ReplaySucceeds
<1>1. CatInv => ReplaySucceeds
  BY DEF CatInv, HistorySound, MemorySound, ReplaySucceeds, Reopens
<1> QED
  BY <1>1, CatalogInvariant, PTL

\* Snapshot and replay rebuild the catalog that calls were answered from.
THEOREM RebuildSafe ==
    ASSUME IdsAreText
    PROVE  Spec => []ReplayRebuilds
<1>1. CatInv => ReplayRebuilds
  BY DEF CatInv, MemorySound, ReplayRebuilds
<1> QED
  BY <1>1, CatalogInvariant, PTL

LEMMA LiveCatalog ==
    ASSUME LiveInv
    PROVE  IsCatalog(catalog) /\ Resolved(catalog)
  BY DEF LiveInv

\* Edges and spans never refer to something that was never there.
THEOREM ReferencesSafe ==
    Spec => []ReferencesResolve
<1>1. LiveInv => ReferencesResolve
  BY LiveCatalog DEF ReferencesResolve
<1> QED
  BY <1>1, LiveInvariant, PTL

\* Every chunk has the body that its hash was taken of.
THEOREM BodiesSafe ==
    ASSUME IdsAreText
    PROVE  Spec => []BodiesMatch
<1>1. CatInv => BodiesMatch
  <2> SUFFICES ASSUME CatInv PROVE Embodied(catalog)
    BY DEF BodiesMatch
  <2>1. durableSeq \in 0..Len(log) /\ catalog = CatalogAt(durableSeq)
    BY DEF CatInv, TypeOK, MemorySound
  <2> QED
    BY <2>1, HistoryCatalogs DEF CatInv
<1> QED
  BY <1>1, CatalogInvariant, PTL

LEMMA SameRevision ==
    ASSUME CatInv, NEW a \in acked, NEW b \in acked,
           a.result.kind = b.result.kind, a.result.id = b.result.id,
           a.result.revision = b.result.revision,
           a.result.seq <= b.result.seq
    PROVE  a.result.seq = b.result.seq
<1> DEFINE x == a.result
           y == b.result
           f == history[y.seq].entities[y.kind]
<1>1. /\ x.seq \in 1..Len(log) /\ y.seq \in 1..Len(log) /\ Len(log) \in Nat
      /\ x.revision \in Nat
  BY DEF CatInv, PromisesSound, Promised, TypeOK, ResultType
<1>2. /\ \A i \in x.seq..Len(log) : Standing(i, x)
      /\ \A i \in y.seq..Len(log) : Standing(i, y)
  BY DEF CatInv, PromisesSound, Promised
<1>3. Standing(y.seq, x) /\ Standing(y.seq, y)
  BY <1>1, <1>2
<1> HIDE DEF x, y
<1>4. f[y.id].revision = y.revision /\ f[y.id].updated = y.seq
  <2>1. ~(y.seq > y.seq)
    BY <1>1
  <2> QED
    BY <1>3, <2>1 DEF Standing
<1>5. x.kind = y.kind /\ x.id = y.id /\ x.revision = y.revision
  BY DEF x, y
<1>6. f[y.id].updated = x.seq
  <2>1. ~(y.revision > x.revision)
    BY <1>1, <1>5
  <2> QED
    BY <1>3, <1>4, <1>5, <2>1 DEF Standing
<1> QED
  BY <1>4, <1>6 DEF x, y

\* A revision of an entity is handed out once.
THEOREM RevisionsSafe ==
    ASSUME IdsAreText
    PROVE  Spec => []RevisionsNeverReissued
<1>1. CatInv => RevisionsNeverReissued
  <2> SUFFICES ASSUME CatInv, NEW a \in acked, NEW b \in acked,
                      a.result.kind = b.result.kind, a.result.id = b.result.id,
                      a.result.revision = b.result.revision
               PROVE  a.result.seq = b.result.seq
    BY DEF RevisionsNeverReissued
  <2>1. a.result.seq \in Int /\ b.result.seq \in Int
    BY DEF CatInv, TypeOK, ResultType
  <2> QED
    BY <2>1, SameRevision
<1> QED
  BY <1>1, CatalogInvariant, PTL

\* Every call with the same key gets the same result.
THEOREM RetriesSafe ==
    ASSUME IdsAreText
    PROVE  Spec => []RetriesAgree
<1>1. CatInv => RetriesAgree
  <2> SUFFICES ASSUME CatInv, NEW a \in acked, NEW b \in acked,
                      a.key = b.key, a.key # NoKey
               PROVE  a.result = b.result
    BY DEF RetriesAgree
  <2>1. /\ a.result.seq \in 1..Len(log) /\ b.result.seq \in 1..Len(log)
        /\ Len(log) \in Nat
    BY DEF CatInv, PromisesSound, Promised, TypeOK
  <2>2. Len(log) \in a.result.seq..Len(log) /\ Len(log) \in b.result.seq..Len(log)
    BY <2>1
  <2> QED
    BY <2>2 DEF CatInv, PromisesSound, Promised
<1> QED
  BY <1>1, CatalogInvariant, PTL

-----------------------------------------------------------------------------
(***************************************************************************)
(* What the indexes answer.                                                *)
(***************************************************************************)
\* A term leads to the entities that have it.
LEMMA IndexAnswers ==
    ASSUME LiveInv, NEW kind \in Kinds, NEW t, NEW id
    PROVE  <<t, id>> \in index[kind] <=>
              /\ id \in DOMAIN catalog.entities[kind]
              /\ t \in Terms(kind, catalog.entities[kind][id].data)
<1>1. index = IndexOf(catalog)
  BY DEF LiveInv
<1>2. <<t, id>> \in index[kind] <=>
         \E i \in DOMAIN catalog.entities[kind] :
            <<t, id>> \in Postings(kind, i, catalog.entities[kind][i].data)
  BY <1>1, IndexMember
<1> QED
  BY <1>2 DEF Postings

LEMMA CandidatesAnswer ==
    ASSUME LiveInv, NEW kind \in Kinds, NEW terms
    PROVE  Candidates(kind, terms) =
              {id \in DOMAIN catalog.entities[kind] :
                  terms \subseteq Terms(kind, catalog.entities[kind][id].data)}
<1>1. DOMAIN catalog.entities[kind] \subseteq Ids
  BY LiveCatalog DEF IsCatalog
<1>2. CASE terms = {}
  BY <1>2 DEF Candidates
<1>3. CASE terms # {}
  <2>1. \A id : (\A t \in terms : <<t, id>> \in index[kind]) <=>
                   /\ id \in DOMAIN catalog.entities[kind]
                   /\ terms \subseteq Terms(kind, catalog.entities[kind][id].data)
    BY <1>3, IndexAnswers
  <2>2. Candidates(kind, terms) =
           {id \in Ids : \A t \in terms : <<t, id>> \in index[kind]}
    BY <1>3 DEF Candidates
  <2> QED
    BY <1>1, <2>1, <2>2
<1> QED
  BY <1>2, <1>3

\* Queries through the indexes give what a scan of the catalog would.
THEOREM QueriesSafe ==
    Spec => []QueriesAgree
<1>1. LiveInv => QueriesAgree
  <2> SUFFICES ASSUME LiveInv, NEW labels \in SUBSET Labels
        PROVE LET records == catalog.entities["record"]
                  chunks == catalog.entities["chunk"]
                  spans == catalog.entities["span"]
              IN /\ Candidates("record", labels) =
                       {id \in DOMAIN records : labels \subseteq records[id].data.labels}
                 /\ \A all \in BOOLEAN :
                       QueryRecords(labels, all) =
                          {id \in DOMAIN records :
                              /\ labels \subseteq records[id].data.labels
                              /\ all \/ ~records[id].deleted}
                 /\ QueryChunks(labels) =
                       {id \in DOMAIN chunks : labels \subseteq chunks[id].data.labels}
                 /\ \A record \in Ids :
                       /\ QuerySourceSpans(labels \union {record}) =
                             {id \in DOMAIN spans :
                                 /\ labels \subseteq spans[id].data.labels
                                 /\ record = spans[id].data.record}
                       /\ SpansOf(record) =
                             {id \in DOMAIN spans : record = spans[id].data.record}
    BY DEF QueriesAgree
  <2> DEFINE spans == catalog.entities["span"]
  <2>1. /\ \A d : Terms("record", d) = d.labels /\ Terms("chunk", d) = d.labels
        /\ \A d : Terms("span", d) = d.labels \union {d.record}
    BY DEF Terms, RecordTerms, ChunkTerms, SpanTerms
  <2>2. Candidates("record", labels) =
           {id \in DOMAIN catalog.entities["record"] :
               labels \subseteq catalog.entities["record"][id].data.labels}
    BY <2>1, CandidatesAnswer DEF Kinds
  <2>3. Candidates("chunk", labels) =
           {id \in DOMAIN catalog.entities["chunk"] :
               labels \subseteq catalog.entities["chunk"][id].data.labels}
    BY <2>1, CandidatesAnswer DEF Kinds
  <2>4. ASSUME NEW id \in DOMAIN spans
        PROVE  spans[id].data.labels \subseteq Labels /\ spans[id].data.record \in Ids
    <3>1. spans[id] \in EntityOf("span")
      BY <2>4, LiveCatalog DEF IsCatalog, Kinds
    <3> QED
      BY <3>1 DEF EntityOf, Data
  <2>5. ASSUME NEW record \in Ids
        PROVE  /\ QuerySourceSpans(labels \union {record}) =
                     {id \in DOMAIN spans : /\ labels \subseteq spans[id].data.labels
                                            /\ record = spans[id].data.record}
               /\ SpansOf(record) =
                     {id \in DOMAIN spans : record = spans[id].data.record}
    <3>1. \A id \in DOMAIN spans :
             labels \union {record} \subseteq SpanTerms(spans[id].data) <=>
                 labels \subseteq spans[id].data.labels /\ record = spans[id].data.record
      BY <2>4, LabelsAssumption DEF SpanTerms
    <3>2. Candidates("span", labels \union {record}) =
             {id \in DOMAIN spans :
                 labels \union {record} \subseteq SpanTerms(spans[id].data)}
      BY <2>1, CandidatesAnswer DEF Kinds, SpanTerms
    <3>3. QuerySourceSpans(labels \union {record}) =
             {id \in DOMAIN spans :
                 labels \union {record} \subseteq SpanTerms(spans[id].data)}
      BY <3>2 DEF QuerySourceSpans
    <3>4. \A id \in DOMAIN spans :
             <<record, id>> \in index["span"] <=> record = spans[id].data.record
      BY <2>1, <2>4, IndexAnswers, LabelsAssumption DEF Kinds
    <3> QED
      BY <3>1, <3>3, <3>4 DEF SpansOf
  <2> QED
    BY <2>2, <2>3, <2>5 DEF QueryRecords, QueryChunks
<1> QED
  BY <1>1, LiveInvariant, PTL

\* The adjacency indexes lead to the edges at a node.
LEMMA AdjacentAnswers ==
    ASSUME LiveInv, NEW node, NEW dir \in {"outgoing", "incoming"}
    PROVE  LET edges == catalog.entities["edge"]
           IN Adjacent(dir, node) =
                 {id \in DOMAIN edges :
                     node = IF dir = "outgoing" THEN edges[id].data.from
                                                ELSE edges[id].data.to}
<1> DEFINE edges == catalog.entities["edge"]
<1>1. \A id : <<<<dir, node>>, id>> \in index["edge"] <=>
                 /\ id \in DOMAIN edges
                 /\ <<dir, node>> \in Terms("edge", edges[id].data)
  BY IndexAnswers DEF Kinds
<1>2. \A d : <<dir, node>> \in Terms("edge", d) <=>
                node = IF dir = "outgoing" THEN d.from ELSE d.to
  BY DEF Terms, EdgeTerms
<1>3. DOMAIN edges \subseteq Ids
  BY LiveCatalog DEF IsCatalog, Kinds
<1> QED
  BY <1>1, <1>2, <1>3 DEF Adjacent

\* Traversals miss no edge and show none that they should not.
THEOREM TraversalsSafe ==
    Spec => []TraversalsAgree
<1>1. LiveInv => TraversalsAgree
  <2> SUFFICES ASSUME LiveInv PROVE TraversalsAgree
    OBVIOUS
  <2> DEFINE edges == catalog.entities["edge"]
             nodes == catalog.entities["node"]
             Near(dir, id) == IF dir = "outgoing" THEN edges[id].data.from
                              ELSE edges[id].data.to
             Shown(all, e) == all \/ ~e.deleted
  <2>1. \A id \in DOMAIN edges :
           edges[id].data.from \in DOMAIN nodes /\ edges[id].data.to \in DOMAIN nodes
    BY LiveCatalog DEF Resolved
  <2>2. \A dir \in {"outgoing", "incoming"} : \A id \in DOMAIN edges :
           Far(dir, id) \in DOMAIN nodes
    BY <2>1 DEF Far
  <2>3. \A node : \A dir \in {"outgoing", "incoming"} :
           Adjacent(dir, node) = {id \in DOMAIN edges : node = Near(dir, id)}
    BY AdjacentAnswers
  <2>4. ASSUME NEW node \in Ids, NEW all \in BOOLEAN,
               NEW dir \in {"outgoing", "incoming"}
        PROVE  Traverse(dir, node, all) =
                  {<<id, Far(dir, id)>> : id \in
                      {i \in DOMAIN edges : /\ node = Near(dir, i)
                                            /\ Shown(all, edges[i])
                                            /\ Shown(all, nodes[Far(dir, i)])}}
    BY <2>2, <2>3 DEF Traverse
  <2>5. ASSUME NEW node \in Ids, NEW all \in BOOLEAN,
               NEW dirs \in SUBSET {"outgoing", "incoming"}
        PROVE  QueryNodes({}, node, dirs, all) =
                  {id \in DOMAIN nodes :
                      /\ Shown(all, nodes[id])
                      /\ \E e \in DOMAIN edges, dir \in dirs :
                            /\ Shown(all, edges[e])
                            /\ node = Near(dir, e)
                            /\ id = Far(dir, e)}
    <3>1. ASSUME NEW id
          PROVE  RelatedEdges(node, id, dirs, all) # {} <=>
                    \E e \in DOMAIN edges, dir \in dirs :
                       /\ Shown(all, edges[e])
                       /\ node = Near(dir, e)
                       /\ id = Far(dir, e)
      <4>1. RelatedEdges(node, id, dirs, all) # {} <=>
               \E dir \in dirs : \E e \in Adjacent(dir, node) :
                  Far(dir, e) = id /\ (all \/ ~edges[e].deleted)
        BY DEF RelatedEdges
      <4> QED
        BY <2>3, <4>1
    <3> QED
      BY <3>1 DEF QueryNodes
  <2> QED
    BY <2>4, <2>5 DEF TraversalsAgree
<1> QED
  BY <1>1, LiveInvariant, PTL
=============================================================================
