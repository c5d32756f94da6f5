----------------------------- MODULE CatalogInv -----------------------------
(***************************************************************************)
(* The inductive invariant of Catalog.  It says of every catalog in the    *)
(* history what the properties say of the live one.                        *)
(***************************************************************************)
EXTENDS Catalog

EntityOf(kind) ==
    [data : Data(kind), revision : Nat \ {0}, deleted : BOOLEAN,
     created : Nat, updated : Nat, at : Nat]
ResultType == [kind : Kinds, id : Ids, seq : Nat, revision : Nat]

IsCatalog(c) ==
    /\ c = [entities |-> c.entities, results |-> c.results]
    /\ c.entities = [k \in Kinds |-> c.entities[k]]
    /\ \A k \in Kinds : /\ DOMAIN c.entities[k] \subseteq Ids
                        /\ c.entities[k] \in [DOMAIN c.entities[k] -> EntityOf(k)]
    /\ DOMAIN c.results \subseteq Keys
    /\ c.results \in [DOMAIN c.results -> ResultType]

IsLogged(m) == \E kind \in Kinds : m \in Mutation(kind) /\ <<m.op, kind>> \in Types

TypeOK ==
    /\ Len(log) \in 0..MaxSeq
    /\ \A i \in 1..Len(log) : IsLogged(log[i]) /\ IsCatalog(history[i])
    /\ Len(history) = Len(log)
    /\ log = [i \in 1..Len(log) |-> log[i]]
    /\ history = [i \in 1..Len(log) |-> history[i]]
    /\ snapshot.seq \in 0..Len(log)
    /\ DOMAIN bodies \subseteq Ids
    /\ bodies \in [DOMAIN bodies -> Contents]
    /\ status \in {"down", "loading", "up", "failed"}
    /\ IsCatalog(catalog)
    /\ durableSeq \in 0..Len(log)
    /\ replayAt \in 1..(Len(log) + 1)
    /\ clock \in 0..MaxOpens
    /\ \A a \in acked : a.key \in Keys \union {NoKey} /\ a.result \in ResultType

\* Every entry of the log applies to the catalog before it, and history is what
\* comes of it; nothing in it depends on the clock.
HistorySound ==
    \A i \in 1..Len(log) :
        /\ log[i].at # 0
        /\ Applies(CatalogAt(i - 1), log[i])
        /\ log[i].key \notin DOMAIN CatalogAt(i - 1).results
        /\ history[i] = Applied(CatalogAt(i - 1), i, log[i], 0)
        /\ Resolved(history[i])
        /\ Embodied(history[i])
        /\ DOMAIN history[i].entities["chunk"] \subseteq
              DOMAIN CatalogAt(Len(log)).entities["chunk"]

\* What is in memory and in the snapshot is a point of the history.
MemorySound ==
    /\ snapshot.catalog = CatalogAt(snapshot.seq)
    /\ snapshot.readable
    /\ status # "failed"
    /\ catalog = CatalogAt(durableSeq)
    /\ index = IndexOf(catalog)
    /\ status = "loading" => replayAt <= durableSeq + 1
    /\ status = "up" => durableSeq = Len(log)
    /\ status # "down" => clock # 0
    /\ status = "down" => clock < MaxOpens

\* Result x was the truth at its seq, and its revision never comes back.
Standing(i, x) ==
    LET f == history[i].entities[x.kind] IN
    /\ x.id \in DOMAIN f
    /\ \/ f[x.id].revision = x.revision /\ f[x.id].updated = x.seq
       \/ i > x.seq /\ f[x.id].revision > x.revision

Promised(key, x) ==
    /\ x.seq \in 1..Len(log)
    /\ \A i \in x.seq..Len(log) :
          /\ Standing(i, x)
          /\ key # NoKey => /\ key \in DOMAIN history[i].results
                            /\ history[i].results[key] = x

PromisesSound ==
    /\ \A a \in acked : Promised(a.key, a.result)
    /\ \A i \in 1..Len(log) : \A key \in DOMAIN history[i].results :
          Promised(key, history[i].results[key])

CatInv ==
    /\ TypeOK
    /\ HistorySound
    /\ MemorySound
    /\ PromisesSound

-----------------------------------------------------------------------------
\* What holds of the memory for any ids, text or not: whatever became of it on
\* disk, a catalog is well formed, refers to what is there, and is indexed.
LiveInv ==
    /\ Len(log) \in Nat
    /\ log = [i \in 1..Len(log) |-> log[i]]
    /\ \A i \in 1..Len(log) : IsLogged(log[i])
    /\ \A c \in {catalog, snapshot.catalog} : IsCatalog(c) /\ Resolved(c)
    /\ index = IndexOf(catalog)
    /\ {snapshot.seq, durableSeq, replayAt, clock} \subseteq Nat
    /\ replayAt # 0
=============================================================================
