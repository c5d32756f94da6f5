------------------------- MODULE MemoryImportProofs -------------------------
(***************************************************************************)
(* ImportInv is inductive, so the safety properties of the importer hold   *)
(* for any clients, files, deletions and faults.                           *)
(***************************************************************************)
EXTENDS MemoryImport, TLAPS

(***************************************************************************)
(* The places of a file.                                                   *)
(***************************************************************************)
LEMMA FileShape ==
    ASSUME NEW c \in Clients, TypeOK
    PROVE  /\ file[c] \in Seq(Row)
           /\ Len(file[c]) \in Nat \ {0}
           /\ at[c] \in Places(file[c])
           /\ \A p \in Places(file[c]) : file[c][p.row] \in Row
  <1>1. file[c] \in Seq(Row) \ {<<>>}
    BY PostingsAssumption DEF TypeOK
  <1>2. Len(file[c]) \in Nat \ {0}
    BY <1>1
  <1>3. \A p \in Places(file[c]) : file[c][p.row] \in Row
    BY <1>1 DEF Places
  <1> QED
    BY <1>1, <1>2, <1>3 DEF TypeOK

\* A place is its row and its slot.
LEMMA PlaceIs ==
    ASSUME NEW f, NEW p \in Places(f)
    PROVE  /\ p.row \in 1..Len(f) /\ p.slot \in 1..13
           /\ p = [row |-> p.row, slot |-> p.slot]
  BY DEF Places, Slots

\* The first loop's places are behind when the second one's are reached, and
\* nothing is left out between a place and the next one.
LEMMA AfterPlace ==
    ASSUME NEW f, Len(f) \in Nat \ {0}, NEW p \in Places(f), ~IsLast(f, p)
    PROVE  /\ After(f, p) \in Places(f)
           /\ \A q \in Places(f) : Precedes(q, After(f, p)) => q = p \/ Precedes(q, p)
           /\ Precedes(p, After(f, p))
           /\ \A q \in Places(f) : Precedes(q, p) => Precedes(q, After(f, p))
  <1>1. PICK r \in 1..Len(f), s \in 1..13 :
               p.row = r /\ p.slot = s /\ p = [row |-> r, slot |-> s]
    BY PlaceIs
  <1>2. ~(r = Len(f) /\ s = 13)
    BY <1>1 DEF IsLast, SupersedesSlot
  <1>3. After(f, p) = IF s \notin {8, 13} THEN [row |-> r, slot |-> s + 1]
                      ELSE IF s = 8
                           THEN IF r < Len(f) THEN [row |-> r + 1, slot |-> 1]
                                ELSE [row |-> 1, slot |-> 9]
                           ELSE [row |-> r + 1, slot |-> 9]
    BY <1>1 DEF After, LastEntity, SupersedesSlot
  <1>4. PICK c \in 1..Len(f), d \in 1..13 :
           /\ After(f, p).row = c /\ After(f, p).slot = d
           /\ After(f, p) = [row |-> c, slot |-> d]
           /\ \/ s \notin {8, 13} /\ c = r /\ d = s + 1
              \/ s = 8 /\ r < Len(f) /\ c = r + 1 /\ d = 1
              \/ s = 8 /\ r = Len(f) /\ c = 1 /\ d = 9
              \/ s = 13 /\ r < Len(f) /\ c = r + 1 /\ d = 9
    <2>1. CASE s \notin {8, 13}
      <3>1. s + 1 \in 1..13
        BY <2>1
      <3>2. After(f, p) = [row |-> r, slot |-> s + 1]
        BY <1>3, <2>1
      <3>3. After(f, p).row = r /\ After(f, p).slot = s + 1
        BY <3>2
      <3> WITNESS r \in 1..Len(f), s + 1 \in 1..13
      <3> QED
        BY <2>1, <3>2, <3>3
    <2>2. CASE s = 8 /\ r < Len(f)
      BY <1>3, <2>2
    <2>3. CASE s = 8 /\ r = Len(f)
      BY <1>3, <2>3
    <2>4. CASE s = 13
      BY <1>2, <1>3, <2>4
    <2> QED
      BY <2>1, <2>2, <2>3, <2>4
  <1>5. After(f, p) \in Places(f)
    BY <1>4 DEF Places, Slots
  <1>6. ASSUME NEW q \in Places(f)
        PROVE  /\ Precedes(q, After(f, p)) => q = p \/ Precedes(q, p)
               /\ Precedes(q, p) => Precedes(q, After(f, p))
    <2>1. PICK a \in 1..Len(f), b \in 1..13 :
                 q.row = a /\ q.slot = b /\ q = [row |-> a, slot |-> b]
      BY PlaceIs
    <2>2. q = p <=> a = r /\ b = s
      BY <1>1, <2>1
    <2>3. /\ Precedes(q, p) <=> IF b <= 8 <=> s <= 8
                                THEN a < r \/ (a = r /\ b < s) ELSE b < s
          /\ Precedes(q, After(f, p)) <=> IF b <= 8 <=> d <= 8
                                          THEN a < c \/ (a = c /\ b < d) ELSE b < d
      BY <1>1, <1>4, <2>1 DEF Precedes, LastEntity
    <2> QED
      BY <1>4, <2>2, <2>3
  <1>7. Precedes(p, After(f, p)) <=> IF s <= 8 <=> d <= 8
                                     THEN r < c \/ (r = c /\ s < d) ELSE s < d
    BY <1>1, <1>4 DEF Precedes, LastEntity
  <1>8. Precedes(p, After(f, p))
    BY <1>4, <1>7
  <1> QED
    BY <1>5, <1>6, <1>8

LEMMA LastPlace ==
    ASSUME NEW f, Len(f) \in Nat \ {0}, NEW p \in Places(f), IsLast(f, p),
           NEW q \in Places(f)
    PROVE  q = p \/ Precedes(q, p)
  <1>1. PICK a \in 1..Len(f), b \in 1..13 : q = [row |-> a, slot |-> b]
    BY DEF Places, Slots
  <1> QED
    BY <1>1 DEF Places, Slots, IsLast, SupersedesSlot, Precedes, LastEntity

(***************************************************************************)
(* What the loops do at each place.                                        *)
(***************************************************************************)
LEMMA StepIs ==
    ASSUME NEW f, NEW p \in Places(f)
    PROVE  LET row == f[p.row]
               step == Step(f, p)
           IN /\ p.slot = 1 => step = Thing(Record(row.id), {})
              /\ p.slot = 2 => step = Thing(Memory(row.id), {})
              /\ p.slot = 3 => step = Thing(Vector(row.id), {})
              /\ p.slot = 4 => step = Thing(Session(row.session), {})
              /\ p.slot = 5 => step = Thing(Mission(row.mission), {})
              /\ p.slot = 6 => step = Thing(Persona(row.persona), {})
              /\ p.slot = 7 => step = Thing(Chunk(row.id), {})
              /\ p.slot = 8 => step = Thing(Span(row.id), {Record(row.id), Chunk(row.id)})
              /\ p.slot = 9 => step = Edge("contains", Session(row.session), Mission(row.mission))
              /\ p.slot = 10 => step = Edge("contains", Session(row.session), Memory(row.id))
              /\ p.slot = 11 => step = Edge("contains", Mission(row.mission), Memory(row.id))
              /\ p.slot = 12 => step = Edge("authored_by", Persona(row.persona), Memory(row.id))
              /\ p.slot = 13 => step = Edge("supersedes", Memory(row.id), Memory(row.supersedes))
  <1> DEFINE row == f[p.row]
  <1>1. ASSUME p.slot = 1 PROVE Step(f, p) = Entity(row, 1)
    BY <1>1 DEF Step, LastEntity
  <1>2. ASSUME p.slot = 2 PROVE Step(f, p) = Entity(row, 2)
    BY <1>2 DEF Step, LastEntity
  <1>3. ASSUME p.slot = 3 PROVE Step(f, p) = Entity(row, 3)
    BY <1>3 DEF Step, LastEntity
  <1>4. ASSUME p.slot = 4 PROVE Step(f, p) = Entity(row, 4)
    BY <1>4 DEF Step, LastEntity
  <1>5. ASSUME p.slot = 5 PROVE Step(f, p) = Entity(row, 5)
    BY <1>5 DEF Step, LastEntity
  <1>6. ASSUME p.slot = 6 PROVE Step(f, p) = Entity(row, 6)
    BY <1>6 DEF Step, LastEntity
  <1>7. ASSUME p.slot = 7 PROVE Step(f, p) = Entity(row, 7)
    BY <1>7 DEF Step, LastEntity
  <1>8. ASSUME p.slot = 8 PROVE Step(f, p) = Entity(row, 8)
    BY <1>8 DEF Step, LastEntity
  <1>9. ASSUME p.slot = 9 PROVE Step(f, p) = Relation(row, 9)
    BY <1>9 DEF Step, LastEntity
  <1>10. ASSUME p.slot = 10 PROVE Step(f, p) = Relation(row, 10)
    BY <1>10 DEF Step, LastEntity
  <1>11. ASSUME p.slot = 11 PROVE Step(f, p) = Relation(row, 11)
    BY <1>11 DEF Step, LastEntity
  <1>12. ASSUME p.slot = 12 PROVE Step(f, p) = Relation(row, 12)
    BY <1>12 DEF Step, LastEntity
  <1>13. ASSUME p.slot = 13 PROVE Step(f, p) = Relation(row, 13)
    BY <1>13 DEF Step, LastEntity
  <1>e1. Entity(row, 1) = Thing(Record(row.id), {})
    BY DEF Entity
  <1>e2. Entity(row, 2) = Thing(Memory(row.id), {})
    BY DEF Entity
  <1>e3. Entity(row, 3) = Thing(Vector(row.id), {})
    BY DEF Entity
  <1>e4. Entity(row, 4) = Thing(Session(row.session), {})
    BY DEF Entity
  <1>e5. Entity(row, 5) = Thing(Mission(row.mission), {})
    BY DEF Entity
  <1>e6. Entity(row, 6) = Thing(Persona(row.persona), {})
    BY DEF Entity
  <1>e7. Entity(row, 7) = Thing(Chunk(row.id), {})
    BY DEF Entity
  <1>e8. Entity(row, 8) = Thing(Span(row.id), {Record(row.id), Chunk(row.id)})
    BY DEF Entity
  <1>e9. Relation(row, 9) = Edge("contains", Session(row.session), Mission(row.mission))
    BY DEF Relation
  <1>e10. Relation(row, 10) = Edge("contains", Session(row.session), Memory(row.id))
    BY DEF Relation
  <1>e11. Relation(row, 11) = Edge("contains", Mission(row.mission), Memory(row.id))
    BY DEF Relation
  <1>e12. Relation(row, 12) = Edge("authored_by", Persona(row.persona), Memory(row.id))
    BY DEF Relation
  <1>e13. Relation(row, 13) = Edge("supersedes", Memory(row.id), Memory(row.supersedes))
    BY DEF Relation
  <1> QED
    BY <1>1, <1>2, <1>3, <1>4, <1>5, <1>6, <1>7, <1>8, <1>9, <1>10, <1>11, <1>12, <1>13,
       <1>e1, <1>e2, <1>e3, <1>e4, <1>e5, <1>e6, <1>e7, <1>e8, <1>e9, <1>e10, <1>e11, <1>e12, <1>e13

\* What a thing is called.
LEMMA Names ==
    /\ \A id : /\ Record(id)[1] = "record" /\ Len(Record(id)) = 2
               /\ Memory(id)[1] = "node:memory" /\ Len(Memory(id)) = 2
               /\ Vector(id)[1] = "vector" /\ Len(Vector(id)) = 2
               /\ Session(id)[1] = "node:session" /\ Len(Session(id)) = 2
               /\ Mission(id)[1] = "node:mission" /\ Len(Mission(id)) = 2
               /\ Persona(id)[1] = "node:persona" /\ Len(Persona(id)) = 2
               /\ Chunk(id)[1] = "chunk" /\ Len(Chunk(id)) = 2
               /\ Span(id)[1] = "span" /\ Len(Span(id)) = 2
               /\ Record(id)[2] = id /\ Memory(id)[2] = id /\ Span(id)[2] = id
    /\ \A t, n : Thing(t, n).thing = t /\ Thing(t, n).needs = n
    /\ \A ty, a, b : LET e == Edge(ty, a, b)
                     IN /\ Len(e.thing) = 3 /\ e.needs = {a, b}
                        /\ e.thing[1] = ty /\ e.thing[2] = a /\ e.thing[3] = b
  BY DEF Record, Memory, Vector, Session, Mission, Persona, Chunk, Span, Thing, Edge

LEMMA StepFacts ==
    ASSUME NEW f, NEW p \in Places(f)
    PROVE  LET row == f[p.row]
               step == Step(f, p)
           IN /\ p.slot = 1 => step.thing = Record(row.id)
              /\ p.slot = 2 => step.thing = Memory(row.id)
              /\ p.slot < 8 => step.needs = {}
              /\ p.slot = 8 => /\ step.thing = Span(row.id)
                               /\ step.needs = {Record(row.id), Chunk(row.id)}
              /\ p.slot <= 8 => Len(step.thing) = 2
              /\ p.slot > 8 => /\ Len(step.thing) = 3
                               /\ step.needs = {step.thing[2], step.thing[3]}
              /\ step.thing[1] = "node:memory" => p.slot = 2
              /\ step.thing[1] = "span" => p.slot = 8
  <1> DEFINE row == f[p.row]
  <1>1. p.slot \in 1..13
    BY PlaceIs
  <1>s1. CASE p.slot = 1
    <2>1. Step(f, p) = Thing(Record(row.id), {})
      BY <1>s1, StepIs
    <2> QED
      BY <1>s1, <2>1, Names
  <1>s2. CASE p.slot = 2
    <2>1. Step(f, p) = Thing(Memory(row.id), {})
      BY <1>s2, StepIs
    <2> QED
      BY <1>s2, <2>1, Names
  <1>s3. CASE p.slot = 3
    <2>1. Step(f, p) = Thing(Vector(row.id), {})
      BY <1>s3, StepIs
    <2> QED
      BY <1>s3, <2>1, Names
  <1>s4. CASE p.slot = 4
    <2>1. Step(f, p) = Thing(Session(row.session), {})
      BY <1>s4, StepIs
    <2> QED
      BY <1>s4, <2>1, Names
  <1>s5. CASE p.slot = 5
    <2>1. Step(f, p) = Thing(Mission(row.mission), {})
      BY <1>s5, StepIs
    <2> QED
      BY <1>s5, <2>1, Names
  <1>s6. CASE p.slot = 6
    <2>1. Step(f, p) = Thing(Persona(row.persona), {})
      BY <1>s6, StepIs
    <2> QED
      BY <1>s6, <2>1, Names
  <1>s7. CASE p.slot = 7
    <2>1. Step(f, p) = Thing(Chunk(row.id), {})
      BY <1>s7, StepIs
    <2> QED
      BY <1>s7, <2>1, Names
  <1>s8. CASE p.slot = 8
    <2>1. Step(f, p) = Thing(Span(row.id), {Record(row.id), Chunk(row.id)})
      BY <1>s8, StepIs
    <2> QED
      BY <1>s8, <2>1, Names
  <1>s9. CASE p.slot = 9
    <2>1. Step(f, p) = Edge("contains", Session(row.session), Mission(row.mission))
      BY <1>s9, StepIs
    <2> QED
      BY <1>s9, <2>1, Names
  <1>s10. CASE p.slot = 10
    <2>1. Step(f, p) = Edge("contains", Session(row.session), Memory(row.id))
      BY <1>s10, StepIs
    <2> QED
      BY <1>s10, <2>1, Names
  <1>s11. CASE p.slot = 11
    <2>1. Step(f, p) = Edge("contains", Mission(row.mission), Memory(row.id))
      BY <1>s11, StepIs
    <2> QED
      BY <1>s11, <2>1, Names
  <1>s12. CASE p.slot = 12
    <2>1. Step(f, p) = Edge("authored_by", Persona(row.persona), Memory(row.id))
      BY <1>s12, StepIs
    <2> QED
      BY <1>s12, <2>1, Names
  <1>s13. CASE p.slot = 13
    <2>1. Step(f, p) = Edge("supersedes", Memory(row.id), Memory(row.supersedes))
      BY <1>s13, StepIs
    <2> QED
      BY <1>s13, <2>1, Names
  <1> QED
    BY <1>1, <1>s1, <1>s2, <1>s3, <1>s4, <1>s5, <1>s6, <1>s7, <1>s8, <1>s9, <1>s10, <1>s11, <1>s12, <1>s13

\* A place of the first loop is before those of the second.
LEMMA LoopsInOrder ==
    ASSUME NEW f, NEW p \in Places(f), p.slot > 8, NEW slot \in 1..8
    PROVE  /\ [row |-> p.row, slot |-> slot] \in Places(f)
           /\ Precedes([row |-> p.row, slot |-> slot], p)
  <1>1. p.row \in 1..Len(f) /\ p.slot \in 1..13
    BY PlaceIs
  <1> QED
    BY <1>1 DEF Places, Slots, Precedes, LastEntity

\* What a thing needs was wanted at a place of the first loop that is passed
\* already, except for the memory that a row supersedes.
LEMMA NeedsEarlier ==
    ASSUME NEW f, NEW p \in Wanted(f), NEW t \in Step(f, p).needs
    PROVE  \/ \E q \in Wanted(f) : /\ Precedes(q, p) /\ q.slot \notin {3, 13}
                                   /\ Step(f, q).thing = t
           \/ p.slot = 13 /\ t = Memory(f[p.row].supersedes)
  <1> DEFINE row == f[p.row]
             Place(slot) == [row |-> p.row, slot |-> slot]
             Goal == \E q \in Wanted(f) : /\ Precedes(q, p) /\ q.slot \notin {3, 13}
                                          /\ Step(f, q).thing = t
  <1>1. /\ p \in Places(f) /\ Wants(row, p.slot)
        /\ p.row \in 1..Len(f) /\ p.slot \in 1..13
    BY PlaceIs DEF Wanted
  <1>2. p.slot >= 8
    BY <1>1, StepFacts
  <1>3. ASSUME NEW slot \in {1, 2, 4, 5, 6, 7}, Precedes(Place(slot), p),
               Wants(row, slot), Step(f, Place(slot)).thing = t
        PROVE  Goal
    <2>1. Place(slot) \in Places(f)
      BY <1>1 DEF Places, Slots
    <2>2. Place(slot) \in Wanted(f)
      BY <1>3, <2>1 DEF Wanted
    <2> QED
      BY <1>3, <2>2
  <1>4. \A slot \in 1..13 : Place(slot) \in Places(f)
    BY <1>1 DEF Places, Slots
  <1>e1. Step(f, Place(1)).thing = Record(row.id)
    <2>1. Place(1) \in Places(f)
      BY <1>4
    <2>2. Step(f, Place(1)) = Thing(Record(row.id), {})
      BY <2>1, StepIs
    <2> QED
      BY <2>2, Names
  <1>e2. Step(f, Place(2)).thing = Memory(row.id)
    <2>1. Place(2) \in Places(f)
      BY <1>4
    <2>2. Step(f, Place(2)) = Thing(Memory(row.id), {})
      BY <2>1, StepIs
    <2> QED
      BY <2>2, Names
  <1>e4. Step(f, Place(4)).thing = Session(row.session)
    <2>1. Place(4) \in Places(f)
      BY <1>4
    <2>2. Step(f, Place(4)) = Thing(Session(row.session), {})
      BY <2>1, StepIs
    <2> QED
      BY <2>2, Names
  <1>e5. Step(f, Place(5)).thing = Mission(row.mission)
    <2>1. Place(5) \in Places(f)
      BY <1>4
    <2>2. Step(f, Place(5)) = Thing(Mission(row.mission), {})
      BY <2>1, StepIs
    <2> QED
      BY <2>2, Names
  <1>e6. Step(f, Place(6)).thing = Persona(row.persona)
    <2>1. Place(6) \in Places(f)
      BY <1>4
    <2>2. Step(f, Place(6)) = Thing(Persona(row.persona), {})
      BY <2>1, StepIs
    <2> QED
      BY <2>2, Names
  <1>e7. Step(f, Place(7)).thing = Chunk(row.id)
    <2>1. Place(7) \in Places(f)
      BY <1>4
    <2>2. Step(f, Place(7)) = Thing(Chunk(row.id), {})
      BY <2>1, StepIs
    <2> QED
      BY <2>2, Names
  <1>6. Precedes(Place(1), p) /\ Precedes(Place(2), p) /\ Precedes(Place(7), p)
    BY <1>1, <1>2 DEF Precedes, LastEntity
  <1>7. CASE p.slot = 8
    <2>1. Step(f, p) = Thing(Span(row.id), {Record(row.id), Chunk(row.id)})
      BY <1>1, <1>7, StepIs
    <2>2. row.text /\ t \in {Record(row.id), Chunk(row.id)}
      BY <1>1, <1>7, <2>1, Names DEF Wants
    <2>3. CASE t = Record(row.id)
      <3>1. Wants(row, 1) /\ Step(f, Place(1)).thing = t
        BY <1>e1, <2>3 DEF Wants
      <3> QED
        BY <1>3, <1>6, <3>1
    <2>4. CASE t = Chunk(row.id)
      <3>1. Wants(row, 7) /\ Step(f, Place(7)).thing = t
        BY <1>e7, <2>2, <2>4 DEF Wants
      <3> QED
        BY <1>3, <1>6, <3>1
    <2> QED
      BY <2>2, <2>3, <2>4
  <1>8. CASE p.slot > 8
    <2>1. Precedes(Place(4), p) /\ Precedes(Place(5), p) /\ Precedes(Place(6), p)
      BY <1>1, <1>8 DEF Precedes, LastEntity
    <2>m. ASSUME t = Memory(row.id) PROVE Goal
      <3>1. Wants(row, 2) /\ Step(f, Place(2)).thing = t
        BY <1>e2, <2>m DEF Wants
      <3> QED
        BY <1>3, <1>6, <3>1
    <2>s. ASSUME t = Session(row.session), Given(row.session) PROVE Goal
      <3>1. Wants(row, 4)
        BY <2>s DEF Wants
      <3>2. Step(f, Place(4)).thing = t
        BY <1>e4, <2>s
      <3> QED
        BY <1>3, <2>1, <3>1, <3>2
    <2>i. ASSUME t = Mission(row.mission), Given(row.mission) PROVE Goal
      <3>1. Wants(row, 5)
        BY <2>i DEF Wants
      <3>2. Step(f, Place(5)).thing = t
        BY <1>e5, <2>i
      <3> QED
        BY <1>3, <2>1, <3>1, <3>2
    <2>p. ASSUME t = Persona(row.persona), Given(row.persona) PROVE Goal
      <3>1. Wants(row, 6)
        BY <2>p DEF Wants
      <3>2. Step(f, Place(6)).thing = t
        BY <1>e6, <2>p
      <3> QED
        BY <1>3, <2>1, <3>1, <3>2
    <2>3. CASE p.slot = 9
      <3>1. Step(f, p) = Edge("contains", Session(row.session), Mission(row.mission))
        BY <1>1, <2>3, StepIs
      <3>2. Given(row.session) /\ Given(row.mission)
        BY <1>1, <2>3 DEF Wants
      <3>3. t = Session(row.session) \/ t = Mission(row.mission)
        BY <3>1, Names
      <3> QED
        BY <2>s, <2>i, <3>2, <3>3
    <2>4. CASE p.slot = 10
      <3>1. Step(f, p) = Edge("contains", Session(row.session), Memory(row.id))
        BY <1>1, <2>4, StepIs
      <3>2. Given(row.session)
        BY <1>1, <2>4 DEF Wants
      <3>3. t = Session(row.session) \/ t = Memory(row.id)
        BY <3>1, Names
      <3> QED
        BY <2>s, <2>m, <3>2, <3>3
    <2>5. CASE p.slot = 11
      <3>1. Step(f, p) = Edge("contains", Mission(row.mission), Memory(row.id))
        BY <1>1, <2>5, StepIs
      <3>2. Given(row.mission)
        BY <1>1, <2>5 DEF Wants
      <3>3. t = Mission(row.mission) \/ t = Memory(row.id)
        BY <3>1, Names
      <3> QED
        BY <2>i, <2>m, <3>2, <3>3
    <2>6. CASE p.slot = 12
      <3>1. Step(f, p) = Edge("authored_by", Persona(row.persona), Memory(row.id))
        BY <1>1, <2>6, StepIs
      <3>2. Given(row.persona)
        BY <1>1, <2>6 DEF Wants
      <3>3. t = Persona(row.persona) \/ t = Memory(row.id)
        BY <3>1, Names
      <3> QED
        BY <2>p, <2>m, <3>2, <3>3
    <2>7. CASE p.slot = 13
      <3>1. Step(f, p) = Edge("supersedes", Memory(row.id), Memory(row.supersedes))
        BY <1>1, <2>7, StepIs
      <3> QED
        BY <2>7, <2>m, <3>1, Names
    <2> QED
      BY <1>1, <1>8, <2>3, <2>4, <2>5, <2>6, <2>7
  <1> QED
    BY <1>1, <1>2, <1>7, <1>8

(***************************************************************************)
(* The invariant, call by call.                                            *)
(***************************************************************************)
PassedOf(c) ==
    \A p \in Wanted(file[c]) :
        Passed(c, p) /\ (p.slot = SupersedesSlot => TargetSeen(c, p)) => Have(file[c], p)

ReadsOf(c) ==
    status[c] = "running" =>
        /\ phase[c] = "target" => at[c].slot = SupersedesSlot
        /\ at[c].slot = SupersedesSlot /\ phase[c] # "target" =>
              There(Memory(RowOf(c).supersedes))
        /\ at[c].slot = VectorSlot /\ phase[c] = "write" =>
              There(Memory(RowOf(c).id)) /\ nodeSeq[RowOf(c).id] <= seq[c]
        /\ at[c].slot = 1 /\ phase[c] = "write" =>
              /\ RowOf(c).id \notin before[c]
              /\ \A n \in made[c] : file[c][n].id # RowOf(c).id

MadeOf(c) ==
    \A n \in made[c] : status[c] # "failed" /\ Passed(c, [row |-> n, slot |-> 1])

CountsOf(c) ==
    \A n \in made[c] :
        /\ file[c][n].id \notin before[c]
        /\ \A m \in made[c] : file[c][m].id = file[c][n].id => m = n

RejectedOf(c) == status[c] = "rejected" => \E t \in Here(c).needs : t \in dead

CallOK(c) == PassedOf(c) /\ ReadsOf(c) /\ MadeOf(c) /\ CountsOf(c) /\ RejectedOf(c)

StoreOK == NodesNumbered /\ NothingDangles /\ VectorsSourced

LEMMA Parts == ImportInv <=> TypeOK /\ StoreOK /\ \A c \in Clients : CallOK(c)
  BY DEF ImportInv, StoreOK, CallOK, PassedOf, ReadsOf, MadeOf, CountsOf, RejectedOf,
         PassedIsThere, ReadsHold, MadePassed, CountsAreNew, RejectionsExplained

LEMMA PartsNext ==
    ASSUME TypeOK', StoreOK', \A c \in Clients : CallOK(c)'
    PROVE  ImportInv'
  BY DEF ImportInv, StoreOK, CallOK, PassedOf, ReadsOf, MadeOf, CountsOf, RejectedOf,
         PassedIsThere, ReadsHold, MadePassed, CountsAreNew, RejectionsExplained

\* What no step does to the store is take something away.
StoreGrows ==
    /\ born \subseteq born'
    /\ dead \subseteq dead'
    /\ DOMAIN entries \subseteq DOMAIN entries'
    /\ \A id \in DOMAIN nodeSeq : id \in DOMAIN nodeSeq' /\ nodeSeq'[id] = nodeSeq[id]

\* The call of c is where it was.
CallStands(c) ==
    /\ status'[c] = status[c] /\ at'[c] = at[c] /\ phase'[c] = phase[c]
    /\ seq'[c] = seq[c] /\ made'[c] = made[c] /\ before'[c] = before[c]

\* What the store holds after the step.
HaveNext(f, p) ==
    IF p.slot = VectorSlot THEN f[p.row].id \in DOMAIN entries'
    ELSE Step(f, p).thing \in born'

LEMMA HaveGrows ==
    ASSUME StoreGrows, NEW f, NEW p, Have(f, p)
    PROVE  HaveNext(f, p)
  BY DEF StoreGrows, Have, HaveNext, There

LEMMA MemoryNumbered ==
    ASSUME NodesNumbered, NEW id
    PROVE  There(Memory(id)) <=> id \in DOMAIN nodeSeq
  BY Names DEF NodesNumbered, There

LEMMA OtherCall ==
    ASSUME ImportInv, StoreGrows, file' = file, NEW d \in Clients, CallStands(d)
    PROVE  CallOK(d)'
  <1>1. CallOK(d) /\ StoreOK
    BY Parts
  <1>2. PassedOf(d)'
    <2> SUFFICES ASSUME NEW p \in Wanted(file[d]), Passed(d, p),
                        p.slot = SupersedesSlot => TargetSeen(d, p)
                 PROVE  HaveNext(file[d], p)
      BY DEF PassedOf, Passed, TargetSeen, CallStands, Have, HaveNext, There
    <2>1. Have(file[d], p)
      BY <1>1 DEF CallOK, PassedOf
    <2> QED
      BY <2>1, HaveGrows
  <1>3. ReadsOf(d)'
    <2>1. ASSUME There(Memory(RowOf(d).id)), nodeSeq[RowOf(d).id] <= seq[d]
          PROVE  /\ There(Memory(RowOf(d).id))'
                 /\ (nodeSeq[RowOf(d).id] <= seq[d])'
      <3>1. RowOf(d).id \in DOMAIN nodeSeq
        BY <1>1, <2>1, MemoryNumbered DEF StoreOK
      <3>2. RowOf(d)' = RowOf(d)
        BY DEF RowOf, CallStands
      <3> QED
        BY <2>1, <3>1, <3>2 DEF StoreGrows, CallStands, There
    <2>2. ASSUME There(Memory(RowOf(d).supersedes))
          PROVE  There(Memory(RowOf(d).supersedes))'
      BY <2>2 DEF StoreGrows, CallStands, There, RowOf
    <2>3. ReadsOf(d)
      BY <1>1 DEF CallOK
    <2> QED
      BY <2>1, <2>2, <2>3 DEF ReadsOf, CallStands, RowOf
  <1>4. MadeOf(d)' /\ CountsOf(d)'
    BY <1>1 DEF CallOK, MadeOf, CountsOf, Passed, CallStands
  <1>5. RejectedOf(d)'
    BY <1>1 DEF CallOK, RejectedOf, Here, CallStands, StoreGrows
  <1> QED
    BY <1>2, <1>3, <1>4, <1>5 DEF CallOK

\* A call that is done with the thing of its place goes on with all behind it
\* in the store.
LEMMA CallMoves ==
    ASSUME ImportInv, StoreGrows, NEW c \in Clients, status[c] = "running", MoveOn(c),
           (/\ WantedHere(c)
            /\ at[c].slot = SupersedesSlot => TargetSeen(c, at[c])) => HaveNext(file[c], at[c]),
           \/ made'[c] = made[c]
           \/ /\ at[c].slot = 1 /\ phase[c] = "write"
              /\ made'[c] = made[c] \union {at[c].row}
    PROVE  CallOK(c)'
  <1> DEFINE f == file[c]
  <1>1. CallOK(c) /\ StoreOK /\ TypeOK
    BY Parts
  <1>2. Len(f) \in Nat \ {0} /\ at[c] \in Places(f) /\ file' = file /\ before' = before
    BY <1>1, FileShape DEF MoveOn
  <1>3. \/ /\ IsLast(f, at[c])
           /\ status'[c] = "returned" /\ at' = at
        \/ /\ ~IsLast(f, at[c])
           /\ status' = status /\ at'[c] = After(f, at[c])
           /\ phase'[c] = IF at'[c].slot = SupersedesSlot THEN "target" ELSE "read"
    BY <1>1 DEF MoveOn, TypeOK
  <1>4. ASSUME NEW p \in Places(f), Passed(c, p)'
        PROVE  p = at[c] \/ Passed(c, p)
    <2>1. CASE IsLast(f, at[c])
      BY <1>2, <1>3, <2>1, LastPlace DEF Passed
    <2>2. CASE ~IsLast(f, at[c])
      BY <1>2, <1>3, <1>4, <2>2, AfterPlace DEF Passed
    <2> QED
      BY <2>1, <2>2
  <1>5. ASSUME NEW p \in Places(f), p = at[c] \/ Passed(c, p)
        PROVE  Passed(c, p)'
    <2>1. CASE IsLast(f, at[c])
      BY <1>3, <2>1 DEF Passed
    <2>2. CASE ~IsLast(f, at[c])
      BY <1>2, <1>3, <1>5, <2>2, AfterPlace DEF Passed
    <2> QED
      BY <2>1, <2>2
  <1>6. PassedOf(c)'
    <2> SUFFICES ASSUME NEW p \in Wanted(f), Passed(c, p)',
                        p.slot = SupersedesSlot => TargetSeen(c, p)
                 PROVE  HaveNext(f, p)
      BY <1>2 DEF PassedOf, TargetSeen, Have, HaveNext, There
    <2>1. p \in Places(f)
      BY DEF Wanted
    <2>2. CASE p = at[c]
      BY <2>2 DEF WantedHere
    <2>3. CASE Passed(c, p)
      <3>1. Have(f, p)
        BY <1>1, <2>3 DEF CallOK, PassedOf
      <3> QED
        BY <3>1, HaveGrows
    <2> QED
      BY <1>4, <2>1, <2>2, <2>3
  <1>7. ReadsOf(c)'
    BY <1>3 DEF ReadsOf, SupersedesSlot, VectorSlot
  <1>8. MadeOf(c)'
    <2> SUFFICES ASSUME NEW n \in made'[c]
                 PROVE  status'[c] # "failed" /\ Passed(c, [row |-> n, slot |-> 1])'
      BY DEF MadeOf
    <2> DEFINE q == [row |-> n, slot |-> 1]
    <2>1. q = at[c] \/ Passed(c, q)
      <3>1. CASE n \in made[c]
        BY <1>1, <3>1 DEF CallOK, MadeOf
      <3>2. CASE at[c].slot = 1 /\ n = at[c].row
        BY <1>2, <3>2, PlaceIs
      <3> QED
        BY <3>1, <3>2
    <2>2. q \in Places(f)
      BY <1>1, <1>2 DEF TypeOK, Places, Slots
    <2> QED
      BY <1>3, <1>5, <2>1, <2>2
  <1>9. CountsOf(c)'
    <2>1. CASE made'[c] = made[c]
      BY <1>1, <1>2, <2>1 DEF CallOK, CountsOf
    <2>2. CASE /\ at[c].slot = 1 /\ phase[c] = "write"
               /\ made'[c] = made[c] \union {at[c].row}
      <3>1. /\ f[at[c].row].id \notin before[c]
            /\ \A n \in made[c] : f[n].id # f[at[c].row].id
        BY <1>1, <2>2 DEF CallOK, ReadsOf, RowOf
      <3> QED
        BY <1>1, <1>2, <2>2, <3>1 DEF CallOK, CountsOf
    <2> QED
      BY <2>1, <2>2
  <1>10. RejectedOf(c)'
    BY <1>3 DEF RejectedOf
  <1> QED
    BY <1>6, <1>7, <1>8, <1>9, <1>10 DEF CallOK

CallTypes ==
    /\ file \in Postings
    /\ status \in [Clients -> AtRest \union {"running"}]
    /\ at \in [Clients -> [row : Nat \ {0}, slot : Slots]]
    /\ \A c \in Clients : at[c] \in Places(file[c])
    /\ phase \in [Clients -> Phases]
    /\ faults \in 0..MaxFaults

LEMMA MoveTypes ==
    ASSUME TypeOK, NEW c \in Clients, MoveOn(c)
    PROVE  CallTypes' /\ before' = before /\ faults' = faults /\ file' = file
  <1> DEFINE f == file[c]
             q == After(f, at[c])
  <1>1. Len(f) \in Nat \ {0} /\ at[c] \in Places(f)
    BY FileShape
  <1>2. file' = file /\ before' = before /\ faults' = faults
    BY DEF MoveOn
  <1>3. CASE IsLast(f, at[c])
    <2>1. at' = at /\ phase' = phase /\ status' = [status EXCEPT ![c] = "returned"]
      BY <1>3 DEF MoveOn
    <2> QED
      BY <1>2, <2>1 DEF CallTypes, TypeOK, AtRest
  <1>4. CASE ~IsLast(f, at[c])
    <2>1. /\ at' = [at EXCEPT ![c] = q] /\ status' = status
          /\ phase' = [phase EXCEPT ![c] =
                          IF q.slot = SupersedesSlot THEN "target" ELSE "read"]
      BY <1>4 DEF MoveOn
    <2>2. q \in Places(f)
      BY <1>1, <1>4, AfterPlace
    <2>3. q \in [row : Nat \ {0}, slot : Slots]
      BY <1>1, <2>2 DEF Places
    <2>4. \A d \in Clients : at'[d] \in Places(file[d])
      BY <2>1, <2>2 DEF TypeOK
    <2> HIDE DEF q
    <2> QED
      BY <1>2, <2>1, <2>3, <2>4 DEF CallTypes, TypeOK, Phases
  <1> QED
    BY <1>2, <1>3, <1>4

\* The other calls stand while one moves.
LEMMA OneMoves ==
    ASSUME TypeOK, NEW c \in Clients, MoveOn(c), NEW d \in Clients, d # c
    PROVE  status'[d] = status[d] /\ at'[d] = at[d] /\ phase'[d] = phase[d]
  BY DEF MoveOn, TypeOK

LEMMA SameStore ==
    ASSUME StoreOK, UNCHANGED store
    PROVE  StoreOK' /\ StoreGrows
  BY DEF StoreOK, NodesNumbered, NothingDangles, VectorsSourced, There, store, StoreGrows

\* A call that only moves on.
LEMMA MovesInv ==
    ASSUME ImportInv, NEW c \in Clients, status[c] = "running", MoveOn(c),
           UNCHANGED <<store, seq, made>>,
           (/\ WantedHere(c)
            /\ at[c].slot = SupersedesSlot => TargetSeen(c, at[c])) => HaveNext(file[c], at[c])
    PROVE  ImportInv'
  <1>1. TypeOK /\ StoreOK
    BY Parts
  <1>2. StoreOK' /\ StoreGrows
    BY <1>1, SameStore
  <1>3. CallTypes' /\ before' = before /\ faults' = faults /\ file' = file
    BY <1>1, MoveTypes
  <1>4. TypeOK'
    BY <1>1, <1>3 DEF TypeOK, CallTypes, store
  <1>5. CallOK(c)'
    BY <1>2, CallMoves
  <1>6. ASSUME NEW d \in Clients, d # c PROVE CallOK(d)'
    BY <1>1, <1>2, <1>3, <1>6, OneMoves, OtherCall DEF CallStands
  <1> QED
    BY <1>2, <1>4, <1>5, <1>6, PartsNext

LEMMA SkipInv ==
    ASSUME ImportInv, NEW c \in Clients, Skip(c)
    PROVE  ImportInv'
  BY MovesInv DEF Skip

\* A memory that the importer must have seen is there when it looks.
LEMMA SeenIsThere ==
    ASSUME ImportInv, NEW c \in Clients, status[c] = "running",
           at[c].slot = SupersedesSlot, TargetSeen(c, at[c])
    PROVE  There(Memory(RowOf(c).supersedes))
  <1> DEFINE f == file[c]
  <1>1. CallOK(c) /\ TypeOK /\ NodesNumbered
    BY Parts DEF StoreOK
  <1>2. Len(f) \in Nat \ {0} /\ at[c] \in Places(f)
    BY <1>1, FileShape
  <1>3. CASE RowOf(c).supersedes \in before[c]
    BY <1>1, <1>3, MemoryNumbered DEF TypeOK
  <1>4. CASE \E n \in 1..Len(f) : RowOf(c).supersedes = f[n].id
    <2>1. PICK n \in 1..Len(f) : RowOf(c).supersedes = f[n].id
      BY <1>4
    <2> DEFINE q == [row |-> n, slot |-> 2]
    <2>2. q \in Places(f) /\ Precedes(q, at[c])
      BY <1>2 DEF Places, Slots, Precedes, LastEntity, SupersedesSlot
    <2>3. q \in Wanted(f)
      BY <2>2 DEF Wanted, Wants
    <2>4. Have(f, q)
      BY <1>1, <2>2, <2>3 DEF CallOK, PassedOf, Passed, SupersedesSlot
    <2>5. Step(f, q).thing = Memory(f[n].id)
      BY <2>2, StepFacts
    <2> QED
      BY <2>1, <2>4, <2>5 DEF Have, VectorSlot
  <1> QED
    BY <1>3, <1>4 DEF TargetSeen, RowOf

(***************************************************************************)
(* Calls and reads.                                                        *)
(***************************************************************************)
LEMMA CallInv ==
    ASSUME ImportInv, NEW c \in Clients, Call(c)
    PROVE  ImportInv'
  <1> DEFINE f == file[c]
  <1>1. TypeOK /\ StoreOK
    BY Parts
  <1>2. StoreOK' /\ StoreGrows
    BY <1>1, SameStore DEF Call
  <1>3. Len(f) \in Nat \ {0}
    BY <1>1, FileShape
  <1>4. First \in [row : Nat \ {0}, slot : Slots] /\ First \in Places(f)
    BY <1>3 DEF First, Places, Slots
  <1>5. /\ status' = [status EXCEPT ![c] = "running"]
        /\ at' = [at EXCEPT ![c] = First]
        /\ phase' = [phase EXCEPT ![c] = "read"]
        /\ made' = [made EXCEPT ![c] = {}]
        /\ before' = [before EXCEPT ![c] = DOMAIN nodeSeq]
        /\ file' = file /\ seq' = seq /\ faults' = faults
        /\ UNCHANGED store
    BY DEF Call
  <1>6. TypeOK'
    <2>1. status' \in [Clients -> AtRest \union {"running"}]
          /\ phase' \in [Clients -> Phases]
      BY <1>1, <1>5 DEF TypeOK, Phases
    <2>2. at' \in [Clients -> [row : Nat \ {0}, slot : Slots]]
      BY <1>1, <1>4, <1>5 DEF TypeOK
    <2>3. \A d \in Clients : at'[d] \in Places(file'[d])
      BY <1>1, <1>4, <1>5 DEF TypeOK
    <2>4. /\ made' \in [Clients -> SUBSET (Nat \ {0})]
          /\ \A d \in Clients : made'[d] \subseteq 1..Len(file'[d])
      BY <1>1, <1>5 DEF TypeOK
    <2>5. before' \in [Clients -> SUBSET DOMAIN nodeSeq']
      BY <1>1, <1>5 DEF TypeOK, store
    <2> QED
      BY <1>1, <1>5, <2>1, <2>2, <2>3, <2>4, <2>5 DEF TypeOK, store
  <1>7. CallOK(c)'
    <2>1. /\ status'[c] = "running" /\ at'[c] = First /\ phase'[c] = "read"
          /\ made'[c] = {}
      BY <1>1, <1>5 DEF TypeOK
    <2>2. PassedOf(c)'
      <3> SUFFICES ASSUME NEW p \in Wanted(f) PROVE ~Precedes(p, First)
        BY <1>5, <2>1 DEF PassedOf, Passed
      <3>1. p.row \in 1..Len(f) /\ p.slot \in 1..13
        BY PlaceIs DEF Wanted
      <3> QED
        BY <1>3, <3>1 DEF Precedes, First, LastEntity
    <2> QED
      BY <2>1, <2>2
      DEF CallOK, ReadsOf, MadeOf, CountsOf, RejectedOf, First, SupersedesSlot, VectorSlot
  <1>8. ASSUME NEW d \in Clients, d # c PROVE CallOK(d)'
    <2>1. CallStands(d)
      BY <1>1, <1>5, <1>8 DEF TypeOK, CallStands
    <2> QED
      BY <1>2, <1>5, <2>1, OtherCall
  <1> QED
    BY <1>2, <1>6, <1>7, <1>8, PartsNext

\* A read that goes on to the write of the same place.
LEMMA ReadInv ==
    ASSUME ImportInv, NEW c \in Clients, status[c] = "running",
           NEW ph \in {"read", "write"}, phase' = [phase EXCEPT ![c] = ph],
           UNCHANGED <<store, file, status, at, made, before, faults>>,
           seq' \in [Clients -> 0..durableSeq],
           \A d \in Clients \ {c} : seq'[d] = seq[d],
           at[c].slot = SupersedesSlot => There(Memory(RowOf(c).supersedes)),
           at[c].slot = VectorSlot =>
              There(Memory(RowOf(c).id)) /\ nodeSeq[RowOf(c).id] <= seq'[c],
           at[c].slot = 1 => /\ RowOf(c).id \notin before[c]
                             /\ \A n \in made[c] : file[c][n].id # RowOf(c).id
    PROVE  ImportInv'
  <1>1. TypeOK /\ StoreOK /\ CallOK(c)
    BY Parts
  <1>2. StoreOK' /\ StoreGrows
    BY <1>1, SameStore
  <1>3. TypeOK'
    BY <1>1 DEF TypeOK, store, Phases
  <1>4. CallOK(c)'
    <2>1. PassedOf(c)'
      BY <1>1 DEF CallOK, PassedOf, Passed, TargetSeen, Have, There, store
    <2>2. ReadsOf(c)'
      <3>1. phase'[c] = ph
        BY <1>1 DEF TypeOK
      <3> QED
        BY <3>1 DEF ReadsOf, RowOf, There, store
    <2>3. MadeOf(c)' /\ CountsOf(c)'
      BY <1>1 DEF CallOK, MadeOf, CountsOf, Passed
    <2>4. RejectedOf(c)'
      BY DEF RejectedOf
    <2> QED
      BY <2>1, <2>2, <2>3, <2>4 DEF CallOK
  <1>5. ASSUME NEW d \in Clients, d # c PROVE CallOK(d)'
    <2>1. CallStands(d)
      BY <1>1, <1>5 DEF TypeOK, CallStands
    <2> QED
      BY <1>2, <2>1, OtherCall
  <1> QED
    BY <1>2, <1>3, <1>4, <1>5, PartsNext

LEMMA ReadTargetInv ==
    ASSUME ImportInv, NEW c \in Clients, ReadTarget(c)
    PROVE  ImportInv'
  <1>1. /\ status[c] = "running" /\ phase[c] = "target"
        /\ UNCHANGED <<store, seq, made>>
    BY DEF ReadTarget, Running
  <1>2. TypeOK /\ CallOK(c)
    BY Parts
  <1>3. at[c].slot = 13
    BY <1>1, <1>2 DEF CallOK, ReadsOf, SupersedesSlot
  <1>4. CASE /\ There(Memory(RowOf(c).supersedes))
             /\ phase' = [phase EXCEPT ![c] = "read"]
             /\ UNCHANGED <<file, status, at, before, faults>>
    <2>1. seq' \in [Clients -> 0..durableSeq] /\ \A d \in Clients \ {c} : seq'[d] = seq[d]
      BY <1>1, <1>2 DEF TypeOK
    <2>2. at[c].slot # VectorSlot /\ at[c].slot # 1
      BY <1>3 DEF VectorSlot
    <2> QED
      BY <1>1, <1>4, <2>1, <2>2, ReadInv
  <1>5. CASE ~There(Memory(RowOf(c).supersedes)) /\ MoveOn(c)
    <2>1. ~TargetSeen(c, at[c])
      BY <1>1, <1>3, <1>5, SeenIsThere DEF SupersedesSlot
    <2> QED
      BY <1>1, <1>3, <1>5, <2>1, MovesInv DEF SupersedesSlot
  <1> QED
    BY <1>4, <1>5 DEF ReadTarget

LEMMA ReadThingInv ==
    ASSUME ImportInv, NEW c \in Clients, ReadThing(c)
    PROVE  ImportInv'
  <1>1. /\ status[c] = "running" /\ phase[c] = "read" /\ at[c].slot # VectorSlot
        /\ UNCHANGED <<store, seq, made>>
    BY DEF ReadThing, Running, IsVector
  <1>2. TypeOK /\ CallOK(c) /\ StoreOK
    BY Parts
  <1>3. CASE There(Here(c).thing) /\ MoveOn(c)
    <2>1. HaveNext(file[c], at[c])
      BY <1>1, <1>3 DEF HaveNext, There, Here, store
    <2> QED
      BY <1>1, <1>3, <2>1, MovesInv
  <1>4. CASE /\ ~There(Here(c).thing)
             /\ phase' = [phase EXCEPT ![c] = "write"]
             /\ UNCHANGED <<file, status, at, before, faults>>
    <2>1. seq' \in [Clients -> 0..durableSeq] /\ \A d \in Clients \ {c} : seq'[d] = seq[d]
      BY <1>1, <1>2 DEF TypeOK
    <2>2. ASSUME at[c].slot = SupersedesSlot PROVE There(Memory(RowOf(c).supersedes))
      BY <1>1, <1>2, <2>2 DEF CallOK, ReadsOf
    <2>3. ASSUME at[c].slot = 1
          PROVE  /\ RowOf(c).id \notin before[c]
                 /\ \A n \in made[c] : file[c][n].id # RowOf(c).id
      <3>1. at[c] \in Places(file[c])
        BY <1>2 DEF TypeOK
      <3>2. ~There(Record(RowOf(c).id))
        BY <1>4, <2>3, <3>1, StepFacts DEF Here, RowOf
      <3>3. RowOf(c).id \notin DOMAIN nodeSeq
        <4>1. There(Memory(RowOf(c).id)) => There(Record(RowOf(c).id))
          BY <1>2, Names DEF StoreOK, NothingDangles, There
        <4> QED
          BY <1>2, <3>2, <4>1, MemoryNumbered DEF StoreOK
      <3>4. ASSUME NEW n \in made[c] PROVE There(Record(file[c][n].id))
        <4> DEFINE q == [row |-> n, slot |-> 1]
        <4>1. q \in Places(file[c])
          BY <1>2 DEF TypeOK, Places, Slots
        <4>2. q \in Wanted(file[c])
          BY <4>1 DEF Wanted, Wants
        <4>3. Passed(c, q)
          BY <1>2 DEF CallOK, MadeOf
        <4>4. Have(file[c], q)
          BY <1>2, <4>2, <4>3 DEF CallOK, PassedOf, SupersedesSlot
        <4>5. Step(file[c], q).thing = Record(file[c][n].id)
          BY <4>1, StepFacts
        <4> QED
          BY <4>4, <4>5 DEF Have, VectorSlot
      <3> QED
        BY <1>2, <3>2, <3>3, <3>4 DEF TypeOK
    <2> QED
      BY <1>1, <1>4, <2>1, <2>2, <2>3, ReadInv
  <1> QED
    BY <1>3, <1>4 DEF ReadThing

LEMMA ReadSeqInv ==
    ASSUME ImportInv, NEW c \in Clients, ReadSeq(c)
    PROVE  ImportInv'
  <1> DEFINE f == file[c]
             q == [row |-> at[c].row, slot |-> 2]
  <1>1. /\ status[c] = "running" /\ at[c].slot = 3
        /\ seq' = [seq EXCEPT ![c] = durableSeq]
        /\ phase' = [phase EXCEPT ![c] = "write"]
        /\ UNCHANGED <<store, file, status, at, made, before, faults>>
    BY DEF ReadSeq, Running, IsVector, VectorSlot
  <1>2. TypeOK /\ CallOK(c) /\ StoreOK
    BY Parts
  <1>3. at[c] \in Places(f)
    BY <1>2 DEF TypeOK
  <1>4. q \in Places(f) /\ Precedes(q, at[c])
    BY <1>1, <1>3 DEF Places, Slots, Precedes, LastEntity
  <1>5. q \in Wanted(f)
    BY <1>4 DEF Wanted, Wants
  <1>6. Have(f, q)
    BY <1>1, <1>2, <1>4, <1>5 DEF CallOK, PassedOf, Passed, SupersedesSlot
  <1>7. Step(f, q).thing = Memory(RowOf(c).id)
    BY <1>4, StepFacts DEF RowOf
  <1>8. There(Memory(RowOf(c).id))
    BY <1>6, <1>7 DEF Have, VectorSlot
  <1>9. nodeSeq[RowOf(c).id] \in 1..durableSeq
    BY <1>2, <1>8, MemoryNumbered DEF StoreOK, TypeOK
  <1>10. /\ seq' \in [Clients -> 0..durableSeq] /\ seq'[c] = durableSeq
         /\ \A d \in Clients \ {c} : seq'[d] = seq[d]
    BY <1>1, <1>2 DEF TypeOK
  <1>11. nodeSeq[RowOf(c).id] <= seq'[c]
    BY <1>2, <1>9, <1>10 DEF TypeOK
  <1>12. at[c].slot # SupersedesSlot /\ at[c].slot # 1
    BY <1>1 DEF SupersedesSlot
  <1> QED
    BY <1>1, <1>8, <1>10, <1>11, <1>12, ReadInv

(***************************************************************************)
(* Writes.                                                                 *)
(***************************************************************************)
StoreTypes ==
    /\ dead \subseteq born
    /\ durableSeq \in Nat
    /\ \A id \in DOMAIN nodeSeq : nodeSeq[id] \in 1..durableSeq
    /\ \A id \in DOMAIN vectors : vectors[id] \in 0..durableSeq
    /\ DOMAIN entries \subseteq DOMAIN vectors
    /\ \A id \in DOMAIN entries : entries[id] \in 0..durableSeq
    /\ indexedSeq \in 0..durableSeq

\* A thing that is created has all it refers to.
LEMMA CreatedOK ==
    ASSUME ImportInv, NEW c \in Clients, Running(c, "write"), ~IsVector(c),
           ~There(Here(c).thing), \A t \in Here(c).needs : Live(t),
           Created(c), dead' = dead, vectors' = vectors,
           entries' \in {entries, vectors}, indexedSeq' \in 0..durableSeq,
           \A id \in DOMAIN entries' : entries'[id] <= indexedSeq'
    PROVE  StoreOK' /\ StoreGrows /\ StoreTypes'
  <1> DEFINE f == file[c]
             new == Here(c).thing
             id0 == RowOf(c).id
  <1>1. TypeOK /\ StoreOK /\ CallOK(c)
    BY Parts
  <1>2. /\ at[c] \in Places(f) /\ at[c].slot # 3
        /\ status[c] = "running"
    BY <1>1 DEF TypeOK, Running, IsVector, VectorSlot
  <1>3. /\ born' = born \union {new} /\ durableSeq' = durableSeq + 1
        /\ nodeSeq' = IF new = Memory(id0) THEN With(nodeSeq, id0, durableSeq') ELSE nodeSeq
    BY DEF Created
  <1>4. /\ new[1] = "node:memory" => at[c].slot = 2
        /\ at[c].slot = 2 => new = Memory(id0)
        /\ new[1] = "span" => at[c].slot = 8
        /\ at[c].slot = 8 => new = Span(id0) /\ Here(c).needs = {Record(id0), Chunk(id0)}
        /\ Len(new) = 3 => Here(c).needs = {new[2], new[3]}
    <2>1. /\ at[c].slot \in 1..13
          /\ at[c].slot <= 8 => Len(new) = 2
      BY <1>2, PlaceIs, StepFacts DEF Here
    <2> QED
      BY <1>2, <2>1, StepFacts DEF Here, RowOf
  <1>5. new = Memory(id0) => id0 \notin DOMAIN nodeSeq
    BY <1>1, MemoryNumbered DEF StoreOK
  <1>6. /\ \A id \in DOMAIN nodeSeq : id \in DOMAIN nodeSeq' /\ nodeSeq'[id] = nodeSeq[id]
        /\ \A id \in DOMAIN nodeSeq' : \/ id \in DOMAIN nodeSeq
                                       \/ new = Memory(id0) /\ id = id0
                                          /\ nodeSeq'[id] = durableSeq + 1
        /\ new = Memory(id0) => id0 \in DOMAIN nodeSeq'
    BY <1>3, <1>5 DEF With
  <1>7. StoreGrows
    BY <1>1, <1>3, <1>6 DEF StoreGrows, TypeOK
  <1>8. StoreTypes'
    <2>1. durableSeq' \in Nat /\ dead' \subseteq born' /\ indexedSeq' \in 0..durableSeq'
      BY <1>1, <1>3 DEF TypeOK
    <2>2. /\ \A id \in DOMAIN vectors' : vectors'[id] \in 0..durableSeq'
          /\ DOMAIN entries' \subseteq DOMAIN vectors'
          /\ \A id \in DOMAIN entries' : entries'[id] \in 0..durableSeq'
      BY <1>1, <1>3 DEF TypeOK
    <2>3. \A id \in DOMAIN nodeSeq' : nodeSeq'[id] \in 1..durableSeq'
      BY <1>1, <1>3, <1>6 DEF TypeOK
    <2> QED
      BY <2>1, <2>2, <2>3 DEF StoreTypes
  <1>9. NodesNumbered'
    <2>1. ASSUME NEW t \in born', t[1] = "node:memory" PROVE t[2] \in DOMAIN nodeSeq'
      <3>1. CASE t \in born
        BY <1>1, <1>6, <2>1, <3>1 DEF StoreOK, NodesNumbered
      <3>2. CASE t = new
        BY <1>4, <1>6, <2>1, <3>2, Names
      <3> QED
        BY <1>3, <3>1, <3>2
    <2>2. ASSUME NEW id \in DOMAIN nodeSeq' PROVE Memory(id) \in born'
      BY <1>1, <1>3, <1>6 DEF StoreOK, NodesNumbered, There
    <2> QED
      BY <2>1, <2>2 DEF NodesNumbered, There
  <1>10. NothingDangles'
    <2>1. ASSUME NEW t \in born', t[1] = "node:memory" PROVE Record(t[2]) \in born'
      <3>1. CASE t \in born
        BY <1>1, <1>3, <2>1, <3>1 DEF StoreOK, NothingDangles, There
      <3>2. CASE t = new
        <4> DEFINE q == [row |-> at[c].row, slot |-> 1]
        <4>1. at[c].slot = 2 /\ t = Memory(id0)
          BY <1>4, <2>1, <3>2
        <4>2. q \in Places(f) /\ Precedes(q, at[c])
          BY <1>2, <4>1, PlaceIs DEF Places, Slots, Precedes, LastEntity
        <4>3. q \in Wanted(f)
          BY <4>2 DEF Wanted, Wants
        <4>4. Have(f, q)
          BY <1>1, <1>2, <4>2, <4>3 DEF CallOK, PassedOf, Passed, SupersedesSlot
        <4>5. Step(f, q).thing = Record(id0)
          BY <4>2, StepFacts DEF RowOf
        <4> QED
          BY <1>3, <4>1, <4>4, <4>5, Names DEF Have, There, VectorSlot
      <3> QED
        BY <1>3, <3>1, <3>2
    <2>2. ASSUME NEW id \in DOMAIN vectors' PROVE Memory(id) \in born'
      BY <1>1, <1>3 DEF StoreOK, NothingDangles, There
    <2>3. ASSUME NEW t \in born', t[1] = "span"
          PROVE  Record(t[2]) \in born' /\ Chunk(t[2]) \in born'
      <3>1. CASE t \in born
        BY <1>1, <1>3, <2>3, <3>1 DEF StoreOK, NothingDangles, There
      <3>2. CASE t = new
        <4>1. t = Span(id0) /\ Here(c).needs = {Record(id0), Chunk(id0)}
          BY <1>4, <2>3, <3>2
        <4> QED
          BY <1>3, <4>1, Names DEF Live, There
      <3> QED
        BY <1>3, <3>1, <3>2
    <2>4. ASSUME NEW t \in born', Len(t) = 3 PROVE t[2] \in born' /\ t[3] \in born'
      <3>1. CASE t \in born
        BY <1>1, <1>3, <2>4, <3>1 DEF StoreOK, NothingDangles, There
      <3>2. CASE t = new
        BY <1>3, <1>4, <2>4, <3>2 DEF Live, There
      <3> QED
        BY <1>3, <3>1, <3>2
    <2> QED
      BY <2>1, <2>2, <2>3, <2>4 DEF NothingDangles, There
  <1>11. VectorsSourced'
    <2>1. ASSUME NEW id \in DOMAIN vectors
          PROVE  There(Memory(id))' /\ nodeSeq'[id] = nodeSeq[id]
      <3>1. There(Memory(id))
        BY <1>1 DEF StoreOK, VectorsSourced
      <3>2. id \in DOMAIN nodeSeq
        BY <1>1, <3>1, MemoryNumbered DEF StoreOK
      <3> QED
        BY <1>3, <1>6, <3>1, <3>2 DEF There
    <2>2. DOMAIN entries' \subseteq DOMAIN vectors
      BY <1>1 DEF TypeOK
    <2>3. ASSUME NEW id \in DOMAIN vectors PROVE nodeSeq'[id] <= vectors'[id]
      BY <1>1, <2>1 DEF StoreOK, VectorsSourced
    <2>4. ASSUME NEW id \in DOMAIN entries' PROVE nodeSeq'[id] <= entries'[id]
      BY <1>1, <2>1, <2>2 DEF StoreOK, VectorsSourced
    <2> QED
      BY <2>1, <2>3, <2>4 DEF VectorsSourced
  <1> QED
    BY <1>7, <1>8, <1>9, <1>10, <1>11 DEF StoreOK

\* A call that moves on with a thing created, found or counted.
LEMMA WritesInv ==
    ASSUME ImportInv, NEW c \in Clients, status[c] = "running", MoveOn(c),
           StoreOK', StoreGrows, StoreTypes', DOMAIN nodeSeq \subseteq DOMAIN nodeSeq',
           seq' \in [Clients -> 0..durableSeq'], \A d \in Clients \ {c} : seq'[d] = seq[d],
           \/ made' = made
           \/ /\ at[c].slot = 1 /\ phase[c] = "write"
              /\ made' = [made EXCEPT ![c] = @ \union {at[c].row}],
           HaveNext(file[c], at[c])
    PROVE  ImportInv'
  <1>1. TypeOK
    BY Parts
  <1>2. CallTypes' /\ before' = before /\ faults' = faults /\ file' = file
    BY <1>1, MoveTypes
  <1>3. at[c].row \in 1..Len(file[c]) /\ Len(file[c]) \in Nat
    BY <1>1, FileShape, PlaceIs
  <1>4. TypeOK'
    <2>1. /\ made' \in [Clients -> SUBSET (Nat \ {0})]
          /\ \A d \in Clients : made'[d] \subseteq 1..Len(file[d])
      <3>1. /\ made \in [Clients -> SUBSET (Nat \ {0})]
            /\ \A d \in Clients : made[d] \subseteq 1..Len(file[d])
        BY <1>1 DEF TypeOK
      <3>2. CASE made' = made
        BY <3>1, <3>2
      <3>3. CASE made' = [made EXCEPT ![c] = @ \union {at[c].row}]
        <4>1. made'[c] = made[c] \union {at[c].row}
              /\ \A d \in Clients \ {c} : made'[d] = made[d]
          BY <3>1, <3>3
        <4>2. made[c] \union {at[c].row} \in SUBSET (Nat \ {0})
              /\ made[c] \union {at[c].row} \subseteq 1..Len(file[c])
          BY <1>3, <3>1
        <4> QED
          BY <3>1, <3>3, <4>1, <4>2
      <3> QED
        BY <3>2, <3>3
    <2>2. before \in [Clients -> SUBSET DOMAIN nodeSeq']
      BY <1>1 DEF TypeOK
    <2> QED
      BY <1>2, <2>1, <2>2 DEF TypeOK, CallTypes, StoreTypes
  <1>5. CallOK(c)'
    <2>1. \/ made'[c] = made[c]
          \/ /\ at[c].slot = 1 /\ phase[c] = "write"
             /\ made'[c] = made[c] \union {at[c].row}
      BY <1>1 DEF TypeOK
    <2> QED
      BY <2>1, CallMoves
  <1>6. ASSUME NEW d \in Clients, d # c PROVE CallOK(d)'
    <2>1. made'[d] = made[d] /\ seq'[d] = seq[d]
      BY <1>1, <1>6 DEF TypeOK
    <2>2. CallStands(d)
      BY <1>1, <1>2, <1>6, <2>1, OneMoves DEF CallStands
    <2> QED
      BY <1>2, <2>2, OtherCall
  <1> QED
    BY <1>4, <1>5, <1>6, PartsNext

LEMMA WriteCreatesInv ==
    ASSUME ImportInv, NEW c \in Clients, WriteCreates(c)
    PROVE  ImportInv'
  <1>1. /\ Running(c, "write") /\ ~IsVector(c) /\ ~There(Here(c).thing)
        /\ \A t \in Here(c).needs : Live(t)
        /\ Created(c) /\ Counted(c) /\ MoveOn(c)
        /\ dead' = dead /\ vectors' = vectors /\ entries' = entries
        /\ indexedSeq' = indexedSeq /\ seq' = seq
    BY DEF WriteCreates
  <1>2. TypeOK /\ StoreOK
    BY Parts
  <1>3. StoreOK' /\ StoreGrows /\ StoreTypes'
    <2>1. /\ indexedSeq' \in 0..durableSeq
          /\ \A id \in DOMAIN entries' : entries'[id] <= indexedSeq'
      BY <1>1, <1>2 DEF TypeOK, StoreOK, VectorsSourced
    <2> QED
      BY <1>1, <2>1, CreatedOK
  <1>4. DOMAIN nodeSeq \subseteq DOMAIN nodeSeq'
    BY <1>3 DEF StoreGrows
  <1>5. /\ seq' \in [Clients -> 0..durableSeq'] /\ \A d \in Clients \ {c} : seq'[d] = seq[d]
    BY <1>1, <1>2 DEF TypeOK, Created
  <1>6. \/ made' = made
        \/ /\ at[c].slot = 1 /\ phase[c] = "write"
           /\ made' = [made EXCEPT ![c] = @ \union {at[c].row}]
    BY <1>1 DEF Counted, Running
  <1>7. HaveNext(file[c], at[c])
    BY <1>1 DEF HaveNext, Here, Created, IsVector
  <1>8. status[c] = "running"
    BY <1>1 DEF Running
  <1> QED
    BY <1>1, <1>3, <1>4, <1>5, <1>6, <1>7, <1>8, WritesInv

LEMMA WriteAnsweredInv ==
    ASSUME ImportInv, NEW c \in Clients, WriteAnswered(c)
    PROVE  ImportInv'
  <1>1. /\ Running(c, "write") /\ ~IsVector(c) /\ There(Here(c).thing)
        /\ Counted(c) /\ MoveOn(c) /\ UNCHANGED store /\ seq' = seq
    BY DEF WriteAnswered
  <1>2. TypeOK /\ StoreOK
    BY Parts
  <1>3. StoreOK' /\ StoreGrows
    BY <1>1, <1>2, SameStore
  <1>4. StoreTypes' /\ DOMAIN nodeSeq \subseteq DOMAIN nodeSeq'
    BY <1>1, <1>2 DEF TypeOK, StoreTypes, store
  <1>5. /\ seq' \in [Clients -> 0..durableSeq'] /\ \A d \in Clients \ {c} : seq'[d] = seq[d]
    BY <1>1, <1>2 DEF TypeOK, store
  <1>6. \/ made' = made
        \/ /\ at[c].slot = 1 /\ phase[c] = "write"
           /\ made' = [made EXCEPT ![c] = @ \union {at[c].row}]
    BY <1>1 DEF Counted, Running
  <1>7. HaveNext(file[c], at[c])
    BY <1>1 DEF HaveNext, Here, There, IsVector, store
  <1>8. status[c] = "running"
    BY <1>1 DEF Running
  <1> QED
    BY <1>1, <1>3, <1>4, <1>5, <1>6, <1>7, <1>8, WritesInv

\* What a refused write lacks was there, and so was deleted.
LEMMA WriteRejectedInv ==
    ASSUME ImportInv, NEW c \in Clients, WriteRejected(c)
    PROVE  ImportInv'
  <1> DEFINE f == file[c]
  <1>1. /\ status[c] = "running" /\ phase[c] = "write" /\ at[c] \in Wanted(f)
        /\ status' = [status EXCEPT ![c] = "rejected"]
        /\ UNCHANGED <<store, file, at, phase, seq, made, before, faults>>
    BY DEF WriteRejected, Running, WantedHere
  <1>2. TypeOK /\ StoreOK /\ CallOK(c)
    BY Parts
  <1>3. StoreOK' /\ StoreGrows
    BY <1>1, <1>2, SameStore
  <1>4. TypeOK'
    <2>1. status' \in [Clients -> AtRest \union {"running"}]
      BY <1>1, <1>2 DEF TypeOK, AtRest
    <2> QED
      BY <1>1, <1>2, <2>1 DEF TypeOK, store
  <1>5. PICK t \in Here(c).needs : ~Live(t)
    BY DEF WriteRejected
  <1>6. There(t)
    <2>1. t \in Step(f, at[c]).needs
      BY <1>5 DEF Here
    <2>2. CASE \E q \in Wanted(f) : /\ Precedes(q, at[c]) /\ q.slot \notin {3, 13}
                                    /\ Step(f, q).thing = t
      <3>1. PICK q \in Wanted(f) : /\ Precedes(q, at[c]) /\ q.slot \notin {3, 13}
                                   /\ Step(f, q).thing = t
        BY <2>2
      <3>2. Have(f, q)
        BY <1>1, <1>2, <3>1 DEF CallOK, PassedOf, Passed, SupersedesSlot
      <3> QED
        BY <3>1, <3>2 DEF Have, VectorSlot
    <2>3. CASE at[c].slot = 13 /\ t = Memory(f[at[c].row].supersedes)
      BY <1>1, <1>2, <2>3 DEF CallOK, ReadsOf, RowOf, SupersedesSlot
    <2> QED
      BY <1>1, <2>1, <2>2, <2>3, NeedsEarlier
  <1>7. CallOK(c)'
    <2>1. status'[c] = "rejected"
      BY <1>1, <1>2 DEF TypeOK
    <2>2. PassedOf(c)'
      BY <1>1, <1>2, <2>1 DEF CallOK, PassedOf, Passed, TargetSeen, Have, There, store
    <2>3. ReadsOf(c)'
      BY <2>1 DEF ReadsOf
    <2>4. MadeOf(c)' /\ CountsOf(c)'
      BY <1>1, <1>2, <2>1 DEF CallOK, MadeOf, CountsOf, Passed
    <2>5. RejectedOf(c)'
      BY <1>1, <1>5, <1>6 DEF RejectedOf, Here, Live, There, store
    <2> QED
      BY <2>2, <2>3, <2>4, <2>5 DEF CallOK
  <1>8. ASSUME NEW d \in Clients, d # c PROVE CallOK(d)'
    <2>1. CallStands(d)
      BY <1>1, <1>2, <1>8 DEF TypeOK, CallStands
    <2> QED
      BY <1>1, <1>3, <2>1, OtherCall
  <1> QED
    BY <1>3, <1>4, <1>7, <1>8, PartsNext

\* A vector's file keeps the vectors sourced, whether the entry follows or not.
LEMMA InstalledOK ==
    ASSUME ImportInv, NEW c \in Clients, Running(c, "write"), IsVector(c), Installed(c),
           entries' \in {entries, With(entries, RowOf(c).id, seq[c])},
           indexedSeq' \in indexedSeq..durableSeq,
           \A id \in DOMAIN entries' : entries'[id] <= indexedSeq'
    PROVE  /\ StoreOK' /\ StoreGrows /\ StoreTypes' /\ durableSeq' = durableSeq
           /\ nodeSeq' = nodeSeq
  <1> DEFINE id0 == RowOf(c).id
  <1>1. TypeOK /\ StoreOK /\ CallOK(c)
    BY Parts
  <1>2. /\ status[c] = "running" /\ phase[c] = "write" /\ at[c].slot = VectorSlot
    BY DEF Running, IsVector
  <1>3. There(Memory(id0)) /\ nodeSeq[id0] <= seq[c] /\ seq[c] \in 0..durableSeq
    BY <1>1, <1>2 DEF CallOK, ReadsOf, TypeOK
  <1>4. /\ vectors' = With(vectors, id0, seq[c])
        /\ born' = born /\ dead' = dead /\ durableSeq' = durableSeq /\ nodeSeq' = nodeSeq
    BY DEF Installed
  <1>5. /\ DOMAIN vectors' = DOMAIN vectors \union {id0}
        /\ \A id \in DOMAIN vectors' :
              vectors'[id] = IF id = id0 THEN seq[c] ELSE vectors[id]
    BY <1>4 DEF With
  <1>6. /\ DOMAIN entries \subseteq DOMAIN entries'
        /\ DOMAIN entries' \subseteq DOMAIN entries \union {id0}
        /\ \A id \in DOMAIN entries' :
              \/ id = id0 /\ entries'[id] = seq[c]
              \/ id \in DOMAIN entries /\ entries'[id] = entries[id]
    BY DEF With
  <1>7. StoreGrows
    BY <1>4, <1>6 DEF StoreGrows
  <1>8. StoreTypes'
    <2>1. \A id \in DOMAIN vectors' : vectors'[id] \in 0..durableSeq
      BY <1>1, <1>3, <1>5 DEF TypeOK
    <2>2. /\ DOMAIN entries' \subseteq DOMAIN vectors'
          /\ \A id \in DOMAIN entries' : entries'[id] \in 0..durableSeq
      BY <1>1, <1>3, <1>5, <1>6 DEF TypeOK
    <2>3. indexedSeq' \in 0..durableSeq
      BY <1>1 DEF TypeOK
    <2> QED
      BY <1>1, <1>4, <2>1, <2>2, <2>3 DEF StoreTypes, TypeOK
  <1>9. NodesNumbered' /\ NothingDangles'
    BY <1>1, <1>3, <1>4, <1>5 DEF StoreOK, NodesNumbered, NothingDangles, There
  <1>10. VectorsSourced'
    <2>1. ASSUME NEW id \in DOMAIN vectors'
          PROVE  There(Memory(id)) /\ nodeSeq[id] <= vectors'[id]
      BY <1>1, <1>3, <1>5 DEF StoreOK, VectorsSourced
    <2>2. ASSUME NEW id \in DOMAIN entries' PROVE nodeSeq[id] <= entries'[id]
      BY <1>1, <1>3, <1>6 DEF StoreOK, VectorsSourced
    <2> QED
      BY <1>4, <2>1, <2>2 DEF VectorsSourced, There
  <1> QED
    BY <1>4, <1>7, <1>8, <1>9, <1>10 DEF StoreOK

LEMMA UpsertedOK ==
    ASSUME ImportInv, NEW c \in Clients, Running(c, "write"), IsVector(c), Upserted(c)
    PROVE  /\ StoreOK' /\ StoreGrows /\ StoreTypes'
           /\ HaveNext(file[c], at[c]) /\ durableSeq' = durableSeq
           /\ nodeSeq' = nodeSeq
  <1> DEFINE id0 == RowOf(c).id
  <1>1. TypeOK /\ StoreOK
    BY Parts
  <1>2. /\ Installed(c) /\ entries' = With(entries, id0, seq[c])
        /\ indexedSeq' = Larger(indexedSeq, seq[c])
    BY DEF Upserted
  <1>3. /\ seq[c] \in 0..durableSeq /\ indexedSeq \in 0..durableSeq
        /\ \A id \in DOMAIN entries : entries[id] \in 0..durableSeq
        /\ durableSeq \in Nat
    BY <1>1 DEF TypeOK
  <1>4. indexedSeq' \in indexedSeq..durableSeq /\ seq[c] <= indexedSeq'
    BY <1>2, <1>3 DEF Larger
  <1>5. /\ id0 \in DOMAIN entries'
        /\ \A id \in DOMAIN entries' :
              \/ id = id0 /\ entries'[id] = seq[c]
              \/ id \in DOMAIN entries /\ entries'[id] = entries[id]
    BY <1>2 DEF With
  <1>6. \A id \in DOMAIN entries' : entries'[id] <= indexedSeq'
    BY <1>1, <1>3, <1>4, <1>5 DEF StoreOK, VectorsSourced
  <1>7. HaveNext(file[c], at[c])
    BY <1>5 DEF HaveNext, RowOf, IsVector
  <1> QED
    BY <1>2, <1>4, <1>6, <1>7, InstalledOK

LEMMA UpsertInv ==
    ASSUME ImportInv, NEW c \in Clients, Upsert(c)
    PROVE  ImportInv'
  <1>1. /\ Running(c, "write") /\ IsVector(c) /\ Upserted(c) /\ MoveOn(c)
        /\ seq' = [seq EXCEPT ![c] = 0] /\ made' = made
    BY DEF Upsert
  <1>2. TypeOK
    BY Parts
  <1>3. /\ StoreOK' /\ StoreGrows /\ StoreTypes'
        /\ HaveNext(file[c], at[c]) /\ durableSeq' = durableSeq
        /\ nodeSeq' = nodeSeq
    BY <1>1, UpsertedOK
  <1>4. /\ seq' \in [Clients -> 0..durableSeq'] /\ \A d \in Clients \ {c} : seq'[d] = seq[d]
    BY <1>1, <1>2, <1>3 DEF TypeOK
  <1>5. status[c] = "running" /\ DOMAIN nodeSeq \subseteq DOMAIN nodeSeq'
    BY <1>1, <1>3 DEF Running
  <1> QED
    BY <1>1, <1>3, <1>4, <1>5, WritesInv

(***************************************************************************)
(* Errors, crashes and deletions.                                          *)
(***************************************************************************)
LEMMA LostInv ==
    ASSUME ImportInv, NEW C \in SUBSET Clients, Lost(C),
           StoreOK', StoreGrows, StoreTypes', durableSeq <= durableSeq'
    PROVE  ImportInv'
  <1>1. TypeOK
    BY Parts
  <1>2. /\ faults < MaxFaults /\ faults' = faults + 1 /\ file' = file /\ before' = before
        /\ status' = [c \in Clients |-> IF c \in C THEN "failed" ELSE status[c]]
        /\ at' = [c \in Clients |-> IF c \in C THEN First ELSE at[c]]
        /\ phase' = [c \in Clients |-> IF c \in C THEN "read" ELSE phase[c]]
        /\ seq' = [c \in Clients |-> IF c \in C THEN 0 ELSE seq[c]]
        /\ made' = [c \in Clients |-> IF c \in C THEN {} ELSE made[c]]
    BY DEF Lost
  <1>3. TypeOK'
    <2>1. status' \in [Clients -> AtRest \union {"running"}] /\ phase' \in [Clients -> Phases]
      BY <1>1, <1>2 DEF TypeOK, AtRest, Phases
    <2>2. First \in [row : Nat \ {0}, slot : Slots]
      BY DEF First, Slots
    <2>3. at' \in [Clients -> [row : Nat \ {0}, slot : Slots]]
      BY <1>1, <1>2, <2>2 DEF TypeOK
    <2>4. ASSUME NEW c \in Clients PROVE at'[c] \in Places(file[c])
      <3>1. First \in Places(file[c]) /\ at[c] \in Places(file[c])
        BY <1>1, FileShape DEF First, Places, Slots
      <3> QED
        BY <1>2, <3>1
    <2>5. seq' \in [Clients -> 0..durableSeq']
      <3>1. \A c \in Clients : seq[c] \in 0..durableSeq'
        BY <1>1 DEF TypeOK, StoreTypes
      <3>2. 0 \in 0..durableSeq'
        BY DEF StoreTypes
      <3> QED
        BY <1>2, <3>1, <3>2
    <2>6. /\ made' \in [Clients -> SUBSET (Nat \ {0})]
          /\ \A c \in Clients : made'[c] \subseteq 1..Len(file[c])
      BY <1>1, <1>2 DEF TypeOK
    <2>7. before \in [Clients -> SUBSET DOMAIN nodeSeq']
      BY <1>1 DEF TypeOK, StoreGrows
    <2>8. faults' \in 0..MaxFaults
      BY <1>1, <1>2, BoundAssumption DEF TypeOK
    <2> QED
      BY <1>1, <1>2, <2>1, <2>3, <2>4, <2>5, <2>6, <2>7, <2>8 DEF TypeOK, StoreTypes
  <1>4. ASSUME NEW c \in Clients PROVE CallOK(c)'
    <2>1. CASE c \in C
      <3>1. status'[c] = "failed" /\ made'[c] = {}
        BY <1>2, <2>1
      <3> QED
        BY <3>1 DEF CallOK, PassedOf, Passed, ReadsOf, MadeOf, CountsOf, RejectedOf
    <2>2. CASE c \notin C
      BY <1>2, <2>2, OtherCall DEF CallStands
    <2> QED
      BY <2>1, <2>2
  <1> QED
    BY <1>3, <1>4, PartsNext

LEMMA FailsInv ==
    ASSUME ImportInv, NEW c \in Clients, Fails(c)
    PROVE  ImportInv'
  <1>1. TypeOK /\ StoreOK
    BY Parts
  <1>2. Lost({c}) /\ {c} \in SUBSET Clients
    BY DEF Fails
  <1>3. CASE UNCHANGED store
    <2>1. StoreOK' /\ StoreGrows
      BY <1>1, <1>3, SameStore
    <2>2. StoreTypes' /\ durableSeq <= durableSeq'
      BY <1>1, <1>3 DEF TypeOK, StoreTypes, store
    <2> QED
      BY <1>2, <2>1, <2>2, LostInv
  <1>4. CASE /\ Running(c, "write") /\ IsVector(c) /\ Installed(c)
             /\ UNCHANGED <<entries, indexedSeq>>
    <2>0. /\ entries' = entries /\ indexedSeq' \in indexedSeq..durableSeq
          /\ \A id \in DOMAIN entries' : entries'[id] <= indexedSeq'
      BY <1>1, <1>4 DEF TypeOK, StoreOK, VectorsSourced
    <2>1. StoreOK' /\ StoreGrows /\ StoreTypes' /\ durableSeq' = durableSeq
      BY <1>4, <2>0, InstalledOK
    <2>2. durableSeq <= durableSeq'
      BY <1>1, <2>1 DEF TypeOK
    <2> QED
      BY <1>2, <2>1, <2>2, LostInv
  <1> QED
    BY <1>3, <1>4 DEF Fails

\* Loading the files again finds their highest number.
LEMMA ReloadedSeq ==
    ASSUME TypeOK, Reloaded
    PROVE  /\ entries' = vectors /\ indexedSeq' \in 0..durableSeq
           /\ \A id \in DOMAIN vectors : vectors[id] <= indexedSeq'
  BY DEF TypeOK, Reloaded

LEMMA CrashInv ==
    ASSUME ImportInv, Crash
    PROVE  ImportInv'
  <1> DEFINE C == {c \in Clients : status[c] = "running"}
  <1>1. TypeOK /\ StoreOK
    BY Parts
  <1>2. Lost(C) /\ C \in SUBSET Clients /\ Reloaded /\ dead' = dead /\ vectors' = vectors
    BY DEF Crash
  <1>3. /\ entries' = vectors /\ indexedSeq' \in 0..durableSeq
        /\ \A id \in DOMAIN vectors : vectors[id] <= indexedSeq'
    BY <1>1, <1>2, ReloadedSeq
  <1> HIDE DEF C
  <1>4. CASE UNCHANGED <<born, durableSeq, nodeSeq>>
    <2>1. StoreGrows
      BY <1>1, <1>2, <1>3, <1>4 DEF StoreGrows, TypeOK
    <2>2. StoreTypes' /\ durableSeq <= durableSeq'
      BY <1>1, <1>2, <1>3, <1>4 DEF TypeOK, StoreTypes
    <2>3. StoreOK'
      BY <1>1, <1>2, <1>3, <1>4
      DEF StoreOK, NodesNumbered, NothingDangles, VectorsSourced, There
    <2> QED
      BY <1>2, <2>1, <2>2, <2>3, LostInv
  <1>5. ASSUME NEW c \in Clients, Running(c, "write"), ~IsVector(c),
               ~There(Here(c).thing), \A t \in Here(c).needs : Live(t), Created(c)
        PROVE  ImportInv'
    <2>1. StoreOK' /\ StoreGrows /\ StoreTypes'
      BY <1>2, <1>3, <1>5, CreatedOK
    <2>2. durableSeq <= durableSeq'
      BY <1>1, <1>5 DEF TypeOK, Created
    <2> QED
      BY <1>2, <2>1, <2>2, LostInv
  <1> QED
    BY <1>4, <1>5 DEF Crash

LEMMA DeleteInv ==
    ASSUME ImportInv, NEW t \in Deletable, Delete(t)
    PROVE  ImportInv'
  <1>1. TypeOK /\ StoreOK
    BY Parts
  <1>2. /\ Live(t) /\ dead' = dead \union {t} /\ durableSeq' = durableSeq + 1
        /\ born' = born /\ nodeSeq' = nodeSeq /\ vectors' = vectors
        /\ UNCHANGED calls /\ faults' = faults
        /\ entries' = vectors /\ indexedSeq' \in 0..durableSeq
        /\ \A id \in DOMAIN vectors : vectors[id] <= indexedSeq'
    BY <1>1, ReloadedSeq DEF Delete
  <1>3. StoreGrows
    BY <1>1, <1>2 DEF StoreGrows, TypeOK
  <1>4. StoreOK'
    BY <1>1, <1>2 DEF StoreOK, NodesNumbered, NothingDangles, VectorsSourced, There
  <1>5. TypeOK'
    <2>1. /\ durableSeq' \in Nat /\ dead' \subseteq born' /\ indexedSeq' \in 0..durableSeq'
          /\ \A id \in DOMAIN nodeSeq' : nodeSeq'[id] \in 1..durableSeq'
          /\ \A id \in DOMAIN vectors' : vectors'[id] \in 0..durableSeq'
          /\ DOMAIN entries' \subseteq DOMAIN vectors'
          /\ \A id \in DOMAIN entries' : entries'[id] \in 0..durableSeq'
      BY <1>1, <1>2 DEF TypeOK, Live, There
    <2>2. seq' \in [Clients -> 0..durableSeq']
      BY <1>1, <1>2, <2>1 DEF TypeOK, calls
    <2> QED
      BY <1>1, <1>2, <2>1, <2>2 DEF TypeOK, calls
  <1>6. ASSUME NEW c \in Clients PROVE CallOK(c)'
    BY <1>2, <1>3, OtherCall DEF calls, CallStands
  <1> QED
    BY <1>4, <1>5, <1>6, PartsNext

(***************************************************************************)
(* The theorems.                                                           *)
(***************************************************************************)
LEMMA InitInv == Init => ImportInv
  <1> SUFFICES ASSUME Init PROVE ImportInv
    OBVIOUS
  <1>1. ASSUME NEW c \in Clients PROVE First \in Places(file[c])
    <2>1. file[c] \in Seq(Row) \ {<<>>}
      BY <1>1, PostingsAssumption DEF Init
    <2>2. Len(file[c]) \in Nat \ {0}
      BY <2>1
    <2> QED
      BY <2>2 DEF First, Places, Slots
  <1>2. First \in [row : Nat \ {0}, slot : Slots]
    BY DEF First, Slots
  <1>3. TypeOK
    BY <1>1, <1>2, BoundAssumption DEF Init, TypeOK, AtRest, Phases
  <1>4. StoreOK
    BY DEF Init, StoreOK, NodesNumbered, NothingDangles, VectorsSourced
  <1>5. \A c \in Clients : CallOK(c)
    BY DEF Init, CallOK, PassedOf, Passed, ReadsOf, MadeOf, CountsOf, RejectedOf
  <1> QED
    BY <1>3, <1>4, <1>5, Parts

LEMMA StutterInv == ImportInv /\ UNCHANGED vars => ImportInv'
  <1> SUFFICES ASSUME ImportInv, UNCHANGED vars PROVE ImportInv'
    OBVIOUS
  <1>1. TypeOK /\ StoreOK
    BY Parts
  <1>2. StoreOK' /\ StoreGrows
    BY <1>1, SameStore DEF vars
  <1>3. TypeOK'
    BY <1>1 DEF TypeOK, vars, store, calls
  <1>4. \A c \in Clients : CallOK(c)'
    BY <1>2, OtherCall DEF vars, calls, CallStands
  <1> QED
    BY <1>2, <1>3, <1>4, PartsNext

LEMMA NextInv == ImportInv /\ [Next]_vars => ImportInv'
  <1> SUFFICES ASSUME ImportInv, [Next]_vars PROVE ImportInv'
    OBVIOUS
  <1>1. ASSUME NEW c \in Clients, Call(c) PROVE ImportInv'
    BY <1>1, CallInv
  <1>2. ASSUME NEW c \in Clients, Continue(c) PROVE ImportInv'
    BY <1>2, SkipInv, ReadTargetInv, ReadThingInv, WriteCreatesInv, WriteAnsweredInv,
       WriteRejectedInv, ReadSeqInv, UpsertInv DEF Continue
  <1>3. ASSUME NEW c \in Clients, Fails(c) PROVE ImportInv'
    BY <1>3, FailsInv
  <1>4. ASSUME NEW t \in Deletable, Delete(t) PROVE ImportInv'
    BY <1>4, DeleteInv
  <1> QED
    BY <1>1, <1>2, <1>3, <1>4, CrashInv, StutterInv DEF Next

\* The inductive invariant.
THEOREM ImportInvariant == Spec => []ImportInv
  <1> QED
    BY InitInv, NextInv, PTL DEF Spec

\* An import that returned has left all that its rows map to in the store, for
\* any files, any imports beside it, and any failures before.
THEOREM ImportComplete == Spec => []ContractKept
  <1>1. ImportInv => ContractKept
    BY DEF ImportInv, PassedIsThere, Passed, ContractKept
  <1> QED
    BY <1>1, ImportInvariant, PTL

\* At every moment nothing in the store or the index lacks what it refers to.
THEOREM ImportClosed == Spec => []NothingDangles
  <1>1. ImportInv => NothingDangles
    BY DEF ImportInv
  <1> QED
    BY <1>1, ImportInvariant, PTL

\* No result counts as created a memory that was there when its call began.
THEOREM ImportCountsNew == Spec => []CountsAreNew
  <1>1. ImportInv => CountsAreNew
    BY DEF ImportInv
  <1> QED
    BY <1>1, ImportInvariant, PTL

\* No import is refused for anything but a deletion.
THEOREM ImportRefusals == Spec => []RejectionsExplained
  <1>1. ImportInv => RejectionsExplained
    BY DEF ImportInv
  <1> QED
    BY <1>1, ImportInvariant, PTL

\* SourceSeq covers the node, in the file and in memory, and IndexedSeq the entry
\* in memory, in every interleaving and after a file left by a failed upsert.
THEOREM ImportSourced == Spec => []VectorsSourced
  <1>1. ImportInv => VectorsSourced
    BY DEF ImportInv
  <1> QED
    BY <1>1, ImportInvariant, PTL

\* A step creates an edge only for an import that is through its first loop.
LEMMA EdgeStep ==
    ASSUME ImportInv, [Next]_vars, NEW t \in born' \ born, Len(t) = 3
    PROVE  \E c \in Clients : Here(c).thing = t /\ EntitiesThere(file[c])
  <1>1. TypeOK
    BY Parts
  <1>2. PICK c \in Clients : Running(c, "write") /\ Created(c)
    <2>1. ASSUME NEW c \in Clients, Continue(c)
          PROVE  (born' = born) \/ (Running(c, "write") /\ Created(c))
      BY <2>1 DEF Continue, Skip, ReadTarget, ReadThing, WriteCreates, WriteAnswered,
                  WriteRejected, ReadSeq, Upsert, Upserted, Installed, store
    <2>2. ASSUME NEW c \in Clients, Call(c) \/ Fails(c) PROVE born' = born
      BY <2>2 DEF Call, Fails, Installed, store
    <2>3. ASSUME Crash
          PROVE  born' = born \/ \E c \in Clients : Running(c, "write") /\ Created(c)
      BY <2>3 DEF Crash
    <2>4. ASSUME NEW u \in Deletable, Delete(u) PROVE born' = born
      BY <2>4 DEF Delete
    <2>5. ASSUME UNCHANGED vars PROVE born' = born
      BY <2>5 DEF vars, store
    <2> QED
      BY <2>1, <2>2, <2>3, <2>4, <2>5 DEF Next
  <1> DEFINE f == file[c]
  <1>3. Here(c).thing = t /\ status[c] = "running" /\ at[c] \in Places(f)
    BY <1>1, <1>2 DEF Created, Running, TypeOK
  <1>4. at[c].slot > 8
    <2>1. at[c] \in Places(f)
      BY <1>3
    <2>2. at[c].slot \in 1..13
      BY <2>1, PlaceIs
    <2>3. at[c].slot <= 8 => Len(Step(f, at[c]).thing) = 2
      BY <2>1, StepFacts
    <2> QED
      BY <1>3, <2>2, <2>3 DEF Here
  <1>5. ASSUME NEW n \in 1..Len(f), NEW slot \in 1..8, Wants(f[n], slot)
        PROVE  Have(f, [row |-> n, slot |-> slot])
    <2> DEFINE q == [row |-> n, slot |-> slot]
    <2>1. q \in Places(f) /\ Precedes(q, at[c])
      BY <1>3, <1>4, PlaceIs DEF Places, Slots, Precedes, LastEntity
    <2>2. q \in Wanted(f)
      BY <1>5, <2>1 DEF Wanted
    <2>3. PassedOf(c)
      BY Parts DEF CallOK
    <2> QED
      BY <1>3, <2>1, <2>2, <2>3 DEF PassedOf, Passed, SupersedesSlot
  <1> QED
    BY <1>3, <1>5 DEF EntitiesThere, LastEntity

\* Edges come last.
THEOREM ImportOrder == Spec => EdgesComeLast
  <1> DEFINE Last == \A t \in born' \ born : Len(t) = 3 =>
                        \E c \in Clients : Here(c).thing = t /\ EntitiesThere(file[c])
  <1>1. ImportInv /\ [Next]_vars => Last
    BY EdgeStep
  <1> QED
    BY <1>1, ImportInvariant, PTL DEF Spec, EdgesComeLast

\* --- Every step of a call is one forward ---------------------------------

\* The loops number the places without a gap.
LEMMA NumberIs ==
    ASSUME NEW f, Len(f) \in Nat \ {0}, NEW p \in Places(f)
    PROVE  /\ Number(f, p) \in 1..(SupersedesSlot * Len(f))
           /\ ~IsLast(f, p) => Number(f, After(f, p)) = Number(f, p) + 1
  <1>1. PICK r \in 1..Len(f), s \in 1..13 : p = [row |-> r, slot |-> s]
    BY DEF Places, Slots
  <1> DEFINE n == Len(f)
  <1>2. n \in Nat /\ n >= 1 /\ r \in Nat /\ r >= 1 /\ r <= n /\ s \in Nat
    BY <1>1
  <1>3. p.row = r /\ p.slot = s
    BY <1>1
  <1> HIDE DEF n
  <1>4. Number(f, p) = IF s <= 8 THEN 8 * (r - 1) + s ELSE 8 * n + 5 * (r - 1) + s - 8
    BY <1>2, <1>3 DEF Number, LastEntity, SupersedesSlot, n
  <1>5. Number(f, p) \in 1..(13 * n)
    BY <1>1, <1>2, <1>4
  <1>6. ASSUME ~IsLast(f, p)
        PROVE  Number(f, After(f, p)) = Number(f, p) + 1
    <2>1. CASE s \notin {8, 13}
      <3>1. After(f, p) = [row |-> r, slot |-> s + 1]
        BY <1>1, <2>1 DEF After, LastEntity, SupersedesSlot
      <3>2. s + 1 <= 8 <=> s <= 8
        BY <1>1, <2>1
      <3> QED
        BY <1>2, <1>4, <3>1, <3>2 DEF Number, LastEntity, SupersedesSlot, n
    <2>2. CASE s = 8 /\ r < n
      <3>1. After(f, p) = [row |-> r + 1, slot |-> 1]
        BY <1>1, <2>2 DEF After, LastEntity, SupersedesSlot, n
      <3> QED
        BY <1>2, <1>4, <2>2, <3>1 DEF Number, LastEntity, SupersedesSlot
    <2>3. CASE s = 8 /\ r = n
      <3>1. After(f, p) = [row |-> 1, slot |-> 9]
        BY <1>1, <1>2, <2>3 DEF After, LastEntity, SupersedesSlot, n
      <3> QED
        BY <1>2, <1>4, <2>3, <3>1 DEF Number, LastEntity, SupersedesSlot, n
    <2>4. CASE s = 13
      <3>1. After(f, p) = [row |-> r + 1, slot |-> 9]
        BY <1>1, <2>4 DEF After, LastEntity, SupersedesSlot
      <3> QED
        BY <1>2, <1>4, <2>4, <3>1 DEF Number, LastEntity, SupersedesSlot, n
    <2> QED
      BY <1>2, <2>1, <2>2, <2>3, <2>4
  <1> QED
    BY <1>5, <1>6 DEF SupersedesSlot, n

LEMMA ComeTypes ==
    ASSUME TypeOK, NEW c \in Clients
    PROVE  /\ Number(file[c], at[c]) \in 1..(SupersedesSlot * Len(file[c]))
           /\ PhaseNumber[phase[c]] \in 0..2
           /\ Len(file[c]) \in Nat
           /\ Come(c) \in 3..(3 * SupersedesSlot * Len(file[c]) + 2)
  <1>1. /\ Len(file[c]) \in Nat \ {0}
        /\ Number(file[c], at[c]) \in 1..(13 * Len(file[c]))
    BY FileShape, NumberIs DEF SupersedesSlot
  <1>2. phase[c] \in {"target", "read", "write"} /\ PhaseNumber[phase[c]] \in 0..2
    BY DEF TypeOK, Phases, PhaseNumber
  <1> QED
    BY <1>1, <1>2 DEF Come, SupersedesSlot

\* A call that moves on is a place further, or through.
LEMMA MovesAdvance ==
    ASSUME TypeOK, NEW c \in Clients, status[c] = "running", MoveOn(c)
    PROVE  Advances(c)
  <1> DEFINE f == file[c]
             q == After(f, at[c])
  <1>1. Len(f) \in Nat \ {0} /\ at[c] \in Places(f)
    BY FileShape
  <1>2. /\ status \in [Clients -> AtRest \union {"running"}]
        /\ at = [d \in Clients |-> at[d]]
        /\ phase \in [Clients -> Phases]
    BY DEF TypeOK
  <1>3. CASE IsLast(f, at[c])
    BY <1>2, <1>3 DEF MoveOn, Advances
  <1>4. CASE ~IsLast(f, at[c])
    <2>1. /\ status' = status /\ file' = file /\ at'[c] = q
          /\ phase'[c] \in {"target", "read"}
      BY <1>2, <1>4 DEF MoveOn
    <2>2. Number(f, q) = Number(f, at[c]) + 1
      BY <1>1, <1>4, NumberIs
    <2>3. Number(f, at[c]) \in Nat /\ PhaseNumber[phase[c]] \in 0..2
      BY <1>1, NumberIs, ComeTypes DEF SupersedesSlot
    <2>4. PhaseNumber[phase'[c]] \in 0..1
      BY <2>1 DEF PhaseNumber, Phases
    <2>5. Come(c)' = 3 * Number(f, q) + PhaseNumber[phase'[c]]
      BY <2>1 DEF Come
    <2> HIDE DEF q
    <2>6. Come(c)' > Come(c)
      BY <2>2, <2>3, <2>4, <2>5 DEF Come
    <2> QED
      BY <2>1, <2>6 DEF Advances
  <1> QED
    BY <1>3, <1>4

\* A call that stays where it is and goes from one phase to a later one.
LEMMA PhaseAdvances ==
    ASSUME TypeOK, NEW c \in Clients, status[c] = "running",
           NEW ph \in Phases, PhaseNumber[ph] > PhaseNumber[phase[c]],
           phase' = [phase EXCEPT ![c] = ph], UNCHANGED <<file, status, at>>
    PROVE  Advances(c)
  <1>1. phase'[c] = ph /\ PhaseNumber[ph] \in 0..2
    BY DEF TypeOK, Phases, PhaseNumber
  <1>2. Number(file[c], at[c]) \in Nat /\ PhaseNumber[phase[c]] \in 0..2
    BY ComeTypes, FileShape DEF SupersedesSlot
  <1>3. Come(c)' = 3 * Number(file[c], at[c]) + PhaseNumber[ph]
    BY <1>1 DEF Come
  <1>4. Come(c)' > Come(c)
    BY <1>1, <1>2, <1>3 DEF Come
  <1> QED
    BY <1>4 DEF Advances

LEMMA ContinueAdvances ==
    ASSUME ImportInv, NEW c \in Clients, Continue(c)
    PROVE  status[c] = "running" /\ Advances(c)
  <1>1. TypeOK
    BY Parts
  <1>2. status[c] = "running"
    BY DEF Continue, Skip, ReadTarget, ReadThing, WriteCreates, WriteAnswered,
           WriteRejected, ReadSeq, Upsert, Running
  <1>3. CASE MoveOn(c)
    BY <1>1, <1>2, <1>3, MovesAdvance
  <1>4. PhaseNumber["target"] = 0 /\ PhaseNumber["read"] = 1 /\ PhaseNumber["write"] = 2
    BY DEF PhaseNumber, Phases
  <1>5. CASE ReadTarget(c) /\ ~MoveOn(c)
    <2>1. /\ phase[c] = "target" /\ phase' = [phase EXCEPT ![c] = "read"]
          /\ UNCHANGED <<file, status, at>>
      BY <1>5 DEF ReadTarget, Running
    <2>2. "read" \in Phases /\ PhaseNumber["read"] > PhaseNumber[phase[c]]
      BY <1>4, <2>1 DEF Phases
    <2> QED
      BY <1>1, <1>2, <2>1, <2>2, PhaseAdvances
  <1>6. CASE (ReadThing(c) \/ ReadSeq(c)) /\ ~MoveOn(c)
    <2>1. /\ phase[c] = "read" /\ phase' = [phase EXCEPT ![c] = "write"]
          /\ UNCHANGED <<file, status, at>>
      BY <1>6 DEF ReadThing, ReadSeq, Running
    <2>2. "write" \in Phases /\ PhaseNumber["write"] > PhaseNumber[phase[c]]
      BY <1>4, <2>1 DEF Phases
    <2> QED
      BY <1>1, <1>2, <2>1, <2>2, PhaseAdvances
  <1>7. CASE WriteRejected(c)
    <2>1. status' = [status EXCEPT ![c] = "rejected"]
          /\ status \in [Clients -> AtRest \union {"running"}]
      BY <1>1, <1>7 DEF WriteRejected, TypeOK
    <2>2. status'[c] = "rejected"
      BY <2>1
    <2>3. ImportInv' /\ UNCHANGED <<store, file, at>>
      BY <1>7, WriteRejectedInv DEF WriteRejected
    <2>4. dead # {}
      BY <2>2, <2>3 DEF ImportInv, RejectionsExplained, store
    <2> QED
      BY <1>2, <2>2, <2>4 DEF Advances
  <1> QED
    BY <1>2, <1>3, <1>5, <1>6, <1>7
    DEF Continue, Skip, ReadTarget, ReadThing, WriteCreates, WriteAnswered, ReadSeq, Upsert

\* A step leaves the other calls as they are.
LEMMA ContinueAlone ==
    ASSUME TypeOK, NEW c \in Clients, Continue(c), NEW d \in Clients, d # c
    PROVE  status'[d] = status[d] /\ at'[d] = at[d] /\ phase'[d] = phase[d]
  <1>1. \/ MoveOn(c)
        \/ at' = at /\ status' = status /\ \E ph \in Phases : phase' = [phase EXCEPT ![c] = ph]
        \/ at' = at /\ phase' = phase /\ status' = [status EXCEPT ![c] = "rejected"]
    BY DEF Continue, Skip, ReadTarget, ReadThing, WriteCreates, WriteAnswered,
           WriteRejected, ReadSeq, Upsert, Phases
  <1>2. /\ status \in [Clients -> AtRest \union {"running"}]
        /\ at = [e \in Clients |-> at[e]]
        /\ phase \in [Clients -> Phases]
    BY DEF TypeOK
  <1>3. CASE MoveOn(c)
    BY <1>3, OneMoves
  <1> QED
    BY <1>1, <1>2, <1>3

LEMMA EveryStepAdvances ==
    ASSUME ImportInv, [Next]_vars
    PROVE  AdvanceStep
  <1> SUFFICES ASSUME NEW c \in Clients, status[c] = "running"
               PROVE  Advances(c)
    BY Parts, ComeTypes DEF AdvanceStep
  <1>1. /\ TypeOK /\ status \in [Clients -> AtRest \union {"running"}]
        /\ at = [e \in Clients |-> at[e]] /\ phase \in [Clients -> Phases]
        /\ faults \in Nat
    BY Parts DEF TypeOK
  <1>2. ASSUME NEW d \in Clients, Call(d)
        PROVE  Advances(c)
    <2>1. d # c
      BY <1>2 DEF Call
    <2> QED
      BY <1>1, <1>2, <2>1 DEF Call, Advances
  <1>3. ASSUME NEW d \in Clients, Continue(d)
        PROVE  Advances(c)
    <2>1. CASE d = c
      BY <1>3, <2>1, ContinueAdvances
    <2>2. CASE d # c
      BY <1>1, <1>3, <2>2, ContinueAlone DEF Advances
    <2> QED
      BY <2>1, <2>2
  <1>4. ASSUME NEW C, Lost(C)
        PROVE  Advances(c)
    <2>1. CASE c \in C
      BY <1>1, <1>4, <2>1 DEF Lost, Advances
    <2>2. CASE c \notin C
      BY <1>1, <1>4, <2>2 DEF Lost, Advances
    <2> QED
      BY <2>1, <2>2
  <1>5. ASSUME NEW t \in Deletable, Delete(t)
        PROVE  Advances(c)
    BY <1>5 DEF Delete
  <1>6. CASE UNCHANGED vars
    BY <1>6 DEF vars, calls, Advances
  <1> QED
    BY <1>2, <1>3, <1>4, <1>5, <1>6 DEF Next, Fails, Crash

\* What the return of a call rests on, besides fairness: no step of any call or
\* program, no retry and no restart sends it back, and it ends early only by a
\* fault or for something that was deleted.
THEOREM ImportAdvances == Spec => CallsAdvance
  <1>1. ImportInv /\ [Next]_vars => AdvanceStep
    BY EveryStepAdvances
  <1> QED
    BY <1>1, ImportInvariant, PTL DEF Spec, CallsAdvance
=============================================================================
