------------------------- MODULE VectorSearchProofs -------------------------
(***************************************************************************)
(* VectorSearch with a FileVectorIndex, for any nodes, searches and log:   *)
(* the index covers the checkpoint, and what searches answer is covered.   *)
(***************************************************************************)
EXTENDS VectorSearch, TLAPS

\* Projecting the next event makes an index current for it, whether it was
\* current before it or holds it already.
LEMMA InstalledCurrent ==
  ASSUME TypeOK, Event \in 1..Len(log), NEW index \in [Nodes -> 0..MaxSeq],
         Current(index, indexed) \/ Current(index, Event)
  PROVE  /\ Installed(index, log[Event], Event) \in [Nodes -> 0..MaxSeq]
         /\ Current(Installed(index, log[Event], Event), Event)
  <1> DEFINE op == log[Event]
             new == Installed(index, op, Event)
  <1>1. /\ op \in Operation /\ op.node \in Nodes /\ indexed \in Nat
        /\ Event \in 1..MaxSeq /\ Event = indexed + 1 /\ log \in Seq(Operation)
    <2>1. /\ indexed \in 0..MaxSeq /\ log \in Seq(Operation) /\ Len(log) <= MaxSeq
          /\ Event = indexed + 1
      BY DEF TypeOK, Event
    <2>2. op \in Operation
      BY <2>1
    <2>3. op.node \in Nodes
      BY <2>2 DEF Operation
    <2> QED BY <2>1, <2>2, <2>3, MaxSeqAssumption
  <1>2. new \in [Nodes -> 0..MaxSeq]
    BY <1>1, MaxSeqAssumption DEF Installed
  <1>3. ASSUME NEW n \in Nodes
        PROVE  IF new[n] = 0 THEN \A k \in 1..Event : ~Live(k, n, Event)
               ELSE new[n] \in 1..Event /\ Live(new[n], n, Event)
    <2>1. CASE op.kind = "upsert" /\ op.node = n
      <3>1. new[n] = Event
        BY <1>1, <2>1 DEF Installed
      <3> QED BY <1>1, <2>1, <3>1 DEF Live, Is
    <2>2. CASE op.kind = "delete" /\ op.node = n
      <3>1. new[n] = 0
        BY <1>1, <2>2 DEF Installed
      <3>2. \A k \in 1..Event : ~Live(k, n, Event)
        BY <1>1, <2>2 DEF Live, Is
      <3> QED BY <3>1, <3>2
    <2>3. CASE ~Is("upsert", Event, n) /\ ~Is("delete", Event, n)
      <3>1. new[n] = index[n]
        BY <1>1, <2>3 DEF Installed, Is, Operation
      <3>2. \A k \in 1..indexed : Live(k, n, indexed) <=> Live(k, n, Event)
        BY <1>1, <2>3 DEF Live
      <3>3. ~Live(Event, n, Event)
        BY <2>3 DEF Live
      <3>4. CASE Current(index, indexed)
        BY <1>1, <3>1, <3>2, <3>3, <3>4 DEF Current
      <3>5. CASE Current(index, Event)
        BY <3>1, <3>5 DEF Current
      <3> QED BY <3>4, <3>5
    <2> QED BY <2>1, <2>2, <2>3 DEF Is
  <1> QED BY <1>2, <1>3 DEF Current

\* Appending to the log leaves what its beginning says.
LEMMA CurrentKept ==
  ASSUME log \in Seq(Operation), NEW op \in Operation, log' = Append(log, op),
         NEW index \in [Nodes -> 0..MaxSeq], NEW last \in 0..Len(log)
  PROVE  Current(index, last) => Current(index, last)'
  BY MaxSeqAssumption DEF Current, Live, Is

LEMMA ReflectsKept ==
  ASSUME log \in Seq(Operation), NEW op \in Operation, log' = Append(log, op),
         NEW index \in [Nodes -> 0..MaxSeq], NEW seq \in Nat
  PROVE  Reflects(index, seq) => Reflects(index, seq)'
  <1>1. Len(log) \in Nat /\ Len(log') = Len(log) + 1
    OBVIOUS
  <1>2. ASSUME NEW last \in seq..Len(log), Current(index, last)
        PROVE  Current(index, last)'
    BY <1>1, <1>2, CurrentKept
  <1> QED BY <1>1, <1>2 DEF Reflects

LEMMA InitInv == Init => IndexInv
  BY MaxSeqAssumption
  DEF Init, IndexInv, TypeOK, PositionSound, IndexCovers, EventSound, SearchCovers,
      DirectSound, NoEntries, Idle, Search, Current, Event

\* The answers given only speak of the log, which grows.
LEMMA AnswersKept ==
  ASSUME TypeOK, SearchCovers, DirectSound, UNCHANGED search,
         UNCHANGED log \/ \E op \in Operation : log' = Append(log, op)
  PROVE  SearchCovers' /\ DirectSound'
  <1>1. \A s \in Searches : search[s] \in Search
    BY DEF TypeOK
  <1>2. ASSUME NEW index \in [Nodes -> 0..MaxSeq], NEW seq \in Nat
        PROVE  Reflects(index, seq) => Reflects(index, seq)'
    <2>1. CASE UNCHANGED log
      BY <2>1 DEF Reflects, Current, Live, Is
    <2>2. CASE \E op \in Operation : log' = Append(log, op)
      BY <2>2, ReflectsKept DEF TypeOK
    <2> QED BY <2>1, <2>2
  <1>3. \A s \in Searches :
          /\ search[s].hits \in [Nodes -> 0..MaxSeq]
          /\ search[s].min \in Nat /\ search[s].seen \in Nat /\ search[s].indexedSeq \in Nat
    BY <1>1, MaxSeqAssumption DEF Search
  <1> QED
    BY <1>2, <1>3 DEF SearchCovers, DirectSound

LEMMA ApplyInv == IndexInv /\ Apply => IndexInv'
  <1> SUFFICES ASSUME IndexInv, Apply PROVE IndexInv'
    OBVIOUS
  <1>1. TypeOK'
    BY MaxSeqAssumption DEF IndexInv, TypeOK, Apply
  <1>2. PICK op \in Operation : log' = Append(log, op)
    BY DEF Apply
  <1>3. /\ Len(log) \in Nat /\ Len(log') = Len(log) + 1 /\ log \in Seq(Operation)
        /\ indexed \in Nat /\ Event' = Event /\ Event = indexed + 1
    BY <1>2, MaxSeqAssumption DEF IndexInv, TypeOK, Apply, Event
  <1>4. \A index \in {files, entries}, last \in 0..Len(log) :
          Current(index, last) => Current(index, last)'
    BY <1>2, <1>3, CurrentKept DEF IndexInv, TypeOK
  <1>5. PositionSound'
    BY <1>3 DEF IndexInv, PositionSound, Apply, TypeOK
  <1>6. IndexCovers'
    BY <1>3, <1>4 DEF IndexInv, IndexCovers, PositionSound, Apply
  <1>7. EventSound'
    BY <1>3, <1>4 DEF IndexInv, EventSound, PositionSound, Apply
  <1>8. SearchCovers' /\ DirectSound'
    BY <1>2, AnswersKept DEF IndexInv, Apply
  <1> QED BY <1>1, <1>5, <1>6, <1>7, <1>8 DEF IndexInv

\* A step of the worker leaves log and answers alone.
LEMMA WorkerInv == Persistent /\ IndexInv /\ Worker => IndexInv'
  <1> SUFFICES ASSUME Persistent, IndexInv, Worker PROVE IndexInv'
    OBVIOUS
  <1>1. UNCHANGED log /\ UNCHANGED search
    BY DEF Worker, Project, ProjectFails, SaveCheckpoint, SaveFails, Advance
  <1>2. SearchCovers' /\ DirectSound'
    BY <1>1, AnswersKept DEF IndexInv
  <1>3. /\ indexed \in Nat /\ Event = indexed + 1 /\ Len(log) \in Nat /\ Len(log) <= MaxSeq
        /\ files \in [Nodes -> 0..MaxSeq] /\ entries \in [Nodes -> 0..MaxSeq]
        /\ indexSeq \in 0..MaxSeq /\ saved \in 0..MaxSeq
    BY MaxSeqAssumption DEF IndexInv, TypeOK, Event
  <1>4. ASSUME NEW last \in Nat
        PROVE  /\ files' = files => Current(files, last)' = Current(files, last)
               /\ entries' = entries => Current(entries, last)' = Current(entries, last)
    BY <1>1 DEF Current, Live, Is
  <1> USE MaxSeqAssumption
  <1>5. CASE Project
    <2>1. Event \in 1..Len(log)
      BY <1>3, <1>5 DEF Project, Pending
    <2>2. /\ files' \in [Nodes -> 0..MaxSeq] /\ entries' \in [Nodes -> 0..MaxSeq]
          /\ Current(files', Event) /\ Current(entries', Event)
      BY <1>3, <1>5, <2>1, InstalledCurrent DEF IndexInv, IndexCovers, Project
    <2>3. Event' = Event
      BY <1>5 DEF Project, Event
    <2>4. Current(files, Event)' /\ Current(entries, Event)'
      BY <1>1, <2>2, <2>3 DEF Current, Live, Is
    <2>5. TypeOK'
      BY <1>1, <1>3, <1>5, <2>1, <2>2 DEF IndexInv, TypeOK, Project
    <2>6. PositionSound'
      BY <1>5, <2>1, <2>3 DEF IndexInv, PositionSound, Project
    <2>7. IndexCovers'
      BY <1>1, <2>1, <2>3, <2>4 DEF IndexCovers
    <2>8. EventSound'
      BY <1>3, <1>5, <2>1, <2>3, <2>4 DEF IndexInv, EventSound, Project
    <2> QED BY <1>2, <2>5, <2>6, <2>7, <2>8 DEF IndexInv
  <1>6. CASE ProjectFails
    <2>1. Event \in 1..Len(log)
      BY <1>3, <1>6 DEF ProjectFails, Pending
    <2>2. files' \in [Nodes -> 0..MaxSeq] /\ Current(files', Event)
      BY <1>3, <1>6, <2>1, InstalledCurrent DEF IndexInv, IndexCovers, ProjectFails
    <2>3. Event' = Event /\ indexed' = indexed
      BY <1>6 DEF ProjectFails, Event
    <2>4. Current(files, Event)'
      BY <1>1, <2>2, <2>3 DEF Current, Live, Is
    <2>5. TypeOK'
      BY <1>1, <1>3, <1>6, <2>2 DEF IndexInv, TypeOK, ProjectFails
    <2>6. PositionSound'
      BY <1>6, <2>3 DEF IndexInv, PositionSound, ProjectFails
    <2>7. entries' = entries /\ \A last \in Nat : Current(entries, last)' = Current(entries, last)
      BY <1>4, <1>6 DEF ProjectFails
    <2>8. IndexCovers'
      BY <1>1, <1>3, <2>1, <2>3, <2>4, <2>7 DEF IndexInv, IndexCovers
    <2>9. EventSound'
      BY <1>3, <1>6, <2>3, <2>4, <2>7 DEF IndexInv, EventSound, ProjectFails, Pending
    <2> QED BY <1>2, <2>5, <2>6, <2>8, <2>9 DEF IndexInv
  <1>7. CASE SaveCheckpoint \/ SaveFails
    <2>1. /\ Event' = Event /\ indexed' = indexed /\ saved' \in {saved, Event}
          /\ UNCHANGED <<files, entries, indexSeq>> /\ worker = "applied"
          /\ worker' \in {"idle", "saved"} /\ (worker' = "saved" => saved' = Event)
      BY <1>7 DEF SaveCheckpoint, SaveFails, Event
    <2>2. Event \in 1..Len(log) /\ Current(files, Event) /\ Current(entries, Event)
      BY <1>3, <2>1 DEF IndexInv, PositionSound, EventSound
    <2>3. \A last \in Nat : /\ Current(files, last)' = Current(files, last)
                            /\ Current(entries, last)' = Current(entries, last)
      BY <1>4, <2>1
    <2>4. TypeOK'
      BY <1>1, <1>3, <2>1, <2>2 DEF IndexInv, TypeOK
    <2>5. PositionSound'
      BY <1>1, <1>3, <2>1, <2>2 DEF IndexInv, PositionSound
    <2>6. Current(files, Event)' /\ Current(entries, Event)'
      BY <1>3, <2>1, <2>2, <2>3
    <2>7. IndexCovers'
      BY <1>1, <2>1, <2>2, <2>6 DEF IndexCovers
    <2>8. EventSound'
      BY <1>1, <1>3, <2>1, <2>2, <2>6 DEF IndexInv, EventSound
    <2> QED BY <1>2, <2>4, <2>5, <2>7, <2>8 DEF IndexInv
  <1>8. CASE Advance
    <2>1. /\ indexed' = Event /\ Event' = Event + 1 /\ worker' = "idle"
          /\ UNCHANGED <<files, entries, indexSeq, saved>> /\ saved = Event
          /\ Event <= Len(log) /\ Current(files, Event) /\ Current(entries, Event)
      BY <1>8 DEF Advance, Event, IndexInv, PositionSound, EventSound
    <2>2. /\ Current(files, Event) = Current(files', indexed')
          /\ Current(entries, Event) = Current(entries', indexed')
      BY <2>1
    <2>3. Current(files, indexed)' /\ Current(entries, indexed)'
      BY <1>1, <2>1, <2>2 DEF Current, Live, Is
    <2>4. TypeOK'
      BY <1>1, <1>3, <2>1 DEF IndexInv, TypeOK
    <2>5. PositionSound'
      BY <1>1, <1>3, <2>1 DEF IndexInv, PositionSound
    <2>6. IndexCovers'
      BY <2>3 DEF IndexCovers
    <2>7. EventSound'
      BY <1>3, <2>1 DEF IndexInv, EventSound
    <2> QED BY <1>2, <2>4, <2>5, <2>6, <2>7 DEF IndexInv
  <1> QED BY <1>5, <1>6, <1>7, <1>8 DEF Worker

\* After a restart the index is its files, which are at the checkpoint or one
\* event ahead.
LEMMA RestartInv == IndexInv /\ Restart => IndexInv'
  <1> SUFFICES ASSUME IndexInv, Restart PROVE IndexInv'
    OBVIOUS
  <1> USE MaxSeqAssumption
  <1>1. /\ indexed \in Nat /\ Event = indexed + 1 /\ Len(log) \in Nat /\ Len(log) <= MaxSeq
        /\ files \in [Nodes -> 0..MaxSeq] /\ saved \in {indexed, Event}
        /\ saved <= Len(log) /\ indexed <= Len(log)
    BY DEF IndexInv, TypeOK, PositionSound, Event
  <1>2. /\ UNCHANGED <<log, files, saved>> /\ entries' = files /\ indexed' = saved
        /\ worker' = "idle" /\ Event' = saved + 1
    BY DEF Restart, Event
  <1>3. PICK seq \in 0..MaxSeq : IsLargest(seq, files) /\ indexSeq' = seq
    BY DEF Restart
  <1>4. \A last \in Nat : /\ Current(files, last)' = Current(files, last)
                          /\ Current(entries, last)' = Current(files, last)
    BY <1>2 DEF Current, Live, Is
  <1>5. TypeOK'
    <2>1. search' \in [Searches -> Search]
      BY DEF IndexInv, TypeOK, Restart, Idle, Search, NoEntries
    <2> QED BY <1>1, <1>2, <1>3, <2>1 DEF IndexInv, TypeOK
  <1>6. PositionSound'
    BY <1>1, <1>2 DEF PositionSound
  <1>7. \/ Current(files, saved)
        \/ saved = indexed /\ Event <= Len(log) /\ Current(files, Event)
    BY <1>1 DEF IndexInv, IndexCovers, EventSound
  <1>8. IndexCovers'
    BY <1>1, <1>2, <1>4, <1>7 DEF IndexCovers
  <1>9. EventSound'
    <2>1. ASSUME NEW last \in Nat, Current(files, last)
          PROVE  seq <= last
      <3>1. CASE seq = 0
        BY <3>1
      <3>2. CASE seq # 0
        <4>1. PICK n \in Nodes : files[n] = seq
          BY <1>3, <3>2 DEF IsLargest
        <4> QED BY <2>1, <3>2, <4>1 DEF Current
      <3> QED BY <3>1, <3>2
    <2>2. CASE Current(files, saved)
      BY <1>1, <1>2, <1>3, <2>1, <2>2 DEF EventSound
    <2>3. CASE saved = indexed /\ Event <= Len(log) /\ Current(files, Event)
      <3>1. seq <= Event
        BY <1>1, <2>1, <2>3
      <3> QED BY <1>1, <1>2, <1>3, <1>4, <2>3, <3>1 DEF EventSound
    <2> QED BY <1>7, <2>2, <2>3
  <1>10. SearchCovers' /\ DirectSound'
    <2>1. \A s \in Searches : search'[s] = search[s] \/ search'[s].at = "idle"
      BY DEF Restart, Idle
    <2>2. ASSUME NEW s \in Searches, search'[s] = search[s], NEW n \in Nat
          PROVE  Reflects(search[s].hits, n)' = Reflects(search[s].hits, n)
      BY <1>2, <2>2 DEF Reflects, Current, Live, Is
    <2>3. \A s \in Searches : search[s].seen \in Nat /\ search[s].min \in Nat /\ search[s].indexedSeq \in Nat
      BY DEF IndexInv, TypeOK, Search
    <2>4. SearchCovers'
      BY <2>1, <2>2, <2>3 DEF IndexInv, SearchCovers
    <2>5. DirectSound'
      BY <2>1, <2>2, <2>3 DEF IndexInv, DirectSound
    <2> QED BY <2>4, <2>5
  <1> QED BY <1>5, <1>6, <1>8, <1>9, <1>10 DEF IndexInv

\* An answer taken from the index is current from its checkpoint on, and from
\* its watermark on.
LEMMA SearchInv ==
  ASSUME IndexInv, NEW s \in Searches,
         SearchDirect(s) \/ SearchIndex(s) \/ SearchStatus(s)
  PROVE  IndexInv'
  <1> USE MaxSeqAssumption
  <1>1. /\ indexed \in Nat /\ Event = indexed + 1 /\ Len(log) \in Nat
        /\ indexed <= Len(log) /\ indexSeq \in Nat /\ indexSeq <= Event
        /\ entries \in [Nodes -> 0..MaxSeq]
        /\ indexSeq = Event => Event <= Len(log) /\ Current(entries, Event)
    BY DEF IndexInv, TypeOK, PositionSound, EventSound, Event
  <1>2. UNCHANGED <<log, files, entries, indexSeq, saved, indexed, worker>>
    BY DEF SearchDirect, SearchIndex, SearchStatus, Read
  <1>c. \A index, last : Current(index, last)' <=> Current(index, last)
    BY <1>2 DEF Current, Live, Is
  <1>3. PositionSound' /\ IndexCovers' /\ EventSound'
    BY <1>2, <1>c DEF IndexInv, PositionSound, IndexCovers, EventSound, Event
  <1>4. Reflects(entries, indexed) /\ Reflects(entries, indexSeq)
    BY <1>1 DEF IndexInv, IndexCovers, Reflects
  <1>5. \A t \in Searches \ {s} : search'[t] = search[t]
    BY DEF IndexInv, TypeOK, SearchDirect, SearchIndex, SearchStatus, Read
  <1>6. ASSUME NEW t \in Searches, NEW index, index = search'[t].hits, NEW n \in Nat,
               Reflects(index, n)
        PROVE  Reflects(search[t].hits, n)'
    <2>1. PICK last \in n..Len(log) : Current(index, last)
      BY <1>6 DEF Reflects
    <2>2. last \in n..Len(log')
      BY <1>2
    <2>3. \A k, j : Live(k, j, last)' <=> Live(k, j, last)
      BY <1>2 DEF Live, Is
    <2>4. Current(search[t].hits, last)'
      BY <1>6, <2>1, <2>3 DEF Current
    <2> QED BY <2>2, <2>4 DEF Reflects
  <1>7. /\ search \in [Searches -> Search]
        /\ \A t \in Searches : search[t].seen \in Nat /\ search[t].min \in Nat
                              /\ search[t].indexedSeq \in Nat
    BY DEF IndexInv, TypeOK, Search
  <1>8. CASE SearchDirect(s) \/ SearchIndex(s)
    <2>1. PICK min \in 0..MaxSeq, at \in {"direct", "read"} :
            search'[s] = [at |-> at, min |-> min, hits |-> entries, indexedSeq |-> indexSeq,
                          stale |-> min > indexSeq, seen |-> indexed]
      BY <1>7, <1>8 DEF SearchDirect, SearchIndex, Read
    <2>2. TypeOK'
      <3>1. search'[s] \in Search
        BY <1>1, <2>1 DEF IndexInv, TypeOK, Search
      <3>2. search' = [search EXCEPT ![s] = search'[s]]
        BY <1>7, <1>8 DEF SearchDirect, SearchIndex, Read
      <3>3. search' \in [Searches -> Search]
        BY <1>7, <3>1, <3>2
      <3> QED BY <1>2, <3>3 DEF IndexInv, TypeOK
    <2>3. min <= indexSeq => Reflects(entries, min)
      BY <1>1, <1>4 DEF Reflects
    <2>4. SearchCovers'
      <3>1. Reflects(search[s].hits, search[s].seen)'
        BY <1>1, <1>4, <1>6, <2>1
      <3>2. ASSUME NEW t \in Searches \ {s}, search[t].at # "idle"
            PROVE  Reflects(search[t].hits, search[t].seen)'
        BY <1>5, <1>6, <1>7, <3>2 DEF IndexInv, SearchCovers
      <3> QED BY <1>5, <3>1, <3>2 DEF SearchCovers
    <2>5. DirectSound'
      <3>1. /\ Reflects(search[s].hits, search[s].indexedSeq)'
            /\ (~search[s].stale)' => Reflects(search[s].hits, search[s].min)'
        <4>1. /\ search'[s].hits = entries /\ search'[s].indexedSeq = indexSeq
              /\ search'[s].min = min /\ min \in Nat
              /\ search'[s].stale = (min > indexSeq)
          BY <2>1
        <4>3. ~search'[s].stale => ~(min > indexSeq)
          BY <4>1, Zenon
        <4>2. ASSUME NEW n \in Nat, Reflects(entries, n)
              PROVE  Reflects(search[s].hits, n)'
          BY <1>6, <4>1, <4>2
        <4> QED BY <1>1, <1>4, <2>3, <4>1, <4>2, <4>3
      <3>2. ASSUME NEW t \in Searches \ {s}, search[t].at = "direct"
            PROVE  /\ Reflects(search[t].hits, search[t].indexedSeq)'
                   /\ (~search[t].stale)' => Reflects(search[t].hits, search[t].min)'
        BY <1>5, <1>6, <1>7, <3>2 DEF IndexInv, DirectSound
      <3> QED BY <1>5, <3>1, <3>2 DEF DirectSound
    <2> QED BY <1>3, <2>2, <2>4, <2>5 DEF IndexInv
  <1>9. CASE SearchStatus(s)
    <2>1. /\ search'[s].hits = search[s].hits /\ search'[s].seen = search[s].seen
          /\ search'[s].at = "done" /\ search[s].at = "read"
      BY <1>7, <1>9 DEF SearchStatus, Search
    <2>2. TypeOK'
      <3>1. search' = [search EXCEPT ![s] = [search[s] EXCEPT !.at = "done", !.indexedSeq = indexed,
                                               !.stale = search[s].min > indexed]]
        BY <1>9 DEF SearchStatus
      <3>2. search[s] \in Search /\ indexed \in 0..MaxSeq
        BY <1>7 DEF IndexInv, TypeOK
      <3>3. [search[s] EXCEPT !.at = "done", !.indexedSeq = indexed,
                              !.stale = search[s].min > indexed] \in Search
        <4>1. ASSUME NEW stale \in BOOLEAN
              PROVE  [search[s] EXCEPT !.at = "done", !.indexedSeq = indexed,
                                       !.stale = stale] \in Search
          BY <3>2 DEF Search
        <4>2. (search[s].min > indexed) \in BOOLEAN
          OBVIOUS
        <4> QED BY <4>1, <4>2
      <3> QED BY <1>2, <1>7, <3>1, <3>3 DEF IndexInv, TypeOK
    <2>3. SearchCovers'
      <3>1. ASSUME NEW t \in Searches, search[t].at # "idle"
            PROVE  Reflects(search[t].hits, search[t].seen)'
        BY <1>5, <1>6, <1>7, <2>1, <3>1 DEF IndexInv, SearchCovers
      <3> QED BY <1>5, <2>1, <3>1 DEF SearchCovers
    <2>4. DirectSound'
      <3>1. ASSUME NEW t \in Searches \ {s}, search[t].at = "direct"
            PROVE  /\ Reflects(search[t].hits, search[t].indexedSeq)'
                   /\ (~search[t].stale)' => Reflects(search[t].hits, search[t].min)'
        BY <1>5, <1>6, <1>7, <3>1 DEF IndexInv, DirectSound
      <3> QED BY <1>5, <2>1, <3>1 DEF DirectSound
    <2> QED BY <1>3, <2>2, <2>3, <2>4 DEF IndexInv
  <1> QED BY <1>8, <1>9

LEMMA NextInv == Persistent /\ IndexInv /\ [Next]_vars => IndexInv'
  <1>1. IndexInv /\ UNCHANGED vars => IndexInv'
    <2> SUFFICES ASSUME IndexInv, UNCHANGED vars PROVE IndexInv'
      OBVIOUS
    <2>1. TypeOK' /\ PositionSound'
      BY DEF vars, IndexInv, TypeOK, PositionSound, Event
    <2>2. /\ UNCHANGED <<log, files, entries, indexSeq, saved, indexed>>
          /\ \A index, last : Current(index, last)' <=> Current(index, last)
          /\ Event' = Event
      BY DEF vars, Event, Current, Live, Is
    <2>3. IndexCovers'
      BY <2>2 DEF IndexInv, IndexCovers
    <2>4. EventSound'
      BY <2>1, <2>2 DEF vars, IndexInv, EventSound
    <2>5. SearchCovers' /\ DirectSound'
      BY AnswersKept DEF vars, IndexInv
    <2> QED BY <2>1, <2>3, <2>4, <2>5 DEF IndexInv
  <1> QED
    BY <1>1, ApplyInv, WorkerInv, RestartInv, SearchInv DEF Next

\* The index, its files, the checkpoint and the watermark agree, and every
\* answer ever given is as current as it was promised to be.
THEOREM IndexInvariant ==
  ASSUME Persistent
  PROVE  Spec => []IndexInv
  BY Persistent, InitInv, NextInv, PTL DEF Spec

\* Files and entries hold the mutations up to the checkpoint, or one more.
THEOREM IndexSafe ==
  ASSUME Persistent
  PROVE  Spec => []IndexCovers
  <1>1. IndexInv => IndexCovers
    BY DEF IndexInv
  <1> QED BY <1>1, IndexInvariant, Persistent, PTL

\* A search made after the projector had indexed a mutation sees it.
THEOREM SearchSafe ==
  ASSUME Persistent
  PROVE  Spec => []SearchCovers
  <1>1. IndexInv => SearchCovers
    BY DEF IndexInv
  <1> QED BY <1>1, IndexInvariant, Persistent, PTL

\* The index's own answer is as fresh as it says.
THEOREM DirectSafe ==
  ASSUME Persistent
  PROVE  Spec => []DirectSound
  <1>1. IndexInv => DirectSound
    BY DEF IndexInv
  <1> QED BY <1>1, IndexInvariant, Persistent, PTL
=============================================================================
