------------------------------ MODULE OwnerLock ------------------------------
(***************************************************************************)
(* Who owns a store directory: Open's acquireStoreOwnerLock, Close's       *)
(* release, and the writers of files that run without Store.mu.  Several   *)
(* handles, each in a process, open and close one path again and again.    *)
(*                                                                         *)
(* A process keeps the open paths in a registry (openOwnerLocks); between  *)
(* processes an advisory lock on owner.lock decides, which the system      *)
(* drops when the process dies; the text of owner.lock names the owner.    *)
(* A term numbers the successful Opens; a file is represented by the term  *)
(* of its writer.                                                          *)
(***************************************************************************)
EXTENDS Integers

CONSTANTS
    Handles,        \* callers of Open, each with at most one Store at a time
    Processes,
    ProcessOf,      \* the process each handle lives in
    None,
    CallersWait,    \* callers Close a Store with no WriteSnapshot running
    MaxTerm         \* bound on the Opens that get the lock

ASSUME ProcessAssumption == ProcessOf \in [Handles -> Processes]
ASSUME NoneAssumption == None \notin Handles
ASSUME WaitAssumption == CallersWait \in BOOLEAN
ASSUME TermAssumption == MaxTerm \in Nat

VARIABLES
    registry,       \* the processes whose openOwnerLocks holds the path
    holder,         \* the handle whose open file has the advisory lock
    metadata,       \* the handle owner.lock names; None: empty or cut off
    handle,         \* how far each handle's Open or Close has come
    terms,          \* the Opens that got the lock
    opened,         \* the term of each handle's Store
    working,        \* the handles with a projector worker in mid-event
    snapshotting,   \* the term of the Store a WriteSnapshot has copied, or 0
    returned,       \* the handles whose last failed Open, or a Close, returned
    checkpoints,    \* the term that wrote the checkpoint files last
    snapshot        \* the term that wrote the catalog snapshot last

vars == <<registry, holder, metadata, handle, terms, opened, working,
          snapshotting, returned, checkpoints, snapshot>>

\* What a handle's call has taken and not given back.
HasLock == {"flocked", "truncated", "loading", "cleaning", "open", "closing",
            "cleared", "failing"}
HasEntry == HasLock \union {"registered", "releasing"}

TypeOK ==
    /\ registry \in SUBSET Processes
    /\ holder \in Handles \union {None}
    /\ metadata \in Handles \union {None}
    /\ handle \in [Handles -> HasEntry \union {"idle"}]
    /\ terms \in 0..MaxTerm
    /\ opened \in [Handles -> 0..MaxTerm]
    /\ working \in SUBSET Handles
    /\ snapshotting \in [Handles -> 0..MaxTerm]
    /\ returned \in SUBSET Handles
    /\ checkpoints \in 0..MaxTerm
    /\ snapshot \in 0..MaxTerm

Init ==
    /\ registry = {}
    /\ holder = None
    /\ metadata = None
    /\ handle = [h \in Handles |-> "idle"]
    /\ terms = 0
    /\ opened = [h \in Handles |-> 0]
    /\ working = {}
    /\ snapshotting = [h \in Handles |-> 0]
    /\ returned = {}
    /\ checkpoints = 0
    /\ snapshot = 0

files == <<checkpoints, snapshot>>
store == <<terms, opened, working, snapshotting, files>>

\* h goes from one of the steps in `from` to the step `to`.
Moves(h, from, to) == handle[h] \in from /\ handle' = [handle EXCEPT ![h] = to]

-----------------------------------------------------------------------------
(***************************************************************************)
(* acquireStoreOwnerLock, and the rest of Open.                            *)
(***************************************************************************)
\* Mutant: openOwnerLocks is not asked before the entry is made.
RegisterUnchecked(h) ==
    /\ Moves(h, {"idle"}, "registered")
    /\ registry' = registry \union {ProcessOf[h]}
    /\ returned' = returned \ {h}
    /\ UNCHANGED <<holder, metadata, store>>

Register(h) ==
    /\ ProcessOf[h] \notin registry
    /\ Moves(h, {"idle"}, "registered")
    /\ registry' = registry \union {ProcessOf[h]}
    /\ returned' = returned \ {h}
    /\ UNCHANGED <<holder, metadata, store>>

RefusedByRegistry(h) ==
    /\ handle[h] = "idle"
    /\ ProcessOf[h] \in registry
    /\ returned' = returned \union {h}
    /\ UNCHANGED <<registry, holder, metadata, handle, store>>

Lock(h) ==
    /\ holder = None
    /\ terms < MaxTerm
    /\ Moves(h, {"registered"}, "flocked")
    /\ holder' = h
    /\ terms' = terms + 1
    /\ opened' = [opened EXCEPT ![h] = terms + 1]
    /\ UNCHANGED <<registry, metadata, working, snapshotting, returned, files>>

\* Mutant: the registry's entry is not given back.
RefusedByLockLeaks(h) ==
    /\ holder # None
    /\ Moves(h, {"registered"}, "idle")
    /\ UNCHANGED <<registry, holder, metadata, returned, store>>

\* Somebody has the lock, or the file cannot be opened.
RefusedByLock(h) ==
    /\ Moves(h, {"registered"}, "releasing")
    /\ UNCHANGED <<registry, holder, metadata, returned, store>>

\* writeStoreOwner, and what its errors leave: the old text, none, its own.
TruncateOwner(h) ==
    /\ Moves(h, {"flocked"}, "truncated")
    /\ metadata' = None
    /\ UNCHANGED <<registry, holder, returned, store>>

WriteOwner(h) ==
    /\ Moves(h, {"truncated"}, "loading")
    /\ metadata' = h
    /\ UNCHANGED <<registry, holder, returned, store>>

WriteOwnerFails(h) ==
    /\ Moves(h, {"flocked", "truncated"}, "failing")
    /\ \/ metadata' = metadata
       \/ handle[h] = "truncated" /\ metadata' = h
    /\ UNCHANGED <<registry, holder, returned, store>>

OpenSucceeds(h) ==
    /\ Moves(h, {"loading"}, "open")
    /\ UNCHANGED <<registry, holder, metadata, returned, store>>

\* A refusal of the log, a snapshot or the replay: cleanup().
OpenFails(h) ==
    /\ Moves(h, {"loading"}, "cleaning")
    /\ UNCHANGED <<registry, holder, metadata, returned, store>>

-----------------------------------------------------------------------------
(***************************************************************************)
(* What writes to the directory outside Store.mu.  Apply and Compact hold  *)
(* Store.mu from their test of `closed` to their last write, so Close can  *)
(* only come before or after them.                                         *)
(***************************************************************************)
WorkerTakesEvent(h) ==
    /\ handle[h] = "open"
    /\ working' = working \union {h}
    /\ UNCHANGED <<registry, holder, metadata, handle, terms, opened,
                   snapshotting, returned, files>>

\* The worker saves its checkpoint, which is not tied to `closed`, or gives up.
WorkerFinishes(h) ==
    /\ h \in working
    /\ working' = working \ {h}
    /\ \/ checkpoints' = opened[h]
       \/ UNCHANGED checkpoints
    /\ UNCHANGED <<registry, holder, metadata, handle, terms, opened,
                   snapshotting, returned, snapshot>>

\* Mutant: WriteSnapshot does not ask whether the store is closed.
SnapshotCopiesClosed(h) ==
    /\ opened[h] # 0
    /\ snapshotting[h] = 0
    /\ snapshotting' = [snapshotting EXCEPT ![h] = opened[h]]
    /\ UNCHANGED <<registry, holder, metadata, handle, terms, opened, working,
                   returned, files>>

SnapshotCopies(h) ==
    /\ handle[h] = "open"
    /\ snapshotting[h] = 0
    /\ snapshotting' = [snapshotting EXCEPT ![h] = opened[h]]
    /\ UNCHANGED <<registry, holder, metadata, handle, terms, opened, working,
                   returned, files>>

\* The rename of the new snapshot, or an error before it.
SnapshotInstalls(h) ==
    /\ snapshotting[h] # 0
    /\ snapshotting' = [snapshotting EXCEPT ![h] = 0]
    /\ \/ snapshot' = snapshotting[h]
       \/ UNCHANGED snapshot
    /\ UNCHANGED <<registry, holder, metadata, handle, terms, opened, working,
                   returned, checkpoints>>

-----------------------------------------------------------------------------
(***************************************************************************)
(* Store.Close and storeOwnerLock.Close.                                   *)
(***************************************************************************)
Close(h) ==
    /\ CallersWait => snapshotting[h] = 0
    /\ Moves(h, {"open"}, "closing")
    /\ UNCHANGED <<registry, holder, metadata, returned, store>>

\* A second Close finds `closed` set and returns at once.
CloseAgain(h) ==
    /\ handle[h] = "closing"
    /\ returned' = returned \union {h}
    /\ UNCHANGED <<registry, holder, metadata, handle, store>>

\* Mutant: Close does not wait for the workers.
ClearHasty(h) ==
    /\ Moves(h, {"closing", "cleaning"}, "cleared")
    /\ metadata' = None
    /\ UNCHANGED <<registry, holder, returned, store>>

Clear(h) ==
    /\ h \notin working
    /\ Moves(h, {"closing", "cleaning"}, "cleared")
    /\ metadata' = None
    /\ UNCHANGED <<registry, holder, returned, store>>

\* A failing Truncate does not keep Close from unlocking.
ClearFails(h) ==
    /\ h \notin working
    /\ Moves(h, {"closing", "cleaning"}, "failing")
    /\ UNCHANGED <<registry, holder, metadata, returned, store>>

\* flock(LOCK_UN), or the close of the file after it failed.
Unlock(h) ==
    /\ Moves(h, {"cleared", "failing"}, "releasing")
    /\ holder' = None
    /\ UNCHANGED <<registry, metadata, returned, store>>

Release(h) ==
    /\ Moves(h, {"releasing"}, "idle")
    /\ registry' = registry \ {ProcessOf[h]}
    /\ returned' = returned \union {h}
    /\ UNCHANGED <<holder, metadata, store>>

-----------------------------------------------------------------------------
\* A process dies: its memory goes, the system drops its lock, files stay.
In(p) == {h \in Handles : ProcessOf[h] = p}

Crash(p) ==
    /\ registry' = registry \ {p}
    /\ holder' = IF holder \in In(p) THEN None ELSE holder
    /\ handle' = [h \in Handles |-> IF h \in In(p) THEN "idle" ELSE handle[h]]
    /\ working' = working \ In(p)
    /\ snapshotting' = [h \in Handles |-> IF h \in In(p) THEN 0 ELSE snapshotting[h]]
    /\ opened' = [h \in Handles |-> IF h \in In(p) THEN 0 ELSE opened[h]]
    /\ returned' = returned \ In(p)
    /\ UNCHANGED <<metadata, terms, files>>

Acquire(h) ==
    \/ Register(h)
    \/ RefusedByRegistry(h)
    \/ Lock(h)
    \/ RefusedByLock(h)
    \/ TruncateOwner(h)
    \/ WriteOwner(h)
    \/ WriteOwnerFails(h)
    \/ OpenSucceeds(h)
    \/ OpenFails(h)

Write(h) ==
    \/ WorkerTakesEvent(h)
    \/ WorkerFinishes(h)
    \/ SnapshotCopies(h)
    \/ SnapshotInstalls(h)

Leave(h) ==
    \/ Close(h)
    \/ CloseAgain(h)
    \/ Clear(h)
    \/ ClearFails(h)
    \/ Unlock(h)
    \/ Release(h)

Next ==
    \/ \E h \in Handles : Acquire(h) \/ Write(h) \/ Leave(h)
    \/ \E p \in Processes : Crash(p)

Spec == Init /\ [][Next]_vars

-----------------------------------------------------------------------------
\* Two handles never read or write the store's files at the same time: from
\* the lock to the last file a worker writes, an owner is alone
\* (acquireStoreOwnerLock, projectorWG.Wait in Close).
Owner == {"loading", "cleaning", "open", "closing"}
Active(h) == handle[h] \in Owner \/ h \in working
OwnersExclude == \A g, h \in Handles : Active(g) /\ Active(h) => g = h

\* While a Store is open owner.lock names it, whoever else tries to open it,
\* and a clean Close has emptied the file before it lets the lock go
\* (writeStoreOwner, storeOwnerLock.Close).
MetadataNamesOwner ==
    \A h \in Handles :
        /\ handle[h] \in Owner => metadata = h
        /\ handle[h] = "cleared" => metadata = None

\* Whatever way an Open fails, a Close ends or a process dies, the registry's
\* entry and the lock belong to a call still under way or a Store still
\* open: the path never stays locked (the deferred releases, Close).
NothingLeaks ==
    /\ \A p \in registry : \E h \in In(p) : handle[h] \in HasEntry
    /\ holder # None => handle[holder] \in HasLock

\* The checkpoint files and the snapshot are written by the newest owner
\* only: nothing is written for a Store after the next one has the lock
\* (advanceProjectorCheckpoint, WriteSnapshot).
NewestOwnerWrites ==
    [][/\ checkpoints' # checkpoints => checkpoints' = terms
       /\ snapshot' # snapshot => snapshot' = terms]_vars

\* When a Close has returned, the lock is no longer its handle's.  The code
\* breaks it: a second Close does not wait for the first (Store.Close).
CloseReleases == \A h \in returned : holder # h

-----------------------------------------------------------------------------
(***************************************************************************)
(* The inductive invariant: entry and lock are exactly those of the calls  *)
(* under way, workers run only inside a Store, and a Store is of the       *)
(* newest term.                                                            *)
(***************************************************************************)
EntryExact ==
    /\ registry = {ProcessOf[h] : h \in {g \in Handles : handle[g] \in HasEntry}}
    /\ \A g, h \in Handles :
           /\ handle[g] \in HasEntry /\ handle[h] \in HasEntry
           /\ ProcessOf[g] = ProcessOf[h]
           => g = h

LockExact == \A h \in Handles : holder = h <=> handle[h] \in HasLock

TermNewest ==
    \A h \in Handles :
        /\ handle[h] \in HasLock => opened[h] = terms
        /\ h \in working => handle[h] \in {"open", "closing"}
        /\ CallersWait /\ snapshotting[h] # 0 =>
               handle[h] = "open" /\ snapshotting[h] = opened[h]

\* All of it: what a handle may believe from the step it has reached (it has
\* the entry, the lock, the newest term) is true, in every state.
OwnerInv == TypeOK /\ EntryExact /\ LockExact /\ TermNewest /\ MetadataNamesOwner
=============================================================================
