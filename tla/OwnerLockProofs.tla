-------------------------- MODULE OwnerLockProofs --------------------------
(***************************************************************************)
(* OwnerLock for any handles in any processes: the inductive invariant,    *)
(* what it says of owners and of owner.lock, and that only the newest      *)
(* owner writes.                                                           *)
(***************************************************************************)
EXTENDS OwnerLock, TLAPS

USE DEF HasLock, HasEntry, Owner, store, files

LEMMA InitInv == Init => OwnerInv
  BY ProcessAssumption, NoneAssumption, TermAssumption
  DEF Init, OwnerInv, TypeOK, EntryExact, LockExact, TermNewest, MetadataNamesOwner

\* Opening.  A handle that gets the entry is the only one of its process, one
\* that gets the lock starts the newest term.
LEMMA AcquireInv ==
  ASSUME OwnerInv, NEW h \in Handles, Acquire(h)
  PROVE  OwnerInv'
  <1> USE ProcessAssumption, NoneAssumption, TermAssumption
      DEF OwnerInv, TypeOK, EntryExact, LockExact, TermNewest, MetadataNamesOwner, Moves
  <1>1. CASE Register(h)
    BY <1>1 DEF Register
  <1>2. CASE RefusedByRegistry(h)
    BY <1>2 DEF RefusedByRegistry
  <1>3. CASE Lock(h)
    BY <1>3 DEF Lock
  <1>4. CASE RefusedByLock(h)
    BY <1>4 DEF RefusedByLock
  <1>5. CASE TruncateOwner(h)
    BY <1>5 DEF TruncateOwner
  <1>6. CASE WriteOwner(h)
    BY <1>6 DEF WriteOwner
  <1>7. CASE WriteOwnerFails(h)
    BY <1>7 DEF WriteOwnerFails
  <1>8. CASE OpenSucceeds(h)
    BY <1>8 DEF OpenSucceeds
  <1>9. CASE OpenFails(h)
    BY <1>9 DEF OpenFails
  <1> QED
    BY <1>1, <1>2, <1>3, <1>4, <1>5, <1>6, <1>7, <1>8, <1>9 DEF Acquire

\* Writing touches neither entry nor lock.
LEMMA WriteInv ==
  ASSUME OwnerInv, NEW h \in Handles, Write(h)
  PROVE  OwnerInv'
  <1> USE ProcessAssumption, NoneAssumption, TermAssumption
      DEF OwnerInv, TypeOK, EntryExact, LockExact, TermNewest, MetadataNamesOwner
  <1>1. CASE WorkerTakesEvent(h)
    BY <1>1 DEF WorkerTakesEvent
  <1>2. CASE WorkerFinishes(h)
    BY <1>2 DEF WorkerFinishes
  <1>3. CASE SnapshotCopies(h)
    BY <1>3 DEF SnapshotCopies
  <1>4. CASE SnapshotInstalls(h)
    BY <1>4 DEF SnapshotInstalls
  <1> QED
    BY <1>1, <1>2, <1>3, <1>4 DEF Write

\* Leaving gives the lock back before the entry.
LEMMA LeaveInv ==
  ASSUME OwnerInv, NEW h \in Handles, Leave(h)
  PROVE  OwnerInv'
  <1> USE ProcessAssumption, NoneAssumption, TermAssumption
      DEF OwnerInv, TypeOK, EntryExact, LockExact, TermNewest, MetadataNamesOwner, Moves
  <1>1. CASE Close(h)
    BY <1>1 DEF Close
  <1>2. CASE CloseAgain(h)
    BY <1>2 DEF CloseAgain
  <1>3. CASE Clear(h)
    BY <1>3 DEF Clear
  <1>4. CASE ClearFails(h)
    BY <1>4 DEF ClearFails
  <1>5. CASE Unlock(h)
    BY <1>5 DEF Unlock
  <1>6. CASE Release(h)
    BY <1>6 DEF Release
  <1> QED
    BY <1>1, <1>2, <1>3, <1>4, <1>5, <1>6 DEF Leave

\* A death gives back all that the handles of one process have.
LEMMA CrashInv ==
  ASSUME OwnerInv, NEW p \in Processes, Crash(p)
  PROVE  OwnerInv'
  BY ProcessAssumption, NoneAssumption, TermAssumption
  DEF OwnerInv, TypeOK, EntryExact, LockExact, TermNewest, MetadataNamesOwner, Crash, In

LEMMA NextInv == OwnerInv /\ [Next]_vars => OwnerInv'
  <1>1. OwnerInv /\ Next => OwnerInv'
    BY AcquireInv, WriteInv, LeaveInv, CrashInv DEF Next
  <1>2. OwnerInv /\ UNCHANGED vars => OwnerInv'
    BY DEF vars, OwnerInv, TypeOK, EntryExact, LockExact, TermNewest, MetadataNamesOwner
  <1> QED BY <1>1, <1>2

\* Entry, lock, term and text are what the handles' steps say, always.
THEOREM OwnerInvariant == Spec => []OwnerInv
  BY InitInv, NextInv, PTL DEF Spec

\* Two handles are never both at the store's files, in one process or in two.
THEOREM OwnersExcluded == Spec => []OwnersExclude
  <1>1. OwnerInv => OwnersExclude
    BY NoneAssumption DEF OwnerInv, LockExact, TermNewest, OwnersExclude, Active
  <1> QED BY <1>1, OwnerInvariant, PTL

\* owner.lock names whoever has the Store open, and is empty after a clean Close.
THEOREM MetadataSafe == Spec => []MetadataNamesOwner
  <1>1. OwnerInv => MetadataNamesOwner
    BY DEF OwnerInv
  <1> QED BY <1>1, OwnerInvariant, PTL

\* No entry and no lock outlives the call or Store it belongs to.
THEOREM NoLeak == Spec => []NothingLeaks
  <1>1. OwnerInv => NothingLeaks
    BY NoneAssumption DEF OwnerInv, TypeOK, EntryExact, LockExact, NothingLeaks, In
  <1> QED BY <1>1, OwnerInvariant, PTL

\* If callers let a WriteSnapshot end before they Close, no file is written
\* for a Store after the next owner has the lock.
THEOREM NewestWrites ==
  ASSUME CallersWait
  PROVE  Spec => NewestOwnerWrites
  <1>1. ASSUME OwnerInv, [Next]_vars
        PROVE  [/\ checkpoints' # checkpoints => checkpoints' = terms
                /\ snapshot' # snapshot => snapshot' = terms]_vars
    <2> USE DEF Moves
    <2>1. ASSUME NEW h \in Handles, Acquire(h) \/ Leave(h)
          PROVE  UNCHANGED files
      BY <2>1 DEF Acquire, Register, RefusedByRegistry, Lock, RefusedByLock, TruncateOwner,
         WriteOwner, WriteOwnerFails, OpenSucceeds, OpenFails, Leave, Close, CloseAgain,
         Clear, ClearFails, Unlock, Release
    <2>2. ASSUME NEW h \in Handles, Write(h)
          PROVE  /\ checkpoints' # checkpoints => checkpoints' = terms
                 /\ snapshot' # snapshot => snapshot' = terms
      BY <1>1, <2>2, CallersWait DEF OwnerInv, TermNewest, Write, WorkerTakesEvent,
         WorkerFinishes, SnapshotCopies, SnapshotInstalls
    <2>3. ASSUME NEW p \in Processes, Crash(p)
          PROVE  UNCHANGED files
      BY <2>3 DEF Crash
    <2> QED
      BY <1>1, <2>1, <2>2, <2>3 DEF Next, vars
  <1> QED
    BY <1>1, OwnerInvariant, PTL DEF Spec, NewestOwnerWrites
=============================================================================
