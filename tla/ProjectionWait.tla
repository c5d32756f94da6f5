--------------------------- MODULE ProjectionWait ---------------------------
(***************************************************************************)
(* WaitForProjection: a caller waits on projectorCond until a projector's  *)
(* watermark is good enough, its context is cancelled or its timeout is    *)
(* over.  A condition variable cannot be waited on with a timeout, so a    *)
(* helper goroutine broadcasts once when the timer fires or the context is *)
(* done.  One projector, several callers, each making one call.            *)
(*                                                                         *)
(* Time is a counter.  The timer is started at one reading of the clock    *)
(* and the deadline is computed from a later one, so that the timer can    *)
(* fire before the deadline: MaxDelay bounds what can pass in between.     *)
(***************************************************************************)
EXTENDS Integers

CONSTANTS
    Callers,
    Timeout,        \* the timeout callers give, when they give one
    MaxDelay,       \* bound on the time between starting timer and deadline
    MaxClock,       \* bound on time
    MaxSeq          \* bound on the mutations

ASSUME TimeoutAssumption == Timeout \in Nat \ {0}
ASSUME MaxDelayAssumption == MaxDelay \in Nat \ {0}
ASSUME BoundsAssumption == MaxClock \in Nat /\ MaxSeq \in Nat

VARIABLES
    clock,
    durableSeq,
    registered,     \* the projector has a checkpoint in memory
    indexedSeq,     \* that checkpoint's indexed_seq
    cancelled,      \* the callers whose context is done
    request,        \* what each caller asked for
    caller,         \* where its goroutine stands
    timer,          \* when its timer fires
    deadline,
    helper,         \* its broadcastProjectionWait goroutine
    parkedAt        \* when it last went into Cond.Wait (an observation)

vars == <<clock, durableSeq, registered, indexedSeq, cancelled, request,
          caller, timer, deadline, helper, parkedAt>>

\* A MaxLag of MaxSeq stands for a request that does not enforce one.
Request == [min : 0..MaxSeq, maxLag : 0..MaxSeq, timeout : {0, Timeout}]
Results == {"satisfied", "cancelled", "stale", "timedOut", "notFound"}

TypeOK ==
    /\ clock \in Nat
    /\ durableSeq \in 0..MaxSeq
    /\ registered \in BOOLEAN
    /\ indexedSeq \in 0..MaxSeq
    /\ cancelled \in SUBSET Callers
    /\ request \in [Callers -> Request]
    /\ caller \in [Callers -> {"idle", "armed", "check", "waiting"} \union Results]
    /\ timer \in [Callers -> Nat]
    /\ deadline \in [Callers -> Nat]
    /\ helper \in [Callers -> {"none", "select", "locking", "gone"}]
    /\ parkedAt \in [Callers -> Nat]

Init ==
    /\ clock = 0
    /\ durableSeq = 0
    /\ registered = FALSE
    /\ indexedSeq = 0
    /\ cancelled = {}
    /\ request = [c \in Callers |-> [min |-> 0, maxLag |-> 0, timeout |-> 0]]
    /\ caller = [c \in Callers |-> "idle"]
    /\ timer = [c \in Callers |-> 0]
    /\ deadline = [c \in Callers |-> 0]
    /\ helper = [c \in Callers |-> "none"]
    /\ parkedAt = [c \in Callers |-> 0]

\* projectionWaitSatisfied.
Satisfied(r) == indexedSeq >= r.min /\ durableSeq - indexedSeq <= r.maxLag

\* projectorCond.Broadcast().
Woken == [c \in Callers |-> IF caller[c] = "waiting" THEN "check" ELSE caller[c]]

Returned(c) == caller[c] \in Results

-----------------------------------------------------------------------------
(***************************************************************************)
(* The store and the projector, as far as a waiter sees them.              *)
(***************************************************************************)
RegisterProjector ==
    /\ ~registered
    /\ registered' = TRUE
    /\ caller' = Woken
    /\ UNCHANGED <<clock, durableSeq, indexedSeq, cancelled, request, timer,
                   deadline, helper, parkedAt>>

Apply ==
    /\ durableSeq < MaxSeq
    /\ durableSeq' = durableSeq + 1
    /\ caller' = Woken
    /\ UNCHANGED <<clock, registered, indexedSeq, cancelled, request, timer,
                   deadline, helper, parkedAt>>

\* Mutant: the checkpoint moves without a broadcast.
AdvanceQuiet ==
    /\ registered
    /\ indexedSeq < durableSeq
    /\ indexedSeq' = indexedSeq + 1
    /\ UNCHANGED <<clock, durableSeq, registered, cancelled, request, caller,
                   timer, deadline, helper, parkedAt>>

AdvanceCheckpoint ==
    /\ registered
    /\ indexedSeq < durableSeq
    /\ indexedSeq' = indexedSeq + 1
    /\ caller' = Woken
    /\ UNCHANGED <<clock, durableSeq, registered, cancelled, request, timer,
                   deadline, helper, parkedAt>>

-----------------------------------------------------------------------------
(***************************************************************************)
(* WaitForProjection.                                                      *)
(***************************************************************************)
\* time.NewTimer, when there is a timeout.
Call(c) ==
    /\ caller[c] = "idle"
    /\ c \notin cancelled
    /\ clock + MaxDelay + Timeout <= MaxClock
    /\ \E r \in Request : request' = [request EXCEPT ![c] = r]
    /\ timer' = [timer EXCEPT ![c] = clock + Timeout]
    /\ caller' = [caller EXCEPT ![c] = "armed"]
    /\ UNCHANGED <<clock, durableSeq, registered, indexedSeq, cancelled,
                   deadline, helper, parkedAt>>

\* time.Now().Add(timeout), and the helper is started.
SetDeadline(c) ==
    /\ caller[c] = "armed"
    /\ deadline' = [deadline EXCEPT ![c] = clock + Timeout]
    /\ caller' = [caller EXCEPT ![c] = "check"]
    /\ helper' = [helper EXCEPT ![c] = "select"]
    /\ UNCHANGED <<clock, durableSeq, registered, indexedSeq, cancelled,
                   request, timer, parkedAt>>

\* Mutant: the loop does not look at the context.
VerdictIgnoresContext(c) ==
    IF ~registered THEN "notFound"
    ELSE IF Satisfied(request[c]) THEN "satisfied"
    ELSE IF request[c].timeout = 0 THEN "stale"
    ELSE IF clock >= deadline[c] THEN "timedOut"
    ELSE "waiting"

\* What one turn of the loop comes to.
Verdict(c) ==
    IF ~registered THEN "notFound"
    ELSE IF Satisfied(request[c]) THEN "satisfied"
    ELSE IF c \in cancelled THEN "cancelled"
    ELSE IF request[c].timeout = 0 THEN "stale"
    ELSE IF clock >= deadline[c] THEN "timedOut"
    ELSE "waiting"

\* One turn of the loop, with Store.mu held: return, or wait.
Check(c) ==
    /\ caller[c] = "check"
    /\ caller' = [caller EXCEPT ![c] = Verdict(c)]
    /\ parkedAt' = IF Verdict(c) = "waiting" THEN [parkedAt EXCEPT ![c] = clock]
                                             ELSE parkedAt
    /\ UNCHANGED <<clock, durableSeq, registered, indexedSeq, cancelled,
                   request, timer, deadline, helper>>

\* Mutant: the helper does not wait for the timer's last tick.
HelperHasty(c) ==
    /\ helper[c] = "select"
    /\ \/ /\ \/ c \in cancelled
             \/ request[c].timeout # 0 /\ clock + 1 >= timer[c]
          /\ helper' = [helper EXCEPT ![c] = "locking"]
       \/ Returned(c) /\ helper' = [helper EXCEPT ![c] = "gone"]
    /\ UNCHANGED <<clock, durableSeq, registered, indexedSeq, cancelled,
                   request, caller, timer, deadline, parkedAt>>

\* broadcastProjectionWait: the select, then the broadcast under Store.mu.
HelperSelects(c) ==
    /\ helper[c] = "select"
    /\ \/ /\ \/ c \in cancelled
             \/ request[c].timeout # 0 /\ clock >= timer[c]
          /\ helper' = [helper EXCEPT ![c] = "locking"]
       \/ Returned(c) /\ helper' = [helper EXCEPT ![c] = "gone"]
    /\ UNCHANGED <<clock, durableSeq, registered, indexedSeq, cancelled,
                   request, caller, timer, deadline, parkedAt>>

HelperBroadcasts(c) ==
    /\ helper[c] = "locking"
    /\ helper' = [helper EXCEPT ![c] = "gone"]
    /\ caller' = Woken
    /\ UNCHANGED <<clock, durableSeq, registered, indexedSeq, cancelled,
                   request, timer, deadline, parkedAt>>

-----------------------------------------------------------------------------
Cancel(c) ==
    /\ c \notin cancelled
    /\ cancelled' = cancelled \union {c}
    /\ UNCHANGED <<clock, durableSeq, registered, indexedSeq, request, caller,
                   timer, deadline, helper, parkedAt>>

\* Time passes, but not so much that a caller takes longer than MaxDelay from
\* its timer to its deadline.
Tick ==
    /\ clock < MaxClock
    /\ \A c \in Callers : caller[c] = "armed" => clock < timer[c] - Timeout + MaxDelay
    /\ clock' = clock + 1
    /\ UNCHANGED <<durableSeq, registered, indexedSeq, cancelled, request,
                   caller, timer, deadline, helper, parkedAt>>

Environment ==
    \/ RegisterProjector
    \/ Apply
    \/ AdvanceCheckpoint
    \/ \E c \in Callers : Cancel(c)
    \/ Tick

Waiting(c) ==
    \/ Call(c)
    \/ SetDeadline(c)
    \/ Check(c)
    \/ HelperSelects(c)
    \/ HelperBroadcasts(c)

Next == Environment \/ \E c \in Callers : Waiting(c)

Spec == Init /\ [][Next]_vars

\* Goroutines that can run do run, and time passes.  Nothing makes a mutation
\* arrive or a projector advance.
Fairness ==
    /\ \A c \in Callers : /\ WF_vars(SetDeadline(c))
                          /\ WF_vars(Check(c))
                          /\ WF_vars(HelperSelects(c))
                          /\ WF_vars(HelperBroadcasts(c))
    /\ WF_vars(Tick)

FairSpec == Spec /\ Fairness
-----------------------------------------------------------------------------
(***************************************************************************)
(* Properties.                                                             *)
(***************************************************************************)
\* No caller stays in Cond.Wait while what it waits for is there: every change
\* of the watermark that can satisfy a request broadcasts.
NoMissedProgress ==
    \A c \in Callers : caller[c] = "waiting" => registered /\ ~Satisfied(request[c])

\* A caller in Cond.Wait still has its helper to wake it: the helper's single
\* broadcast is not spent before it can make the caller return.  The exception
\* is the code's own: a timer that fires before the deadline leaves a window in
\* which the woken caller finds its deadline still ahead and parks again.
InWindow(c) == timer[c] <= parkedAt[c] /\ parkedAt[c] < deadline[c]

ParkedHasWaker ==
    \A c \in Callers : caller[c] = "waiting" =>
        helper[c] \in {"select", "locking"} \/ InWindow(c)

\* The inductive invariant: the deadline is up to MaxDelay after the timer, a
\* helper that has made its choice had a reason, and only a call with a timeout
\* is ever parked.
Fired(c) == c \in cancelled \/ (request[c].timeout # 0 /\ clock >= timer[c])

WaitInv ==
    /\ TypeOK
    /\ NoMissedProgress
    /\ ParkedHasWaker
    /\ \A c \in Callers :
          /\ caller[c] \in {"idle", "armed"} => helper[c] = "none"
          /\ caller[c] = "armed" =>
                timer[c] <= clock + Timeout /\ clock + Timeout <= timer[c] + MaxDelay
          /\ caller[c] = "waiting" => request[c].timeout # 0
          /\ caller[c] \in {"check", "waiting"} =>
                /\ timer[c] <= deadline[c] /\ deadline[c] <= timer[c] + MaxDelay
                /\ helper[c] # "none"
                /\ helper[c] # "select" => Fired(c)

\* A call whose helper is spent and that parked in the window between its timer
\* and its deadline.
Late(c) == caller[c] = "waiting" /\ helper[c] = "gone" /\ InWindow(c)

\* Every call ends, whatever the projector does: satisfied, cancelled, stale or
\* timed out, unless it parks in the window between timer and deadline after its
\* helper's broadcast.
WaitEnds == \A c \in Callers : caller[c] # "idle" ~> Returned(c) \/ Late(c)

\* What docs/API.md promises, a wait that respects its caller's timeout.  The
\* code does not keep it: see the README.
WaitReturns == \A c \in Callers : caller[c] # "idle" ~> Returned(c)
=============================================================================
