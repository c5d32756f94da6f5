------------------------ MODULE ProjectionWaitProofs ------------------------
(***************************************************************************)
(* Proofs about ProjectionWait, for any number of callers, any timeout and *)
(* any delay between starting the timer and computing the deadline: no     *)
(* parked caller has what it waits for, and none is without the helper     *)
(* that will wake it but one that parked between its timer and deadline.   *)
(***************************************************************************)
EXTENDS ProjectionWait, TLAPS

\* Broadcast sends every parked caller back to its loop and no other anywhere.
LEMMA WokenFacts ==
    ASSUME TypeOK
    PROVE  /\ Woken \in [Callers -> {"idle", "armed", "check", "waiting"} \union Results]
           /\ \A c \in Callers :
                 /\ Woken[c] # "waiting"
                 /\ caller[c] = "waiting" => Woken[c] = "check"
                 /\ caller[c] # "waiting" => Woken[c] = caller[c]
BY DEF TypeOK, Woken

\* Every step preserves the invariant.
LEMMA InductiveStep == WaitInv /\ [Next]_vars => WaitInv'
<1> SUFFICES ASSUME WaitInv, [Next]_vars PROVE WaitInv'
  OBVIOUS
<1>t. TypeOK /\ clock \in Nat /\ Timeout \in Nat /\ MaxDelay \in Nat
  BY TimeoutAssumption, MaxDelayAssumption DEF WaitInv, TypeOK
<1>d. \A c \in Callers :
         timer[c] \in Nat /\ deadline[c] \in Nat /\ parkedAt[c] \in Nat
  BY <1>t DEF TypeOK
<1>i. /\ NoMissedProgress /\ ParkedHasWaker
      /\ \A c \in Callers :
            /\ caller[c] \in {"idle", "armed"} => helper[c] = "none"
            /\ caller[c] = "armed" =>
                  timer[c] <= clock + Timeout /\ clock + Timeout <= timer[c] + MaxDelay
            /\ caller[c] = "waiting" => request[c].timeout # 0
            /\ caller[c] \in {"check", "waiting"} =>
                  /\ timer[c] <= deadline[c] /\ deadline[c] <= timer[c] + MaxDelay
                  /\ helper[c] # "none"
                  /\ helper[c] # "select" => Fired(c)
  BY DEF WaitInv
<1>1. CASE RegisterProjector \/ Apply \/ AdvanceCheckpoint
  <2>1. /\ caller' = Woken
        /\ UNCHANGED <<clock, cancelled, request, timer, deadline, helper,
                       parkedAt>>
    BY <1>1 DEF RegisterProjector, Apply, AdvanceCheckpoint
  <2>2. TypeOK'
    <3>1. /\ registered' \in BOOLEAN
          /\ durableSeq' \in 0..MaxSeq
          /\ indexedSeq' \in 0..MaxSeq
      <4>1. /\ MaxSeq \in Nat /\ registered \in BOOLEAN
            /\ durableSeq \in 0..MaxSeq /\ indexedSeq \in 0..MaxSeq
        BY <1>t, BoundsAssumption DEF TypeOK
      <4>2. CASE RegisterProjector
        BY <4>1, <4>2 DEF RegisterProjector
      <4>3. CASE Apply
        BY <4>1, <4>3 DEF Apply
      <4>4. CASE AdvanceCheckpoint
        BY <4>1, <4>4 DEF AdvanceCheckpoint
      <4>5. QED
        BY <1>1, <4>2, <4>3, <4>4
    <3>2. QED
      BY <1>t, <2>1, <3>1, WokenFacts DEF TypeOK
  <2>3. NoMissedProgress' /\ ParkedHasWaker'
    BY <1>t, <2>1, WokenFacts DEF NoMissedProgress, ParkedHasWaker, InWindow
  <2>4. QED
    BY <1>t, <1>i, <2>1, <2>2, <2>3, WokenFacts DEF WaitInv, Fired, Results
<1>2. ASSUME NEW c \in Callers, Cancel(c)
      PROVE  WaitInv'
  BY <1>2, <1>t, <1>i
  DEF Cancel, WaitInv, TypeOK, NoMissedProgress, ParkedHasWaker, InWindow, Fired,
      Satisfied
<1>3. CASE Tick
  <2>1. /\ clock' = clock + 1
        /\ \A c \in Callers : caller[c] = "armed" => clock < timer[c] - Timeout + MaxDelay
        /\ UNCHANGED <<durableSeq, registered, indexedSeq, cancelled, request,
                       caller, timer, deadline, helper, parkedAt>>
    BY <1>3 DEF Tick
  <2>2. TypeOK'
    BY <1>t, <2>1 DEF TypeOK
  <2>3. NoMissedProgress' /\ ParkedHasWaker'
    BY <1>i, <2>1 DEF NoMissedProgress, ParkedHasWaker, InWindow, Satisfied
  <2>4. \A c \in Callers : Fired(c) => Fired(c)'
    BY <1>t, <1>d, <2>1 DEF Fired
  <2>5. \A c \in Callers : caller[c] = "armed" =>
           timer[c] <= clock' + Timeout /\ clock' + Timeout <= timer[c] + MaxDelay
    BY <1>t, <1>d, <1>i, <2>1
  <2>6. QED
    BY <1>i, <2>1, <2>2, <2>3, <2>4, <2>5 DEF WaitInv
<1>4. ASSUME NEW c \in Callers, Call(c)
      PROVE  WaitInv'
  <2>1. /\ caller[c] = "idle"
        /\ caller' = [caller EXCEPT ![c] = "armed"]
        /\ timer' = [timer EXCEPT ![c] = clock + Timeout]
        /\ UNCHANGED <<clock, durableSeq, registered, indexedSeq, cancelled,
                       deadline, helper, parkedAt>>
    BY <1>4 DEF Call
  <2>2. PICK r \in Request : request' = [request EXCEPT ![c] = r]
    BY <1>4 DEF Call
  <2>3. TypeOK'
    BY <1>t, <2>1, <2>2 DEF TypeOK
  <2>4. /\ caller'[c] = "armed" /\ timer'[c] = clock + Timeout
        /\ \A d \in Callers \ {c} :
              caller'[d] = caller[d] /\ timer'[d] = timer[d] /\ request'[d] = request[d]
    BY <1>t, <2>1, <2>2 DEF TypeOK
  <2>5. QED
    BY <1>t, <1>i, <2>1, <2>3, <2>4
    DEF WaitInv, NoMissedProgress, ParkedHasWaker, InWindow, Fired, Satisfied
<1>5. ASSUME NEW c \in Callers, SetDeadline(c)
      PROVE  WaitInv'
  <2>1. /\ caller[c] = "armed"
        /\ caller' = [caller EXCEPT ![c] = "check"]
        /\ deadline' = [deadline EXCEPT ![c] = clock + Timeout]
        /\ helper' = [helper EXCEPT ![c] = "select"]
        /\ UNCHANGED <<clock, durableSeq, registered, indexedSeq, cancelled,
                       request, timer, parkedAt>>
    BY <1>5 DEF SetDeadline
  <2>2. TypeOK'
    BY <1>t, <2>1 DEF TypeOK
  <2>3. /\ caller'[c] = "check" /\ helper'[c] = "select"
        /\ timer'[c] <= deadline'[c] /\ deadline'[c] <= timer'[c] + MaxDelay
        /\ \A d \in Callers \ {c} :
              /\ caller'[d] = caller[d] /\ deadline'[d] = deadline[d]
              /\ helper'[d] = helper[d]
    <3>1. deadline'[c] = clock + Timeout /\ timer'[c] = timer[c]
      BY <1>t, <2>1 DEF TypeOK
    <3>2. QED
      BY <1>t, <1>d, <1>i, <2>1, <3>1 DEF TypeOK
  <2>4. QED
    BY <1>t, <1>i, <2>1, <2>2, <2>3
    DEF WaitInv, NoMissedProgress, ParkedHasWaker, InWindow, Fired, Satisfied
<1>6. ASSUME NEW c \in Callers, Check(c)
      PROVE  WaitInv'
  <2>1. /\ caller[c] = "check"
        /\ caller' = [caller EXCEPT ![c] = Verdict(c)]
        /\ parkedAt' = IF Verdict(c) = "waiting" THEN [parkedAt EXCEPT ![c] = clock]
                                                 ELSE parkedAt
        /\ UNCHANGED <<clock, durableSeq, registered, indexedSeq, cancelled,
                       request, timer, deadline, helper>>
    BY <1>6 DEF Check
  <2>2. /\ Verdict(c) \in Results \union {"waiting"}
        /\ Verdict(c) = "waiting" =>
              /\ registered /\ ~Satisfied(request[c]) /\ c \notin cancelled
              /\ request[c].timeout # 0 /\ ~(clock >= deadline[c])
    BY DEF Verdict, Results
  <2>3. TypeOK'
    BY <1>t, <2>1, <2>2 DEF TypeOK
  <2>4. /\ caller'[c] = Verdict(c)
        /\ Verdict(c) = "waiting" => parkedAt'[c] = clock
        /\ \A d \in Callers \ {c} :
              caller'[d] = caller[d] /\ parkedAt'[d] = parkedAt[d]
    BY <1>t, <2>1 DEF TypeOK
  <2>5. Verdict(c) = "waiting" =>
           \/ helper[c] \in {"select", "locking"}
           \/ timer[c] <= clock /\ clock < deadline[c]
    <3>1. SUFFICES ASSUME Verdict(c) = "waiting", helper[c] # "select"
                   PROVE  timer[c] <= clock /\ clock < deadline[c]
      BY <1>t, <1>i, <2>1 DEF TypeOK
    <3>2. Fired(c) /\ c \notin cancelled /\ ~(clock >= deadline[c])
      BY <1>i, <2>1, <2>2, <3>1
    <3>3. QED
      BY <1>t, <1>d, <3>2 DEF Fired
  <2>6. NoMissedProgress' /\ ParkedHasWaker'
    BY <1>i, <2>1, <2>2, <2>4, <2>5
    DEF NoMissedProgress, ParkedHasWaker, InWindow, Satisfied
  <2>7. QED
    BY <1>i, <2>1, <2>2, <2>3, <2>4, <2>6 DEF WaitInv, Fired, Results
<1>7. ASSUME NEW c \in Callers, HelperSelects(c)
      PROVE  WaitInv'
  <2>1. /\ helper[c] = "select"
        /\ \/ /\ helper' = [helper EXCEPT ![c] = "locking"]
              /\ c \in cancelled \/ (request[c].timeout # 0 /\ clock >= timer[c])
           \/ /\ helper' = [helper EXCEPT ![c] = "gone"]
              /\ caller[c] \in Results
        /\ UNCHANGED <<clock, durableSeq, registered, indexedSeq, cancelled,
                       request, caller, timer, deadline, parkedAt>>
    BY <1>7 DEF HelperSelects, Returned
  <2>2. TypeOK'
    BY <1>t, <2>1 DEF TypeOK
  <2>3. /\ \A d \in Callers \ {c} : helper'[d] = helper[d]
        /\ helper'[c] \in {"locking", "gone"}
        /\ helper'[c] = "gone" => caller[c] \in Results
        /\ caller[c] \in {"check", "waiting"} => Fired(c)
    BY <1>t, <1>i, <2>1 DEF TypeOK, Fired, Results
  <2>4. NoMissedProgress' /\ ParkedHasWaker'
    BY <1>i, <2>1, <2>3
    DEF NoMissedProgress, ParkedHasWaker, InWindow, Satisfied, Results
  <2>5. QED
    BY <1>i, <2>1, <2>2, <2>3, <2>4 DEF WaitInv, Fired, Results
<1>8. ASSUME NEW c \in Callers, HelperBroadcasts(c)
      PROVE  WaitInv'
  <2>1. /\ helper[c] = "locking" /\ caller' = Woken
        /\ helper' = [helper EXCEPT ![c] = "gone"]
        /\ UNCHANGED <<clock, durableSeq, registered, indexedSeq, cancelled,
                       request, timer, deadline, parkedAt>>
    BY <1>8 DEF HelperBroadcasts
  <2>2. TypeOK'
    BY <1>t, <2>1, WokenFacts DEF TypeOK
  <2>3. helper'[c] = "gone" /\ \A d \in Callers \ {c} : helper'[d] = helper[d]
    BY <1>t, <2>1 DEF TypeOK
  <2>4. NoMissedProgress' /\ ParkedHasWaker'
    BY <1>t, <2>1, WokenFacts DEF NoMissedProgress, ParkedHasWaker, InWindow
  <2>5. QED
    BY <1>t, <1>i, <2>1, <2>2, <2>3, <2>4, WokenFacts DEF WaitInv, Fired, Results
<1>9. CASE UNCHANGED vars
  BY <1>9
  DEF vars, WaitInv, TypeOK, NoMissedProgress, ParkedHasWaker, InWindow, Fired, Satisfied
<1>10. QED
  BY <1>1, <1>2, <1>3, <1>4, <1>5, <1>6, <1>7, <1>8, <1>9
  DEF Next, Environment, Waiting

LEMMA InductiveInit == Init => WaitInv
<1> SUFFICES ASSUME Init PROVE WaitInv
  OBVIOUS
<1>1. [min |-> 0, maxLag |-> 0, timeout |-> 0] \in Request
  BY BoundsAssumption DEF Request
<1>2. TypeOK
  <2>1. 0 \in 0..MaxSeq
    BY BoundsAssumption
  <2>2. request \in [Callers -> Request]
    BY <1>1 DEF Init
  <2>3. clock \in Nat /\ registered \in BOOLEAN /\ cancelled \in SUBSET Callers
    BY DEF Init
  <2>4. /\ caller \in [Callers -> {"idle", "armed", "check", "waiting"} \union Results]
        /\ timer \in [Callers -> Nat] /\ deadline \in [Callers -> Nat]
        /\ helper \in [Callers -> {"none", "select", "locking", "gone"}]
    BY DEF Init
  <2>5. QED
    BY <2>1, <2>2, <2>3, <2>4 DEF Init, TypeOK
<1>3. QED
  BY <1>2 DEF Init, WaitInv, NoMissedProgress, ParkedHasWaker

\* The inductive invariant, however long it takes from the timer to the
\* deadline: timer, deadline and helper agree with where a caller is.
THEOREM WaitInvariant == Spec => []WaitInv
<1> QED
  BY InductiveInit, InductiveStep, PTL DEF Spec

\* No caller stays in Cond.Wait while what it waits for is there: every change
\* of the watermark that can satisfy a request broadcasts.
THEOREM ProgressSeen == Spec => []NoMissedProgress
<1>1. WaitInv => NoMissedProgress
  BY DEF WaitInv
<1>2. QED
  BY <1>1, WaitInvariant, PTL

\* A caller in Cond.Wait still has its helper to wake it, unless it parked with
\* its timer over and its deadline ahead: neither a cancelled call nor one that
\* parked earlier is ever left without.
THEOREM WakerSafe == Spec => []ParkedHasWaker
<1>1. WaitInv => ParkedHasWaker
  BY DEF WaitInv
<1>2. QED
  BY <1>1, WaitInvariant, PTL
=============================================================================
