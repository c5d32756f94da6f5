----------------------------- MODULE DurableLog -----------------------------
(***************************************************************************)
(* What a store promises to those that Apply mutations: a log to which     *)
(* each Apply that succeeds adds one entry, that every later process       *)
(* finds again, and that a repeated key does not grow.  There are no       *)
(* segments, snapshots, manifests or compactions here.                     *)
(*                                                                         *)
(* Three things may spoil it, so that no later process accepts it: an      *)
(* Apply that fails, whose entry may also be found by the next process; an *)
(* Apply of a mutation too large to be read back, which succeeds; and a    *)
(* first Start that is cut short, when there is nothing to lose yet.  That *)
(* is all the harm there is.                                               *)
(***************************************************************************)
EXTENDS Integers

CONSTANTS
    Mutations,
    Keyed,          \* those with an idempotency key
    Oversized       \* those that are accepted but cannot be read back

VARIABLES
    state,          \* "up" while a process serves the store, or "down"
    log,            \* the (sequence, mutation) pairs it holds
    doubt,          \* what a failed Apply has left for the next process
    spoilt,         \* no later process will accept the log
    acked           \* what Apply has returned to its callers

vars == <<state, log, doubt, spoilt, acked>>

\* The entry that m would be: the log has no gaps, so it comes next, and a key
\* that is known gets none.
IsNext(e, m) ==
    /\ e.mut = m
    /\ e.seq > 0
    /\ {x.seq : x \in log} = 1..(e.seq - 1)
    /\ m \in Keyed => \A x \in log : x.mut # m

NextEntries(m) == {[seq |-> n + 1, mut |-> m] : n \in {0} \union {x.seq : x \in log}}

Init ==
    /\ state = "down"
    /\ log = {}
    /\ doubt = {}
    /\ spoilt = FALSE
    /\ acked = {}

\* The log is spoilt by an entry that cannot be read back, and by one that
\* takes the number a failed Apply has left in use.
Submit(m) ==
    /\ state = "up"
    /\ \E e \in NextEntries(m) :
          /\ IsNext(e, m)
          /\ log' = log \union {e}
          /\ acked' = acked \union {e}
    /\ spoilt' = (spoilt \/ doubt # {} \/ m \in Oversized)
    /\ doubt' = {}
    /\ UNCHANGED state

Repeat(m) ==
    /\ state = "up"
    /\ m \in Keyed
    /\ \E e \in log : e.mut = m /\ acked' = acked \union {e}
    /\ UNCHANGED <<state, log, doubt, spoilt>>

\* An error: nothing changes that this process can see.
Fail(m) ==
    /\ state = "up"
    /\ \/ /\ spoilt' = TRUE
          /\ doubt' = {}
       \/ /\ ~spoilt
          /\ doubt = {}
          /\ m \notin Oversized
          /\ \E e \in NextEntries(m) : IsNext(e, m) /\ doubt' = {e}
          /\ UNCHANGED spoilt
    /\ UNCHANGED <<state, log, acked>>

\* Whether by Close or by a crash.
Stop ==
    /\ state = "up"
    /\ state' = "down"
    /\ log' = IF spoilt THEN {} ELSE log \union doubt
    /\ doubt' = {}
    /\ UNCHANGED <<spoilt, acked>>

\* The process dies inside an Apply.
Interrupt(m) ==
    /\ state = "up"
    /\ state' = "down"
    /\ \/ /\ spoilt' = TRUE
          /\ log' = {}
       \/ /\ ~spoilt
          /\ doubt = {}
          /\ m \notin Oversized
          /\ \E e \in NextEntries(m) : IsNext(e, m) /\ log' = log \union {e}
          /\ UNCHANGED spoilt
    /\ doubt' = {}
    /\ UNCHANGED acked

Start ==
    /\ state = "down"
    /\ ~spoilt
    /\ state' = "up"
    /\ UNCHANGED <<log, doubt, spoilt, acked>>

\* The very first Start is cut short: there is nothing to lose yet.
StillBorn ==
    /\ state = "down"
    /\ log = {}
    /\ acked = {}
    /\ spoilt' = TRUE
    /\ UNCHANGED <<state, log, doubt, acked>>

Next ==
    \/ \E m \in Mutations : Submit(m) \/ Repeat(m) \/ Fail(m) \/ Interrupt(m)
    \/ Stop
    \/ Start
    \/ StillBorn

Spec == Init /\ [][Next]_vars
-----------------------------------------------------------------------------
Serves == state = "up" \/ ~spoilt

\* What is in doubt would be a next entry; it is the only one, of a process
\* that runs, in a log that the next one will accept.
DoubtSound ==
    /\ \A e \in doubt : e \in NextEntries(e.mut) /\ IsNext(e, e.mut)
    /\ \A e, f \in doubt : e = f
    /\ doubt # {} => state = "up" /\ ~spoilt

\* What callers can rely on: any process that serves the log has all that was
\* acknowledged, numbered 1, 2, 3, ... without a gap, each number once; and a
\* keyed mutation is in it, or was acknowledged, at most once.
Promise ==
    /\ Serves => acked \subseteq log
    /\ \E n \in {0} \union {x.seq : x \in log} : {x.seq : x \in log} = 1..n
    /\ \A x, y \in log \union acked : x.seq = y.seq => x = y
    /\ \A x, y \in log \union acked : x.mut = y.mut /\ x.mut \in Keyed => x = y
=============================================================================
