--------------------------- MODULE ProjectionFeed ---------------------------
(***************************************************************************)
(* What the projector runtime promises, without threads, files or queues:  *)
(* every projector is fed the sequence numbers 1, 2, 3, ... of the log in  *)
(* order and without a gap, each at least once, and its durable mark only  *)
(* moves over what it has been given.                                      *)
(***************************************************************************)
EXTENDS Integers

CONSTANT Names

VARIABLES
    tail,    \* the last sequence number of the log
    mark,    \* how far each projector has durably come
    given    \* the events each projector has been given

feed == <<tail, mark, given>>

Init ==
    /\ tail = 0
    /\ mark = [n \in Names |-> 0]
    /\ given = [n \in Names |-> {}]

Produce ==
    /\ tail' = tail + 1
    /\ UNCHANGED <<mark, given>>

\* The next event, or once more one of those before it.
Give(n) ==
    /\ \E e \in 1..(mark[n] + 1) :
          /\ e <= tail
          /\ given' = [given EXCEPT ![n] = @ \union {e}]
    /\ UNCHANGED <<tail, mark>>

Acknowledge(n) ==
    /\ mark[n] + 1 \in given[n]
    /\ mark' = [mark EXCEPT ![n] = @ + 1]
    /\ UNCHANGED <<tail, given>>

Next == Produce \/ \E n \in Names : Give(n) \/ Acknowledge(n)

Spec == Init /\ [][Next]_feed
-----------------------------------------------------------------------------
\* What a projector can rely on: the events it has been given are the first of
\* the log, none left out, and its mark counts them but for the last.
Promise ==
    \A n \in Names :
        /\ mark[n] \in 0..tail
        /\ given[n] \in {1..mark[n], 1..(mark[n] + 1)}
        /\ given[n] \subseteq 1..tail
=============================================================================
