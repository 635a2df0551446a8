------------------------------- MODULE MCSync -------------------------------
(* Instances of Sync for TLC.                                               *)
EXTENDS Sync

CONSTANTS d1, d2, k1, k2, k3, k4, e1, e2, push1, push2

\* The operations of d1 create the same entity, queued under two keys; those
\* of d2 another.
MCEntityOf == [k \in Key |-> IF k \in {k3, k4} THEN e2 ELSE e1]
MCOrigin   == [k \in Key |-> IF k \in {k3, k4} THEN d2 ELSE d1]
MCQueue    == [d \in Device |-> SelectSeq(<<k1, k2, k3, k4>>, LAMBDA k : k \in Key /\ MCOrigin[k] = d)]

\* d1 pushes twice at the same time.
Impatient == [p \in Push |-> d1]

\* Each device pushes once at a time.
OneEach == [p \in Push |-> IF p = push1 THEN d1 ELSE d2]
=============================================================================
