------------------------------ MODULE Delivery ------------------------------
(* What the synchronisation of offline work promises a device: the effects  *)
(* of an operation are committed at most once, and an operation is          *)
(* acknowledged only when they are.                                         *)
EXTENDS Naturals

CONSTANTS Key, Entity, EntityOf

VARIABLES
  created,  \* how often the rows and effects of an entity were committed
  acked     \* the operations whose device knows that they are done

Init == created = [e \in Entity |-> 0] /\ acked = {}

Apply(e) ==
  /\ created[e] = 0
  /\ created' = [created EXCEPT ![e] = 1]
  /\ UNCHANGED acked

Acknowledge(keys) ==
  /\ \A k \in keys : created[EntityOf[k]] = 1
  /\ acked' = acked \cup keys
  /\ UNCHANGED created

Next == (\E e \in Entity : Apply(e)) \/ (\E keys \in SUBSET Key : Acknowledge(keys))

Spec == Init /\ [][Next]_<<created, acked>>
=============================================================================
