----------------------------- MODULE Inventory -----------------------------
(***************************************************************************)
(* InventoryService.recordStockMovement and adjustStock, which run without *)
(* a transaction: each statement commits by itself, and adjustStock takes  *)
(* its difference from a balance that recordStockMovement reads again.     *)
(***************************************************************************)
EXTENDS Requests

ReceiveMovement(r) ==
  \E o \in Order :
    /\ o.kind = "MOVEMENT"
    /\ step[r] = "idle"
    /\ order' = [order EXCEPT ![r] = o]
    /\ step'  = [step EXCEPT ![r] = "read"]
    /\ diff'  = [diff EXCEPT ![r] = o.quantity]
    /\ UNCHANGED <<todo, seen, base>>
    /\ UNCHANGED storeVars

ReceiveCount(r) ==
  \E o \in Order : o.kind = "COUNT" /\ Receive(r, o, "count", <<>>)

\* adjustStock: the difference to the counted quantity, refused when there is none.
CompareCount(r) ==
  /\ At(r, "COUNT", "count")
  /\ LET difference == order[r].actual - Qty(Seen(r, order[r].row))
     IN  IF difference = 0
         THEN Reject(r)
         ELSE /\ diff' = [diff EXCEPT ![r] = difference]
              /\ step' = [step EXCEPT ![r] = "read"]
              /\ UNCHANGED <<order, todo, seen, base>>
              /\ UNCHANGED storeVars

InMovement(r, s) == At(r, "MOVEMENT", s) \/ At(r, "COUNT", s)

ReadStock(r) ==
  /\ InMovement(r, "read")
  /\ Read(r, order[r].row, "write")

WriteStock(r) ==
  /\ InMovement(r, "write")
  /\ \/ /\ Autocommit(r, order[r].row, seen[r], diff[r])
        /\ Goto(r, "log", <<>>, Null)
     \/ /\ UniqueViolation(r, order[r].row, seen[r])
        /\ Reject(r)

\* Mutant: the movement is left out.
LogMovementSkipped(r) ==
  /\ InMovement(r, "log")
  /\ UNCHANGED storeVars
  /\ End(r, "done")

LogMovement(r) ==
  /\ InMovement(r, "log")
  /\ InsertMovement(order[r].row, diff[r])
  /\ End(r, "done")

InventoryStep(r) ==
  \/ ReceiveMovement(r) \/ ReceiveCount(r) \/ CompareCount(r)
  \/ ReadStock(r) \/ WriteStock(r) \/ LogMovement(r)
=============================================================================
