----------------------------- MODULE Transfers -----------------------------
(***************************************************************************)
(* StockTransferService.transferStock: one transaction that takes the      *)
(* quantity from one warehouse and adds it in another, the source first.   *)
(* The status it gives serial numbers is not modelled.                     *)
(***************************************************************************)
EXTENDS Requests

Source(o) == <<o.from, o.product>>
Target(o) == <<o.to, o.product>>

ReceiveTransfer(r) ==
  \E o \in Order : o.kind = "TRANSFER" /\ Receive(r, o, "check", <<>>)

\* The source balance is read and refused when it is missing or too small.
ReadSource(r) ==
  /\ At(r, "TRANSFER", "check")
  /\ LET source  == Source(order[r])
         balance == Seen(r, source)
     IN  IF balance = Null \/ Qty(balance) < order[r].quantity
         THEN Reject(r)
         ELSE Read(r, source, "write")

WriteSource(r) ==
  /\ At(r, "TRANSFER", "write")
  /\ WriteFromSeen(r, Source(order[r]), -order[r].quantity, "readSecond", <<>>)

ReadTarget(r) ==
  /\ At(r, "TRANSFER", "readSecond")
  /\ Read(r, Target(order[r]), "writeSecond")

\* Mutant: the destination is set to the quantity, whatever it held.
WriteTargetOverwrites(r) ==
  /\ At(r, "TRANSFER", "writeSecond")
  /\ Write(r, Target(order[r]), order[r].quantity, order[r].quantity)
  /\ UNCHANGED tainted
  /\ Goto(r, "commit", <<>>, Null)

WriteTarget(r) ==
  /\ At(r, "TRANSFER", "writeSecond")
  /\ WriteFromSeen(r, Target(order[r]), order[r].quantity, "commit", <<>>)

\* Mutant: the transaction is never ended.
CommitTransferForgotten(r) ==
  /\ At(r, "TRANSFER", "commit")
  /\ UNCHANGED storeVars
  /\ End(r, "done")

CommitTransfer(r) == At(r, "TRANSFER", "commit") /\ Commit(r)

TransferStep(r) ==
  \/ ReceiveTransfer(r) \/ ReadSource(r) \/ WriteSource(r)
  \/ ReadTarget(r) \/ WriteTarget(r) \/ CommitTransfer(r)
=============================================================================
