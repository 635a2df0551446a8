----------------------------- MODULE Purchases -----------------------------
(***************************************************************************)
(* PurchasesService.createPurchase: as createSale, with the quantities     *)
(* added, no stock to check, and the unpaid part owed to the supplier.     *)
(***************************************************************************)
EXTENDS Requests

\* Math.max(0, grandTotal - paidAmount)
OwedAmount(o) == IF o.grandTotal > o.paidAmount THEN o.grandTotal - o.paidAmount ELSE 0

\* `if (dto.supplierId && dueAmount > 0)`
CreditsSupplier(o) == o.party # Null /\ OwedAmount(o) > 0

ReceivePurchase(r) ==
  \E o \in Order : o.kind = "PURCHASE" /\ Receive(r, o, "check", <<>>)

OpenPurchase(r) == At(r, "PURCHASE", "check") /\ InsertDocument(r)

ReadPurchaseLine(r) ==
  /\ At(r, "PURCHASE", "read")
  /\ todo[r] # <<>>
  /\ Read(r, Head(todo[r]).row, "write")

\* The balance is set and a PURCHASE_IN movement of the quantity inserted.
WritePurchaseLine(r) ==
  /\ At(r, "PURCHASE", "write")
  /\ todo[r] # <<>>
  /\ LET line == Head(todo[r])
     IN  WriteFromSeen(r, line.row, line.quantity, "read", Tail(todo[r]))

\* The unpaid part is added to the supplier's balance and to its transactions.
CreditSupplier(r) ==
  /\ At(r, "PURCHASE", "read")
  /\ todo[r] = <<>>
  /\ IF CreditsSupplier(order[r])
     THEN Increment(r, order[r].party, OwedAmount(order[r]))
     ELSE UNCHANGED storeVars
  /\ Goto(r, "commit", <<>>, Null)

CommitPurchase(r) == At(r, "PURCHASE", "commit") /\ Commit(r)

PurchaseStep(r) ==
  \/ ReceivePurchase(r) \/ OpenPurchase(r) \/ ReadPurchaseLine(r) \/ WritePurchaseLine(r)
  \/ CreditSupplier(r) \/ CommitPurchase(r)
=============================================================================
