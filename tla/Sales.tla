------------------------------- MODULE Sales -------------------------------
(***************************************************************************)
(* SalesService.createSale.  The stock of every line is checked before the *)
(* transaction opens; the transaction reads the balance of each line again *)
(* and sets it to what it read minus the quantity, without a second check. *)
(***************************************************************************)
EXTENDS Requests

\* Math.max(0, grandTotal - paidAmount)
DueAmount(o) == IF o.grandTotal > o.paidAmount THEN o.grandTotal - o.paidAmount ELSE 0

\* Mutant: only a sale without any payment is charged.
ChargesCustomerWhenUnpaid(o) == o.party # Null /\ o.paidAmount = 0

\* `if (dto.customerId && dueAmount > 0)`
ChargesCustomer(o) == o.party # Null /\ DueAmount(o) > 0

ReceiveSale(r) ==
  \E o \in Order : o.kind = "SALE" /\ Receive(r, o, "check", o.lines)

CheckStock(r) ==
  /\ At(r, "SALE", "check")
  /\ todo[r] # <<>>
  /\ LET line == Head(todo[r])
     IN  IF Qty(Seen(r, line.row)) < line.quantity
         THEN Reject(r)
         ELSE /\ Goto(r, "check", Tail(todo[r]), Null)
              /\ UNCHANGED storeVars

OpenSale(r) ==
  /\ At(r, "SALE", "check")
  /\ todo[r] = <<>>
  /\ InsertDocument(r)

ReadSaleLine(r) ==
  /\ At(r, "SALE", "read")
  /\ todo[r] # <<>>
  /\ Read(r, Head(todo[r]).row, "write")

\* Mutant: the movement has lost its sign.
WriteSaleLineUnsigned(r) ==
  /\ At(r, "SALE", "write")
  /\ todo[r] # <<>>
  /\ LET line == Head(todo[r])
     IN  Write(r, line.row, Qty(seen[r]) - line.quantity, line.quantity)
  /\ UNCHANGED tainted
  /\ Goto(r, "read", Tail(todo[r]), Null)

\* The balance is set and a SALE_OUT movement of -quantity inserted.
WriteSaleLine(r) ==
  /\ At(r, "SALE", "write")
  /\ todo[r] # <<>>
  /\ LET line == Head(todo[r])
     IN  WriteFromSeen(r, line.row, -line.quantity, "read", Tail(todo[r]))

\* Mutant: the whole total goes to the balance, the unpaid part to the transactions.
ChargeCustomerGross(r) ==
  /\ At(r, "SALE", "read")
  /\ todo[r] = <<>>
  /\ LET party == order[r].party
     IN  IF ChargesCustomer(order[r])
         THEN /\ Write(r, party, Seen(r, party) + order[r].grandTotal, DueAmount(order[r]))
              /\ UNCHANGED tainted
         ELSE UNCHANGED storeVars
  /\ Goto(r, "commit", <<>>, Null)

\* The unpaid part is added to the customer's balance and to its transactions.
ChargeCustomer(r) ==
  /\ At(r, "SALE", "read")
  /\ todo[r] = <<>>
  /\ IF ChargesCustomer(order[r])
     THEN Increment(r, order[r].party, DueAmount(order[r]))
     ELSE UNCHANGED storeVars
  /\ Goto(r, "commit", <<>>, Null)

CommitSale(r) == At(r, "SALE", "commit") /\ Commit(r)

SaleStep(r) ==
  \/ ReceiveSale(r) \/ CheckStock(r) \/ OpenSale(r) \/ ReadSaleLine(r)
  \/ WriteSaleLine(r) \/ ChargeCustomer(r) \/ CommitSale(r)
=============================================================================
