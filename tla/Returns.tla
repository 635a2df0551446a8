------------------------------ MODULE Returns ------------------------------
(***************************************************************************)
(* ReturnAdjustmentService.processReturn and processStockAdjustment.  A    *)
(* return is checked against the quantities already returned, read once at *)
(* the start of its transaction; its lines then move the stock with        *)
(* increments and conditional decrements.                                  *)
(***************************************************************************)
EXTENDS Requests, Functions

VARIABLES
  returned,  \* the quantity of each product in the committed returns of an invoice
  raced      \* history: invoices with a return committed after another return
             \* of the same invoice changed what its check had read

returnVars == <<returned, raced>>

ReturnsInit ==
  /\ returned = [doc \in Invoice |-> NothingReturned]
  /\ raced = {}

\* `new Map(source.items.map(...))`: of two items of a product the last one counts.
HasSourceItem(doc, p) == \E i \in DOMAIN InvoiceLines[doc] : InvoiceLines[doc][i].product = p
SourceQty(doc, p) ==
  LET lines == {i \in DOMAIN InvoiceLines[doc] : InvoiceLines[doc][i].product = p}
      last  == CHOOSE i \in lines : \A j \in lines : j <= i
  IN  InvoiceLines[doc][last].quantity

\* requestedByProduct
LineProduct(line) == line.row[2]
RequestedProducts(o) == {LineProduct(o.lines[i]) : i \in DOMAIN o.lines}
RequestedQty(o, p) ==
  SumFunctionOnSet([i \in DOMAIN o.lines |-> o.lines[i].quantity],
                   {i \in DOMAIN o.lines : LineProduct(o.lines[i]) = p})

\* Mutant: the earlier returns are left out.
WithinSourceAlone(o, already) ==
  \A p \in RequestedProducts(o) :
    HasSourceItem(o.invoice, p) /\ RequestedQty(o, p) <= SourceQty(o.invoice, p)

\* The loop of preparedItems throws at the first line it cannot accept.
WithinSource(o, already) ==
  \A p \in RequestedProducts(o) :
    /\ HasSourceItem(o.invoice, p)
    /\ already[p] + RequestedQty(o, p) <= SourceQty(o.invoice, p)

ReturnKind == {"SALE_RETURN", "PURCHASE_RETURN"}
InReturn(r, s) == \E kind \in ReturnKind : At(r, kind, s)

ReceiveReturn(r) ==
  /\ \E o \in Order :
       /\ o.kind \in ReturnKind
       /\ o.lines # <<>>
       /\ Receive(r, o, "check", o.lines)
  /\ UNCHANGED returnVars

\* The existing returns are read, the lines compared, and the return created.
CheckReturn(r) ==
  /\ InReturn(r, "check")
  /\ LET already == returned[order[r].invoice]
     IN  IF WithinSource(order[r], already)
         THEN /\ base' = [base EXCEPT ![r] = already]
              /\ step' = [step EXCEPT ![r] = "write"]
              /\ UNCHANGED <<order, todo, seen, diff>>
              /\ UNCHANGED storeVars
         ELSE Reject(r)
  /\ UNCHANGED returnVars

\* Mutant: the upsert sets the quantity instead of incrementing it.
TakeBackLineOverwrites(r) ==
  /\ At(r, "SALE_RETURN", "write")
  /\ todo[r] # <<>>
  /\ LET line == Head(todo[r]) IN Write(r, line.row, line.quantity, line.quantity)
  /\ UNCHANGED tainted
  /\ Goto(r, "write", Tail(todo[r]), Null)
  /\ UNCHANGED returnVars

\* A customer's line: upsert with an increment.
TakeBackLine(r) ==
  /\ At(r, "SALE_RETURN", "write")
  /\ todo[r] # <<>>
  /\ LET line == Head(todo[r]) IN Increment(r, line.row, line.quantity)
  /\ Goto(r, "write", Tail(todo[r]), Null)
  /\ UNCHANGED returnVars

\* Mutant: the decrement has no condition.
SendBackLineUnguarded(r) ==
  /\ At(r, "PURCHASE_RETURN", "write")
  /\ todo[r] # <<>>
  /\ LET line == Head(todo[r]) IN Increment(r, line.row, -line.quantity)
  /\ Goto(r, "write", Tail(todo[r]), Null)
  /\ UNCHANGED returnVars

\* A supplier's line: refused when there is no balance; otherwise a decrement
\* with the condition `quantity >= line.quantity`, refused when it updates no row.
SendBackLine(r) ==
  /\ At(r, "PURCHASE_RETURN", "write")
  /\ todo[r] # <<>>
  /\ LET line    == Head(todo[r])
         balance == Seen(r, line.row)
     IN  \/ balance = Null /\ Reject(r)
         \/ /\ balance # Null
            /\ Available(r, line.row)
            /\ IF balance >= line.quantity
               THEN /\ Increment(r, line.row, -line.quantity)
                    /\ Goto(r, "write", Tail(todo[r]), Null)
               ELSE Reject(r)
  /\ UNCHANGED returnVars

\* Mutant: a supplier's return is recorded with negative quantities.
CommitReturnSigned(r) ==
  /\ InReturn(r, "write")
  /\ todo[r] = <<>>
  /\ LET o    == order[r]
         sign == IF o.kind = "SALE_RETURN" THEN 1 ELSE -1
     IN  returned' = [returned EXCEPT ![o.invoice] =
           [p \in Product |-> @[p] + sign * RequestedQty(o, p)]]
  /\ UNCHANGED raced
  /\ Commit(r)

CommitReturn(r) ==
  /\ InReturn(r, "write")
  /\ todo[r] = <<>>
  /\ LET o   == order[r]
         doc == o.invoice
     IN  /\ returned' = [returned EXCEPT ![doc] =
              [p \in Product |-> IF p \in RequestedProducts(o)
                                 THEN @[p] + RequestedQty(o, p) ELSE @[p]]]
         /\ raced' = IF returned[doc] = base[r] THEN raced ELSE raced \cup {doc}
  /\ Commit(r)

-----------------------------------------------------------------------------
ReceiveAdjustment(r) ==
  /\ \E o \in Order : o.kind = "ADJUSTMENT" /\ Receive(r, o, "read", <<>>)
  /\ UNCHANGED returnVars

\* A count that equals the balance changes nothing and succeeds.
ReadAdjusted(r) ==
  /\ At(r, "ADJUSTMENT", "read")
  /\ LET row == order[r].row
     IN  IF Qty(Seen(r, row)) = order[r].actual
         THEN Commit(r)
         ELSE Read(r, row, "write")
  /\ UNCHANGED returnVars

\* The balance becomes the count and an ADJUSTMENT movement of the difference
\* to the balance that was read is inserted.
WriteAdjusted(r) ==
  /\ At(r, "ADJUSTMENT", "write")
  /\ WriteFromSeen(r, order[r].row, order[r].actual - Qty(seen[r]), "commit", <<>>)
  /\ UNCHANGED returnVars

CommitAdjustment(r) ==
  /\ At(r, "ADJUSTMENT", "commit")
  /\ Commit(r)
  /\ UNCHANGED returnVars

ReturnStep(r) ==
  \/ ReceiveReturn(r) \/ CheckReturn(r) \/ TakeBackLine(r) \/ SendBackLine(r)
  \/ CommitReturn(r) \/ ReceiveAdjustment(r) \/ ReadAdjusted(r)
  \/ WriteAdjusted(r) \/ CommitAdjustment(r)

ReturnsTypeOK ==
  /\ returned \in [Invoice -> [Product -> Nat]]
  /\ raced \subseteq Invoice
=============================================================================
