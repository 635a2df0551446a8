---------------------------- MODULE Bookkeeping ----------------------------
(***************************************************************************)
(* The services that move stock and money, running side by side on one     *)
(* database: the handlers of every kind of order, the interruptions that   *)
(* may end any of them, and the deadlocks that PostgreSQL breaks.          *)
(***************************************************************************)
EXTENDS Sales, Purchases, Inventory, Transfers, Vouchers, Returns, FiniteSets

ASSUME BookkeepingAssumption ==
  /\ IsFiniteSet(Warehouse) /\ IsFiniteSet(Customer)
  /\ IsFiniteSet(SaleInvoice) /\ IsFiniteSet(PurchaseInvoice)

vars == <<storeVars, sessionVars, returnVars>>

Init == StoreInit /\ SessionInit /\ ReturnsInit

Handler(r) ==
  \/ /\ \/ SaleStep(r) \/ PurchaseStep(r) \/ InventoryStep(r)
        \/ TransferStep(r) \/ VoucherStep(r)
     /\ UNCHANGED returnVars
  \/ ReturnStep(r)

Interruption(r) == Interrupted(r) /\ UNCHANGED returnVars

-----------------------------------------------------------------------------
\* The next statement of r locks the row.
HasLines(r) == order[r].kind \in {"SALE", "PURCHASE"} \cup ReturnKind
Wants(r, row) ==
  \/ /\ step[r] = "write" /\ HasLines(r) /\ todo[r] # <<>>
     /\ row = Head(todo[r]).row
  \/ /\ step[r] = "read" /\ todo[r] = <<>>
     /\ \/ order[r].kind = "SALE"     /\ ChargesCustomer(order[r])
        \/ order[r].kind = "PURCHASE" /\ CreditsSupplier(order[r])
     /\ row = order[r].party
  \/ /\ step[r] = "write" /\ order[r].kind \in {"MOVEMENT", "COUNT", "ADJUSTMENT"}
     /\ row = order[r].row
  \/ At(r, "TRANSFER", "write")        /\ row = Source(order[r])
  \/ At(r, "TRANSFER", "writeSecond") /\ row = Target(order[r])
  \/ InCash(r, "write")                /\ row = order[r].cashbox
  \/ InCash(r, "writeSecond")         /\ row = order[r].party

WaitsFor(r, q) == r # q /\ \E row \in Row : holder[row] = q /\ Wants(r, row)

\* A request waits for at most one other, so a set in which everyone waits for
\* a member and is waited for by one consists of cycles.
Deadlocked(r) ==
  \E cycle \in SUBSET Request :
    /\ r \in cycle
    /\ \A q \in cycle : /\ \E s \in cycle : WaitsFor(q, s)
                        /\ \E s \in cycle : WaitsFor(s, q)

\* PostgreSQL aborts one transaction of a deadlock, and no service retries it.
DeadlockVictim(r) ==
  /\ Deadlocked(r)
  /\ RollbackRows(r)
  /\ End(r, "interrupted")
  /\ UNCHANGED returnVars

-----------------------------------------------------------------------------
\* Every request has ended: the system rests until the next ones arrive.
AtRest ==
  /\ \A r \in Request : step[r] \in Ended
  /\ UNCHANGED vars

Next == (\E r \in Request : Handler(r) \/ Interruption(r) \/ DeadlockVictim(r)) \/ AtRest

Spec == Init /\ [][Next]_vars

\* The event loop runs every continuation whose statement has answered, and the
\* deadlock detector runs after deadlock_timeout.  No interruption has to occur.
Fairness == \A r \in Request : WF_vars(Handler(r)) /\ WF_vars(DeadlockVictim(r))

FairSpec == Spec /\ Fairness

-----------------------------------------------------------------------------
TypeOK == StoreTypeOK /\ SessionTypeOK /\ ReturnsTypeOK

\* An order may set a row to a value computed from an earlier read.  Returns add
\* and take with increments, and the parties of sales and purchases are charged
\* with them.
Overwrites(o, row) ==
  \/ o.kind \in {"SALE", "PURCHASE"} /\ \E i \in DOMAIN o.lines : o.lines[i].row = row
  \/ o.kind \in {"MOVEMENT", "COUNT", "ADJUSTMENT"} /\ row = o.row
  \/ o.kind = "TRANSFER" /\ row \in {Source(o), Target(o)}
  \/ o.kind \in Cash /\ row = o.cashbox
  \/ o.kind \in {"RECEIPT", "PAYMENT"} /\ row = o.party

Overwritten(row) ==
  \E r \in Request : step[r] # "idle" /\ Overwrites(order[r], row)

\* The balance of a row that no request so far sets to an absolute value is the
\* sum of its movements, however many increments and decrements meet on it.
ExactWithoutOverwriters ==
  \A row \in Row : ~Overwritten(row) => Qty(table[row]) = ledger[row]

\* Every balance is the sum of its movements.  createSale and createPurchase break
\* it: they overwrite what another request committed since they read.
BalanceIsSumOfMovements ==
  \A row \in Row : Qty(table[row]) = ledger[row] + owed[row]

\* Neither stock nor a cashbox goes below zero.  Holds, even after stale
\* overwrites, of the services that compare the value they write with zero, or
\* decrement under a condition; createSale compares before its transaction opens.
NeverNegative ==
  \A row \in StockRow \cup Cashbox : Qty(table[row]) >= 0

\* The quantity of a product that processReturn accepts back.
Returnable(doc, p) == IF HasSourceItem(doc, p) THEN SourceQty(doc, p) ELSE 0

\* The returns of an invoice stay within its quantities, unless one of them
\* committed after another had changed the returned quantities its check read.
ReturnsWithinInvoiceUnlessRaced ==
  \A doc \in Invoice \ raced, p \in Product : returned[doc][p] <= Returnable(doc, p)

ReturnsWithinInvoice ==
  \A doc \in Invoice, p \in Product : returned[doc][p] <= Returnable(doc, p)

\* A committed balance change without its movement belongs to a request of
\* recordStockMovement that is between the two inserts or was stopped there.
OrphanOnlyFromInterruption ==
  \A row \in Row : owed[row] # 0 =>
    \E r \in Request : /\ step[r] \in {"log", "interrupted"}
                       /\ order[r].kind \in {"MOVEMENT", "COUNT"}
                       /\ order[r].row = row

\* When nothing is running, no committed balance change lacks its movement.
NoChangeWithoutMovement ==
  (\A r \in Request : step[r] \in Ended) => \A row \in StockRow : owed[row] = 0

\* What an order that is carried out adds to the ledger of a row.
SumOfLines(o, row) ==
  SumFunctionOnSet([i \in DOMAIN o.lines |-> o.lines[i].quantity],
                   {i \in DOMAIN o.lines : o.lines[i].row = row})
At0(row, rowOfOrder, amount) == IF row = rowOfOrder THEN amount ELSE 0
Effect(o, row) ==
  CASE o.kind = "SALE" -> At0(row, o.party, DueAmount(o)) - SumOfLines(o, row)
    [] o.kind = "PURCHASE" -> At0(row, o.party, OwedAmount(o)) + SumOfLines(o, row)
    [] o.kind = "SALE_RETURN" -> SumOfLines(o, row)
    [] o.kind = "PURCHASE_RETURN" -> -SumOfLines(o, row)
    [] o.kind = "MOVEMENT" -> At0(row, o.row, o.quantity)
    [] o.kind = "TRANSFER" -> At0(row, Target(o), o.quantity) - At0(row, Source(o), o.quantity)
    [] o.kind \in Cash -> At0(row, o.cashbox, CashChange(o))
                          - (IF o.kind = "EXPENSE" THEN 0 ELSE At0(row, o.party, o.amount))
    [] OTHER -> 0

\* The rows of which an order says what they must hold, not what moves.
CountedRows(o) == IF o.kind \in {"COUNT", "ADJUSTMENT"} THEN {o.row} ELSE {}

Book == INSTANCE AtomicLedger WITH
  Request  <- Request,
  Order    <- Order,
  Row      <- Row,
  Start    <- [row \in Row |-> Qty(Opening[row])],
  Effect   <- Effect,
  Counted  <- CountedRows,
  book     <- ledger,
  recorded <- {<<r, order[r]>> : r \in {q \in Request : step[q] = "done"}}

\* The ledger takes in the movements of an order all at once, at the moment the
\* order is answered with success, and nothing of one that is rejected,
\* interrupted or chosen as the victim of a deadlock.
RecordsOrdersOnce == Book!Spec

\* A sale or a purchase that is sent again under the id it was first sent with,
\* because its answer was lost or late, is recorded once.
ResentIsRecordedOnce ==
  \A q, r \in Request : SameDocument(q, r) => ~(step[q] = "done" /\ step[r] = "done")

\* The goods in all warehouses are those of the start, with the goods returned by
\* customers and without those returned to suppliers, unless a stale overwrite was
\* committed: transfers neither create nor destroy goods, whichever of their two
\* rows a request has reached when it fails.
GoodsAccountedFor ==
  stale = {} => \A p \in Product :
    SumFunction([w \in Warehouse |-> Qty(table[<<w, p>>]) - Qty(Opening[<<w, p>>])])
      = SumFunction([doc \in SaleInvoice |-> returned[doc][p]])
        - SumFunction([doc \in PurchaseInvoice |-> returned[doc][p]])

\* Every request that arrives is answered, also when its transaction takes part
\* in a deadlock.
Answered == \A r \in Request : step[r] \in Running ~> step[r] \in Ended
=============================================================================
