------------------------------ MODULE Requests ------------------------------
(***************************************************************************)
(* What every handler of the API shares: the DTO it received, the point    *)
(* its asynchronous code has reached, and the ways it can end.  Each await *)
(* on the database is one step, so the steps of requests interleave.       *)
(*                                                                         *)
(* The rows that validation reads (warehouse, branch, user, customer,      *)
(* supplier, product) are never deleted by any service, so an order with a *)
(* dangling reference is refused before it changes anything; the orders    *)
(* here are the ones whose references are in order.  Only processVoucher   *)
(* looks its party up after a write: Null stands for one it does not find. *)
(***************************************************************************)
EXTENDS RowStore, Sequences

CONSTANTS
  Order,         \* the DTOs that requests may carry
  Document,      \* the ids a client may give a sale or a purchase
  SaleInvoice,   \* sales committed before the model starts
  PurchaseInvoice,
  InvoiceLines   \* their items, in order

Invoice == SaleInvoice \cup PurchaseInvoice
Item == [product : Product, quantity : Nat \ {0}]
Line == [row : StockRow, quantity : Nat \ {0}]

SaleOrder     == [kind : {"SALE"}, id : Document \cup {Null}, lines : Seq(Line),
                  party : Customer \cup {Null}, grandTotal : Int, paidAmount : Nat]
PurchaseOrder == [kind : {"PURCHASE"}, id : Document \cup {Null}, lines : Seq(Line),
                  party : Supplier \cup {Null}, grandTotal : Int, paidAmount : Nat]
SaleReturnOrder     == [kind : {"SALE_RETURN"}, lines : Seq(Line),
                        invoice : SaleInvoice]
PurchaseReturnOrder == [kind : {"PURCHASE_RETURN"}, lines : Seq(Line),
                        invoice : PurchaseInvoice]
MovementOrder == [kind : {"MOVEMENT"}, row : StockRow, quantity : Int]
CountOrder    == [kind : {"COUNT"}, row : StockRow, actual : Nat]
AdjustOrder   == [kind : {"ADJUSTMENT"}, row : StockRow, actual : Nat]
TransferOrder == [kind : {"TRANSFER"}, from : Warehouse, to : Warehouse,
                  product : Product, quantity : Nat \ {0}]
ReceiptOrder  == [kind : {"RECEIPT"}, cashbox : Cashbox, party : Customer \cup {Null},
                  amount : Nat \ {0}]
PaymentOrder  == [kind : {"PAYMENT"}, cashbox : Cashbox, party : Supplier \cup {Null},
                  amount : Nat \ {0}]
ExpenseOrder  == [kind : {"EXPENSE"}, cashbox : Cashbox, amount : Nat \ {0}]

\* The DTOs of sales, purchases and returns name one warehouse for all their lines.
OneWarehouse(o) == \A i, j \in DOMAIN o.lines : o.lines[i].row[1] = o.lines[j].row[1]

ASSUME RequestsAssumption ==
  /\ Order \subseteq SaleOrder \cup PurchaseOrder
                     \cup SaleReturnOrder \cup PurchaseReturnOrder
                     \cup MovementOrder \cup CountOrder \cup AdjustOrder
                     \cup TransferOrder \cup ReceiptOrder \cup PaymentOrder
                     \cup ExpenseOrder
  /\ Null \notin Order
  /\ InvoiceLines \in [Invoice -> Seq(Item)]
  /\ SaleInvoice \cap PurchaseInvoice = {}
  /\ \A o \in Order :
       o.kind \in {"SALE", "PURCHASE", "SALE_RETURN", "PURCHASE_RETURN"} => OneWarehouse(o)

VARIABLES
  order,  \* the DTO a request carries, Null before it arrives
  step,   \* how far its handler has come
  todo,   \* the lines its loop has still to visit
  seen,   \* the balance its last SELECT answered
  diff,   \* the quantity handed to recordStockMovement
  base    \* the quantities already returned, as processReturn read them

sessionVars == <<order, step, todo, seen, diff, base>>

Running == {"check", "count", "read", "write", "readSecond", "writeSecond",
            "log", "settle", "commit"}
Ended   == {"done", "rejected", "interrupted"}
Step    == {"idle"} \cup Running \cup Ended

NothingReturned == [p \in Product |-> 0]

SessionInit ==
  /\ order = [r \in Request |-> Null]
  /\ step  = [r \in Request |-> "idle"]
  /\ todo  = [r \in Request |-> <<>>]
  /\ seen  = [r \in Request |-> Null]
  /\ diff  = [r \in Request |-> 0]
  /\ base  = [r \in Request |-> NothingReturned]

-----------------------------------------------------------------------------
At(r, kind, s) == step[r] = s /\ order[r].kind = kind

\* Request r arrives with DTO o; its loop, if it has one, will visit `lines`.
Receive(r, o, s, lines) ==
  /\ step[r] = "idle"
  /\ order' = [order EXCEPT ![r] = o]
  /\ step'  = [step EXCEPT ![r] = s]
  /\ todo'  = [todo EXCEPT ![r] = lines]
  /\ UNCHANGED <<seen, diff, base>>
  /\ UNCHANGED storeVars

\* The handler of r goes on to step s with these lines left and this balance read.
Goto(r, s, lines, balance) ==
  /\ step' = [step EXCEPT ![r] = s]
  /\ todo' = [todo EXCEPT ![r] = lines]
  /\ seen' = [seen EXCEPT ![r] = balance]
  /\ UNCHANGED <<order, diff, base>>

End(r, outcome) ==
  /\ step' = [step EXCEPT ![r] = outcome]
  /\ todo' = [todo EXCEPT ![r] = <<>>]
  /\ seen' = [seen EXCEPT ![r] = Null]
  /\ diff' = [diff EXCEPT ![r] = 0]
  /\ base' = [base EXCEPT ![r] = NothingReturned]
  /\ UNCHANGED order

\* The handler throws: its transaction, if open, rolls back.
Reject(r) == RollbackRows(r) /\ End(r, "rejected")

\* The callback of $transaction returns.
Commit(r) == CommitRows(r) /\ End(r, "done")

\* A SELECT of `row`, after which r goes on to step s.
Read(r, row, s) == Goto(r, s, todo[r], Seen(r, row)) /\ UNCHANGED storeVars

\* The write of an absolute balance computed from `seen`, or the error of the
\* create that another request's create came before.
WriteFromSeen(r, row, amount, s, lines) ==
  \/ SetFromRead(r, row, seen[r], amount) /\ Goto(r, s, lines, Null)
  \/ UniqueViolation(r, row, seen[r]) /\ Reject(r)

\* q and r carry sales, or purchases, with the same id: a client that got no
\* answer has sent its document again.
SameDocument(q, r) ==
  /\ q # r
  /\ step[q] # "idle" /\ step[r] # "idle"
  /\ order[q].kind = order[r].kind /\ order[r].kind \in {"SALE", "PURCHASE"}
  /\ order[q].id = order[r].id /\ order[r].id # Null

\* Mutant: the id of the client is not stored.
InsertDocumentAnew(r) ==
  /\ Goto(r, "read", order[r].lines, Null)
  /\ UNCHANGED storeVars

\* $transaction opens and the Sale or Purchase is created with its items.  When
\* another request has inserted its id, the insert waits for that transaction,
\* and fails if it commits.
InsertDocument(r) ==
  /\ \A q \in Request : SameDocument(q, r) => step[q] \notin {"read", "write", "commit"}
  /\ IF \E q \in Request : SameDocument(q, r) /\ step[q] = "done"
     THEN Reject(r)
     ELSE /\ Goto(r, "read", order[r].lines, Null)
          /\ UNCHANGED storeVars

\* A statement timeout, the transaction's own timeout, a lost connection, an
\* invoice number that is taken, or a crash of the process: the open
\* transaction rolls back, and what was committed before it stays.
Interrupted(r) ==
  /\ step[r] \in Running
  /\ RollbackRows(r)
  /\ End(r, "interrupted")

SessionTypeOK ==
  /\ order \in [Request -> Order \cup {Null}]
  /\ step  \in [Request -> Step]
  /\ todo  \in [Request -> Seq(Line)]
  /\ seen  \in [Request -> Balance]
  /\ diff  \in [Request -> Int]
  /\ base  \in [Request -> [Product -> Nat]]
  /\ \A r \in Request : step[r] # "idle" => order[r] \in Order
=============================================================================
