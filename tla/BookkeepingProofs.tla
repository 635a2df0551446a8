------------------------- MODULE BookkeepingProofs -------------------------
(* Theorems of Bookkeeping for any number of requests, rows and orders.     *)
EXTENDS Bookkeeping, SumProofs, SequenceTheorems

-----------------------------------------------------------------------------
(* The statements of RowStore keep StoreInv, whoever sends them and in      *)
(* whichever order.                                                         *)

\* The rows start committed, unlocked and explained by their opening balance.
LEMMA StoreInitInv == StoreInit => StoreInv
  BY RowStoreAssumption
     DEF StoreInit, StoreInv, StoreTypeOK, FreeRows, HeldRows,
         DriftOnlyFromStaleOverwrite, Balance, Qty

\* A quantity is an integer, whether or not the row exists.
LEMMA QtyInt == \A balance \in Balance : Qty(balance) \in Int
  BY DEF Balance, Qty

\* Write keeps the types when it leaves an integer.
LEMMA WriteType ==
  ASSUME NEW r \in Request, NEW row \in Row, NEW balance \in Int, NEW amount \in Int,
         StoreTypeOK, Write(r, row, balance, amount), tainted' \in SUBSET Row
  PROVE  StoreTypeOK'
  BY DEF StoreTypeOK, Write, Balance

\* An increment adds the same amount to the row and to its movements.
LEMMA IncrementInv ==
  ASSUME NEW r \in Request, NEW row \in Row, NEW amount \in Int,
         StoreInv, Increment(r, row, amount)
  PROVE  StoreInv'
<1> DEFINE new == Qty(Seen(r, row)) + amount
<1> USE DEF StoreInv
<1>1. Seen(r, row) \in Balance
  BY DEF Seen, StoreTypeOK
<1>2. Qty(Seen(r, row)) \in Int /\ new \in Int
  BY <1>1, QtyInt
<1>3. StoreTypeOK'
  BY <1>2, WriteType DEF Increment, StoreTypeOK
<1>4. FreeRows'
  BY RowStoreAssumption DEF FreeRows, Increment, Write, StoreTypeOK
<1>5. HeldRows'
  <2> SUFFICES ASSUME NEW x \in Row, holder'[x] # Null, x \notin tainted'
               PROVE  Qty(draft'[x]) = Qty(table'[x]) + posted'[x]
    BY DEF HeldRows
  <2>1. CASE x # row
    BY <2>1 DEF HeldRows, Increment, Write, StoreTypeOK
  <2>2. CASE x = row
    <3>1. draft'[x] = new /\ posted'[x] = posted[x] + amount /\ table' = table
      BY <2>2 DEF Increment, Write, StoreTypeOK
    <3>2. Qty(draft'[x]) = new
      BY <3>1, <1>2, RowStoreAssumption DEF Qty
    <3>3. Qty(Seen(r, row)) = Qty(table[x]) + posted[x]
      <4>1. CASE holder[row] = Null
        <5>1. table[x] \in Balance /\ posted[x] = 0 /\ Seen(r, row) = table[x]
          BY <4>1, <2>2, RowStoreAssumption DEF FreeRows, Seen, StoreTypeOK
        <5> QED BY <5>1, QtyInt
      <4>2. CASE holder[row] = r
        BY <4>2, <2>2, RowStoreAssumption DEF HeldRows, Seen, Increment
      <4> QED BY <4>1, <4>2 DEF Increment, Write, Available
    <3>4. Qty(table[x]) \in Int /\ posted[x] \in Int
      BY QtyInt DEF StoreTypeOK
    <3> QED BY <3>1, <3>2, <3>3, <3>4, <1>2
  <2> QED BY <2>1, <2>2
<1>6. DriftOnlyFromStaleOverwrite'
  BY DEF DriftOnlyFromStaleOverwrite, Increment, Write
<1> QED BY <1>3, <1>4, <1>5, <1>6

\* Setting a row to what was read plus an amount does the same when the value
\* read is still the current one, and taints the row when it is not.
LEMMA SetFromReadInv ==
  ASSUME NEW r \in Request, NEW row \in Row, NEW old \in Balance, NEW amount \in Int,
         StoreInv, SetFromRead(r, row, old, amount)
  PROVE  StoreInv'
<1> USE DEF StoreInv
<1>1. CASE Seen(r, row) = old
  <2>1. Increment(r, row, amount)
    BY <1>1 DEF SetFromRead, Increment
  <2> QED BY <2>1, IncrementInv
<1>2. CASE Seen(r, row) # old
  <2> DEFINE new == Qty(old) + amount
  <2>1. new \in Int /\ tainted' = tainted \cup {row} /\ Write(r, row, new, amount)
    BY <1>2, QtyInt DEF SetFromRead
  <2> HIDE DEF new
  <2>2. StoreTypeOK'
    BY <2>1, WriteType DEF StoreTypeOK
  <2>3. FreeRows'
    BY <2>1, RowStoreAssumption DEF FreeRows, Write, StoreTypeOK
  <2>4. HeldRows'
    BY <2>1 DEF HeldRows, Write, StoreTypeOK
  <2>5. DriftOnlyFromStaleOverwrite'
    BY <2>1 DEF DriftOnlyFromStaleOverwrite, Write
  <2> QED BY <2>2, <2>3, <2>4, <2>5
<1> QED BY <1>1, <1>2

\* Commit publishes the value and its movements together.
LEMMA CommitInv ==
  ASSUME NEW r \in Request, StoreInv, CommitRows(r)
  PROVE  StoreInv'
<1> USE DEF StoreInv, Held
<1>1. StoreTypeOK'
  BY DEF StoreTypeOK, CommitRows, Unlock
<1>2. FreeRows'
  BY DEF FreeRows, StoreTypeOK, CommitRows, Unlock
<1>3. HeldRows'
  BY DEF HeldRows, StoreTypeOK, CommitRows, Unlock
<1>4. DriftOnlyFromStaleOverwrite'
  <2> SUFFICES ASSUME NEW x \in Row, x \notin stale'
               PROVE  Qty(table'[x]) = ledger'[x] + owed'[x]
    BY DEF DriftOnlyFromStaleOverwrite
  <2>1. Qty(table[x]) = ledger[x] + owed[x]
    BY DEF DriftOnlyFromStaleOverwrite, CommitRows
  <2>2. CASE holder[x] # r
    BY <2>1, <2>2 DEF CommitRows, Unlock
  <2>3. CASE holder[x] = r
    <3>1. table'[x] = draft[x] /\ ledger'[x] = ledger[x] + posted[x] /\ owed' = owed
      BY <2>3 DEF CommitRows, Unlock
    <3>2. Qty(draft[x]) = Qty(table[x]) + posted[x]
      BY <2>3, RowStoreAssumption DEF HeldRows, CommitRows
    <3>3. ledger[x] \in Int /\ owed[x] \in Int /\ posted[x] \in Int
      BY DEF StoreTypeOK
    <3> QED BY <2>1, <3>1, <3>2, <3>3
  <2> QED BY <2>2, <2>3
<1> QED BY <1>1, <1>2, <1>3, <1>4

\* Rollback forgets both.
LEMMA RollbackInv ==
  ASSUME NEW r \in Request, StoreInv, RollbackRows(r)
  PROVE  StoreInv'
<1> USE DEF StoreInv, Held
<1>1. StoreTypeOK'
  BY DEF StoreTypeOK, RollbackRows, Unlock
<1>2. FreeRows'
  BY DEF FreeRows, StoreTypeOK, RollbackRows, Unlock
<1>3. HeldRows'
  BY DEF HeldRows, StoreTypeOK, RollbackRows, Unlock
<1>4. DriftOnlyFromStaleOverwrite'
  BY DEF DriftOnlyFromStaleOverwrite, RollbackRows, Unlock
<1> QED BY <1>1, <1>2, <1>3, <1>4

\* A statement that commits by itself owes the movement it does not insert.
LEMMA AutocommitInv ==
  ASSUME NEW r \in Request, NEW row \in Row, NEW old \in Balance, NEW amount \in Int,
         StoreInv, Autocommit(r, row, old, amount)
  PROVE  StoreInv'
<1> DEFINE new == Qty(old) + amount
<1> USE DEF StoreInv
<1>1. Qty(old) \in Int /\ new \in Int
  BY QtyInt
<1>2. StoreTypeOK'
  BY <1>1 DEF StoreTypeOK, Autocommit, Balance
<1>3. FreeRows'
  BY DEF FreeRows, StoreTypeOK, Autocommit
<1>4. HeldRows'
  BY DEF HeldRows, StoreTypeOK, Autocommit
<1>5. DriftOnlyFromStaleOverwrite'
  <2> SUFFICES ASSUME NEW x \in Row, x \notin stale'
               PROVE  Qty(table'[x]) = ledger'[x] + owed'[x]
    BY DEF DriftOnlyFromStaleOverwrite
  <2>1. Qty(table[x]) = ledger[x] + owed[x]
    BY DEF DriftOnlyFromStaleOverwrite, Autocommit
  <2>2. CASE x # row
    BY <2>1, <2>2 DEF Autocommit, StoreTypeOK
  <2>3. CASE x = row
    <3>1. table[x] = old
      BY <2>3 DEF Autocommit
    <3>2. table'[x] = new /\ owed'[x] = owed[x] + amount /\ ledger' = ledger
      BY <2>3 DEF Autocommit, StoreTypeOK
    <3>3. Qty(table'[x]) = new
      BY <3>2, <1>1, RowStoreAssumption DEF Qty
    <3>4. ledger[x] \in Int /\ owed[x] \in Int
      BY DEF StoreTypeOK
    <3> QED BY <1>1, <2>1, <3>1, <3>2, <3>3, <3>4
  <2> QED BY <2>2, <2>3
<1> QED BY <1>2, <1>3, <1>4, <1>5

\* The movement inserted later settles what was owed.
LEMMA InsertMovementInv ==
  ASSUME NEW row \in Row, NEW amount \in Int, StoreInv, InsertMovement(row, amount)
  PROVE  StoreInv'
<1> USE DEF StoreInv
<1>1. StoreTypeOK'
  BY DEF StoreTypeOK, InsertMovement
<1>2. FreeRows' /\ HeldRows'
  BY DEF FreeRows, HeldRows, InsertMovement
<1>3. DriftOnlyFromStaleOverwrite'
  BY DEF DriftOnlyFromStaleOverwrite, StoreTypeOK, InsertMovement
<1> QED BY <1>1, <1>2, <1>3

\* StoreInv is inductive for the statements of any number of requests.
THEOREM StoreStepInv == StoreInv /\ [StoreNext]_storeVars => StoreInv'
<1> SUFFICES ASSUME StoreInv, [StoreNext]_storeVars
             PROVE  StoreInv'
  OBVIOUS
<1>1. CASE UNCHANGED storeVars
  BY <1>1 DEF storeVars, StoreInv, StoreTypeOK, FreeRows, HeldRows,
              DriftOnlyFromStaleOverwrite
<1>2. CASE StoreNext
  BY <1>2, IncrementInv, SetFromReadInv, CommitInv, RollbackInv, AutocommitInv,
     InsertMovementInv DEF StoreNext, Statement
<1> QED BY <1>1, <1>2

-----------------------------------------------------------------------------
Inv == StoreInv /\ SessionTypeOK /\ ReturnsTypeOK

-----------------------------------------------------------------------------
(* What the orders carry, by kind. *)

\* A sale carries lines, and charges a whole amount to a customer or to nobody.
LEMMA SaleFields ==
  ASSUME NEW o \in Order, o.kind = "SALE"
  PROVE  /\ o.lines \in Seq(Line) /\ o.party \in Customer \cup {Null}
         /\ DueAmount(o) \in Nat
<1>1. o \in SaleOrder
  BY RequestsAssumption DEF SaleOrder, PurchaseOrder, SaleReturnOrder,
     PurchaseReturnOrder, MovementOrder, CountOrder, AdjustOrder, TransferOrder,
     ReceiptOrder, PaymentOrder, ExpenseOrder
<1> QED BY <1>1 DEF SaleOrder, DueAmount

\* A purchase carries lines, and credits a whole amount to a supplier or to nobody.
LEMMA PurchaseFields ==
  ASSUME NEW o \in Order, o.kind = "PURCHASE"
  PROVE  /\ o.lines \in Seq(Line) /\ o.party \in Supplier \cup {Null}
         /\ OwedAmount(o) \in Nat
<1>1. o \in PurchaseOrder
  BY RequestsAssumption DEF SaleOrder, PurchaseOrder, SaleReturnOrder,
     PurchaseReturnOrder, MovementOrder, CountOrder, AdjustOrder, TransferOrder,
     ReceiptOrder, PaymentOrder, ExpenseOrder
<1> QED BY <1>1 DEF PurchaseOrder, OwedAmount

\* A return carries lines and the invoice it returns.
LEMMA ReturnFields ==
  ASSUME NEW o \in Order, o.kind \in ReturnKind
  PROVE  o.lines \in Seq(Line) /\ o.invoice \in Invoice
<1>1. o \in SaleReturnOrder \cup PurchaseReturnOrder
  BY RequestsAssumption DEF SaleOrder, PurchaseOrder, SaleReturnOrder,
     PurchaseReturnOrder, MovementOrder, CountOrder, AdjustOrder, TransferOrder,
     ReceiptOrder, PaymentOrder, ExpenseOrder, ReturnKind
<1> QED BY <1>1 DEF SaleReturnOrder, PurchaseReturnOrder, Invoice

\* The lines of a document, as numbers that can be added up.
LEMMA LineQuantities ==
  ASSUME NEW o, o.lines \in Seq(Line)
  PROVE  /\ IsFiniteSet(DOMAIN o.lines)
         /\ \A i \in DOMAIN o.lines : /\ o.lines[i] \in Line
                                      /\ o.lines[i].row \in StockRow
                                      /\ o.lines[i].quantity \in Nat
<1>1. Len(o.lines) \in Nat /\ DOMAIN o.lines = 1..Len(o.lines)
  BY LenProperties
<1>2. \A i \in DOMAIN o.lines : o.lines[i] \in Line
  BY <1>1, ElementOfSeq
<1>3. \A i \in DOMAIN o.lines : /\ o.lines[i].row \in StockRow
                              /\ o.lines[i].quantity \in Nat
  <2>1. \A l \in Line : l.row \in StockRow /\ l.quantity \in Nat
    BY DEF Line
  <2> QED BY <1>2, <2>1
<1>4. IsFiniteSet(1..Len(o.lines))
  <2>1. 1 \in Int /\ Len(o.lines) \in Int
    BY <1>1
  <2> QED BY <2>1, FS_Interval
<1> QED BY <1>1, <1>2, <1>3, <1>4

\* A sum of quantities is a quantity.
LEMMA RequestedQtyNat ==
  ASSUME NEW o \in Order, o.kind \in ReturnKind, NEW p \in Product
  PROVE  RequestedQty(o, p) \in Nat
<1> DEFINE f == [i \in DOMAIN o.lines |-> o.lines[i].quantity]
           S == {i \in DOMAIN o.lines : LineProduct(o.lines[i]) = p}
<1>1. o.lines \in Seq(Line)
  BY ReturnFields
<1>2. IsFiniteSet(S) /\ \A i \in S : f[i] \in Nat
  BY <1>1, LineQuantities, FS_Subset
<1> HIDE DEF f, S
<1>3. SumFunctionOnSet(f, S) \in Nat
  BY <1>2, SumNat
<1> QED BY <1>3 DEF RequestedQty, f, S

\* An order of recordStockMovement, adjustStock or processStockAdjustment
\* names one balance row.
LEMMA StockFields ==
  ASSUME NEW o \in Order, o.kind \in {"MOVEMENT", "COUNT", "ADJUSTMENT"}
  PROVE  /\ o.row \in StockRow
         /\ o.kind = "MOVEMENT" => o.quantity \in Int
         /\ o.kind \in {"COUNT", "ADJUSTMENT"} => o.actual \in Nat
<1>1. o \in MovementOrder \cup CountOrder \cup AdjustOrder
  BY RequestsAssumption DEF SaleOrder, PurchaseOrder, SaleReturnOrder,
     PurchaseReturnOrder, MovementOrder, CountOrder, AdjustOrder, TransferOrder,
     ReceiptOrder, PaymentOrder, ExpenseOrder
<1> QED BY <1>1 DEF MovementOrder, CountOrder, AdjustOrder

\* A transfer names two balance rows and a positive quantity.
LEMMA TransferFields ==
  ASSUME NEW o \in Order, o.kind = "TRANSFER"
  PROVE  Source(o) \in StockRow /\ Target(o) \in StockRow /\ o.quantity \in Nat \ {0}
<1>1. o \in TransferOrder
  BY RequestsAssumption DEF SaleOrder, PurchaseOrder, SaleReturnOrder,
     PurchaseReturnOrder, MovementOrder, CountOrder, AdjustOrder, TransferOrder,
     ReceiptOrder, PaymentOrder, ExpenseOrder
<1> QED BY <1>1 DEF TransferOrder, Source, Target, StockRow

\* A voucher or an expense names a cashbox and a positive amount.
LEMMA CashFields ==
  ASSUME NEW o \in Order, o.kind \in Cash
  PROVE  /\ o.cashbox \in Cashbox /\ o.amount \in Nat \ {0}
         /\ o.kind = "RECEIPT" => o.party \in Customer \cup {Null}
         /\ o.kind = "PAYMENT" => o.party \in Supplier \cup {Null}
<1>1. o \in ReceiptOrder \cup PaymentOrder \cup ExpenseOrder
  BY RequestsAssumption DEF SaleOrder, PurchaseOrder, SaleReturnOrder,
     PurchaseReturnOrder, MovementOrder, CountOrder, AdjustOrder, TransferOrder,
     ReceiptOrder, PaymentOrder, ExpenseOrder, Cash
<1> QED BY <1>1 DEF ReceiptOrder, PaymentOrder, ExpenseOrder

-----------------------------------------------------------------------------
(* What the steps shared by the handlers do to the store and the session. *)

\* The next line of a loop is a line, and so are those after it.
LEMMA HeadTail ==
  ASSUME NEW s \in Seq(Line), s # <<>>
  PROVE  /\ Head(s).row \in StockRow /\ Head(s).quantity \in Nat \ {0}
         /\ Tail(s) \in Seq(Line)
<1>1. Head(s) \in Line /\ Tail(s) \in Seq(Line)
  BY HeadTailProperties
<1> QED BY <1>1 DEF Line

\* A SELECT answers a balance, or Null for a missing row.
LEMMA SeenType ==
  ASSUME StoreTypeOK, NEW r \in Request, NEW row \in Row
  PROVE  Seen(r, row) \in Balance
BY DEF StoreTypeOK, Seen

\* A request that arrives keeps the types and the rows.
LEMMA ReceiveType ==
  ASSUME SessionTypeOK, NEW r \in Request, NEW o \in Order, NEW s \in Step,
         NEW lines \in Seq(Line), Receive(r, o, s, lines)
  PROVE  SessionTypeOK' /\ UNCHANGED storeVars
BY DEF SessionTypeOK, Receive

\* A step of a handler to another point keeps the types.
LEMMA GotoType ==
  ASSUME SessionTypeOK, NEW r \in Request, order[r] \in Order, NEW s \in Running,
         NEW lines \in Seq(Line), NEW balance \in Balance, Goto(r, s, lines, balance)
  PROVE  SessionTypeOK'
BY DEF SessionTypeOK, Goto, Step

\* The end of a handler keeps the types.
LEMMA EndType ==
  ASSUME SessionTypeOK, NEW r \in Request, order[r] \in Order, NEW outcome \in Ended,
         End(r, outcome)
  PROVE  SessionTypeOK'
<1>1. NothingReturned \in [Product -> Nat] /\ Null \in Balance /\ <<>> \in Seq(Line)
  BY DEF NothingReturned, Balance
<1> QED BY <1>1 DEF SessionTypeOK, End, Step

\* A rejection is a ROLLBACK.
LEMMA RejectType ==
  ASSUME SessionTypeOK, NEW r \in Request, order[r] \in Order, Reject(r)
  PROVE  SessionTypeOK' /\ Statement(r)
BY EndType DEF Reject, Ended, Statement

\* The end of a transaction callback is a COMMIT.
LEMMA CommitType ==
  ASSUME SessionTypeOK, NEW r \in Request, order[r] \in Order, Commit(r)
  PROVE  SessionTypeOK' /\ Statement(r)
BY EndType DEF Commit, Ended, Statement

\* A SELECT keeps the types and the rows.
LEMMA ReadType ==
  ASSUME StoreTypeOK, SessionTypeOK, NEW r \in Request, order[r] \in Order,
         NEW row \in Row, NEW s \in Running, Read(r, row, s)
  PROVE  SessionTypeOK' /\ UNCHANGED storeVars
<1>1. todo[r] \in Seq(Line) /\ Seen(r, row) \in Balance
  BY SeenType DEF SessionTypeOK
<1> QED BY <1>1, GotoType DEF Read

\* The write of an absolute balance is a statement of RowStore.
LEMMA WriteFromSeenType ==
  ASSUME SessionTypeOK, NEW r \in Request, order[r] \in Order, NEW row \in Row,
         NEW amount \in Int, NEW s \in Running, NEW lines \in Seq(Line),
         WriteFromSeen(r, row, amount, s, lines)
  PROVE  SessionTypeOK' /\ Statement(r)
<1>1. CASE SetFromRead(r, row, seen[r], amount) /\ Goto(r, s, lines, Null)
  <2>1. seen[r] \in Balance /\ Null \in Balance
    BY DEF SessionTypeOK, Balance
  <2>2. SessionTypeOK'
    BY <1>1, <2>1, GotoType
  <2>3. Statement(r)
    BY <1>1, <2>1 DEF Statement
  <2> QED BY <2>2, <2>3
<1>2. CASE Reject(r)
  BY <1>2, RejectType
<1> QED BY <1>1, <1>2 DEF WriteFromSeen

\* So is an increment.
LEMMA IncrementType ==
  ASSUME SessionTypeOK, NEW r \in Request, order[r] \in Order, NEW row \in Row,
         NEW amount \in Int, NEW s \in Running, NEW lines \in Seq(Line),
         Increment(r, row, amount), Goto(r, s, lines, Null)
  PROVE  SessionTypeOK' /\ Statement(r)
<1>1. Null \in Balance
  BY DEF Balance
<1>2. SessionTypeOK'
  BY <1>1, GotoType
<1> QED BY <1>2 DEF Statement

\* Opening the transaction of a sale or a purchase changes no row.
LEMMA InsertDocumentType ==
  ASSUME SessionTypeOK, NEW r \in Request, order[r] \in Order,
         order[r].lines \in Seq(Line), InsertDocument(r)
  PROVE  SessionTypeOK' /\ [Statement(r)]_storeVars
<1>1. CASE Reject(r)
  BY <1>1, RejectType
<1>2. CASE Goto(r, "read", order[r].lines, Null) /\ UNCHANGED storeVars
  BY <1>2, GotoType DEF Running, Balance
<1> QED BY <1>1, <1>2 DEF InsertDocument

\* A request that has arrived carries an order.
LEMMA OrderOf ==
  ASSUME SessionTypeOK, NEW r \in Request, step[r] # "idle"
  PROVE  order[r] \in Order /\ todo[r] \in Seq(Line)
BY DEF SessionTypeOK

-----------------------------------------------------------------------------
(* One lemma per service: each of its steps keeps the types and reaches the *)
(* rows through the statements of RowStore only.                            *)

\* createSale.
LEMMA SaleStepType ==
  ASSUME Inv, NEW r \in Request, SaleStep(r)
  PROVE  SessionTypeOK' /\ [Statement(r)]_storeVars
<1> USE DEF Inv
<1>0. Null \in Balance /\ <<>> \in Seq(Line) /\ StockRow \subseteq Row
  BY DEF Balance, Row
<1>1. CASE ReceiveSale(r)
  BY <1>1, SaleFields, ReceiveType DEF ReceiveSale, Step, Running
<1>2. CASE CheckStock(r)
  <2>1. order[r] \in Order /\ todo[r] \in Seq(Line)
    BY <1>2, OrderOf DEF CheckStock, At
  <2>2. Tail(todo[r]) \in Seq(Line)
    BY <1>2, <2>1, HeadTail DEF CheckStock
  <2> QED BY <1>0, <1>2, <2>1, <2>2, RejectType, GotoType DEF CheckStock, Running
<1>3. CASE OpenSale(r)
  <2>1. order[r] \in Order /\ order[r].lines \in Seq(Line)
    BY <1>3, OrderOf, SaleFields DEF OpenSale, At
  <2> QED BY <1>3, <2>1, InsertDocumentType DEF OpenSale
<1>4. CASE ReadSaleLine(r)
  <2>1. order[r] \in Order /\ todo[r] \in Seq(Line)
    BY <1>4, OrderOf DEF ReadSaleLine, At
  <2>2. Head(todo[r]).row \in Row
    BY <1>0, <1>4, <2>1, HeadTail DEF ReadSaleLine
  <2> QED BY <1>4, <2>1, <2>2, ReadType DEF ReadSaleLine, Running, StoreInv
<1>5. CASE WriteSaleLine(r)
  <2>1. order[r] \in Order /\ todo[r] \in Seq(Line)
    BY <1>5, OrderOf DEF WriteSaleLine, At
  <2>2. /\ Head(todo[r]).row \in Row /\ -Head(todo[r]).quantity \in Int
        /\ Tail(todo[r]) \in Seq(Line)
    BY <1>0, <1>5, <2>1, HeadTail DEF WriteSaleLine
  <2> QED BY <1>5, <2>1, <2>2, WriteFromSeenType DEF WriteSaleLine, Running
<1>6. CASE ChargeCustomer(r)
  <2>1. order[r] \in Order
    BY <1>6, OrderOf DEF ChargeCustomer, At
  <2>2. ChargesCustomer(order[r]) => order[r].party \in Row
    BY <1>6, <2>1, SaleFields DEF ChargeCustomer, At, ChargesCustomer, Row
  <2>3. DueAmount(order[r]) \in Int
    BY <1>6, <2>1, SaleFields DEF ChargeCustomer, At
  <2> QED BY <1>0, <1>6, <2>1, <2>2, <2>3, IncrementType, GotoType
          DEF ChargeCustomer, Running
<1>7. CASE CommitSale(r)
  BY <1>7, OrderOf, CommitType DEF CommitSale, At
<1> QED BY <1>1, <1>2, <1>3, <1>4, <1>5, <1>6, <1>7 DEF SaleStep

\* createPurchase.
LEMMA PurchaseStepType ==
  ASSUME Inv, NEW r \in Request, PurchaseStep(r)
  PROVE  SessionTypeOK' /\ [Statement(r)]_storeVars
<1> USE DEF Inv
<1>0. Null \in Balance /\ <<>> \in Seq(Line) /\ StockRow \subseteq Row
  BY DEF Balance, Row
<1>1. CASE ReceivePurchase(r)
  BY <1>0, <1>1, PurchaseFields, ReceiveType DEF ReceivePurchase, Step, Running
<1>2. CASE ReadPurchaseLine(r)
  <2>1. order[r] \in Order /\ todo[r] \in Seq(Line)
    BY <1>2, OrderOf DEF ReadPurchaseLine, At
  <2>2. Head(todo[r]).row \in Row
    BY <1>0, <1>2, <2>1, HeadTail DEF ReadPurchaseLine
  <2> QED BY <1>2, <2>1, <2>2, ReadType DEF ReadPurchaseLine, Running, StoreInv
<1>3. CASE WritePurchaseLine(r)
  <2>1. order[r] \in Order /\ todo[r] \in Seq(Line)
    BY <1>3, OrderOf DEF WritePurchaseLine, At
  <2>2. /\ Head(todo[r]).row \in Row /\ Head(todo[r]).quantity \in Int
        /\ Tail(todo[r]) \in Seq(Line)
    BY <1>0, <1>3, <2>1, HeadTail DEF WritePurchaseLine
  <2> QED BY <1>3, <2>1, <2>2, WriteFromSeenType DEF WritePurchaseLine, Running
<1>4. CASE CreditSupplier(r)
  <2>1. order[r] \in Order
    BY <1>4, OrderOf DEF CreditSupplier, At
  <2>2. CreditsSupplier(order[r]) => order[r].party \in Row
    BY <1>4, <2>1, PurchaseFields DEF CreditSupplier, At, CreditsSupplier, Row
  <2>3. OwedAmount(order[r]) \in Int
    BY <1>4, <2>1, PurchaseFields DEF CreditSupplier, At
  <2> QED BY <1>0, <1>4, <2>1, <2>2, <2>3, IncrementType, GotoType
          DEF CreditSupplier, Running
<1>5. CASE CommitPurchase(r)
  BY <1>5, OrderOf, CommitType DEF CommitPurchase, At
<1>6. CASE OpenPurchase(r)
  <2>1. order[r] \in Order /\ order[r].lines \in Seq(Line)
    BY <1>6, OrderOf, PurchaseFields DEF OpenPurchase, At
  <2> QED BY <1>6, <2>1, InsertDocumentType DEF OpenPurchase
<1> QED BY <1>1, <1>2, <1>3, <1>4, <1>5, <1>6 DEF PurchaseStep

\* recordStockMovement and adjustStock.
LEMMA InventoryStepType ==
  ASSUME Inv, NEW r \in Request, InventoryStep(r)
  PROVE  SessionTypeOK' /\ [Statement(r)]_storeVars
<1> USE DEF Inv
<1>0. Null \in Balance /\ <<>> \in Seq(Line) /\ StockRow \subseteq Row
  BY DEF Balance, Row
<1>1. CASE ReceiveMovement(r)
  <2>1. PICK o \in Order : /\ o.quantity \in Int
                           /\ order' = [order EXCEPT ![r] = o]
                           /\ step'  = [step EXCEPT ![r] = "read"]
                           /\ diff'  = [diff EXCEPT ![r] = o.quantity]
                           /\ UNCHANGED <<todo, seen, base>>
    BY <1>1, StockFields DEF ReceiveMovement
  <2>2. SessionTypeOK'
    BY <2>1 DEF SessionTypeOK, Step, Running
  <2> QED BY <1>1, <2>2 DEF ReceiveMovement
<1>2. CASE ReceiveCount(r)
  BY <1>0, <1>2, ReceiveType DEF ReceiveCount, Step, Running
<1>3. CASE CompareCount(r)
  <2>1. order[r] \in Order /\ order[r].row \in Row /\ order[r].actual \in Int
    BY <1>0, <1>3, OrderOf, StockFields DEF CompareCount, At
  <2>2. order[r].actual - Qty(Seen(r, order[r].row)) \in Int
    BY <2>1, SeenType, QtyInt DEF StoreInv
  <2>3. CASE Reject(r)
    BY <2>1, <2>3, RejectType
  <2>4. CASE /\ diff' = [diff EXCEPT ![r] = order[r].actual - Qty(Seen(r, order[r].row))]
             /\ step' = [step EXCEPT ![r] = "read"]
             /\ UNCHANGED <<order, todo, seen, base>>
             /\ UNCHANGED storeVars
    BY <2>1, <2>2, <2>4 DEF SessionTypeOK, Step, Running
  <2> QED BY <1>3, <2>3, <2>4 DEF CompareCount
<1>4. ASSUME NEW s, InMovement(r, s), s # "idle"
      PROVE  order[r] \in Order /\ order[r].row \in Row
  BY <1>0, <1>4, OrderOf, StockFields DEF InMovement, At
<1>5. CASE ReadStock(r)
  BY <1>4, <1>5, ReadType DEF ReadStock, Running, StoreInv
<1>6. CASE WriteStock(r)
  <2>1. order[r] \in Order /\ order[r].row \in Row
    BY <1>4, <1>6 DEF WriteStock
  <2>2. CASE Reject(r)
    BY <2>1, <2>2, RejectType
  <2>3. CASE Autocommit(r, order[r].row, seen[r], diff[r]) /\ Goto(r, "log", <<>>, Null)
    <3>1. seen[r] \in Balance /\ diff[r] \in Int
      BY DEF SessionTypeOK
    <3>2. SessionTypeOK'
      BY <1>0, <2>1, <2>3, GotoType DEF Running
    <3>3. Statement(r)
      BY <2>1, <2>3, <3>1 DEF Statement
    <3> QED BY <3>2, <3>3
  <2> QED BY <1>6, <2>2, <2>3 DEF WriteStock
<1>7. CASE LogMovement(r)
  <2>1. order[r] \in Order /\ order[r].row \in Row /\ diff[r] \in Int
    BY <1>4, <1>7 DEF LogMovement, SessionTypeOK
  <2>2. SessionTypeOK'
    BY <1>7, <2>1, EndType DEF LogMovement, Ended
  <2>3. Statement(r)
    BY <1>7, <2>1 DEF LogMovement, Statement
  <2> QED BY <2>2, <2>3
<1> QED BY <1>1, <1>2, <1>3, <1>5, <1>6, <1>7 DEF InventoryStep

\* transferStock.
LEMMA TransferStepType ==
  ASSUME Inv, NEW r \in Request, TransferStep(r)
  PROVE  SessionTypeOK' /\ [Statement(r)]_storeVars
<1> USE DEF Inv
<1>0. Null \in Balance /\ <<>> \in Seq(Line) /\ StockRow \subseteq Row
  BY DEF Balance, Row
<1>1. CASE ReceiveTransfer(r)
  BY <1>0, <1>1, ReceiveType DEF ReceiveTransfer, Step, Running
<1>2. ASSUME NEW s, At(r, "TRANSFER", s), s # "idle"
      PROVE  /\ order[r] \in Order /\ Source(order[r]) \in Row /\ Target(order[r]) \in Row
             /\ order[r].quantity \in Int /\ -order[r].quantity \in Int
  BY <1>0, <1>2, OrderOf, TransferFields DEF At
<1>3. CASE ReadSource(r)
  BY <1>2, <1>3, ReadType, RejectType DEF ReadSource, Running, StoreInv
<1>4. CASE WriteSource(r)
  BY <1>0, <1>2, <1>4, WriteFromSeenType DEF WriteSource, Running
<1>5. CASE ReadTarget(r)
  BY <1>2, <1>5, ReadType DEF ReadTarget, Running, StoreInv
<1>6. CASE WriteTarget(r)
  BY <1>0, <1>2, <1>6, WriteFromSeenType DEF WriteTarget, Running
<1>7. CASE CommitTransfer(r)
  BY <1>2, <1>7, CommitType DEF CommitTransfer
<1> QED BY <1>1, <1>3, <1>4, <1>5, <1>6, <1>7 DEF TransferStep

\* processVoucher and processExpense.
LEMMA VoucherStepType ==
  ASSUME Inv, NEW r \in Request, VoucherStep(r)
  PROVE  SessionTypeOK' /\ [Statement(r)]_storeVars
<1> USE DEF Inv
<1>0. Null \in Balance /\ <<>> \in Seq(Line)
  BY DEF Balance
<1>1. CASE ReceiveCash(r)
  BY <1>0, <1>1, ReceiveType DEF ReceiveCash, Step, Running
<1>2. ASSUME NEW s, InCash(r, s), s # "idle"
      PROVE  /\ order[r] \in Order /\ order[r].cashbox \in Row
             /\ CashChange(order[r]) \in Int
  BY <1>2, OrderOf, CashFields DEF InCash, At, CashChange, Row
<1>3. ASSUME NEW s, At(r, "RECEIPT", s) \/ At(r, "PAYMENT", s), s # "idle"
      PROVE  /\ order[r] \in Order
             /\ order[r].party # Null => order[r].party \in Row
             /\ -order[r].amount \in Int
  BY <1>3, OrderOf, CashFields DEF At, Row, Cash
<1>4. CASE ReadCashbox(r)
  BY <1>2, <1>4, ReadType, RejectType DEF ReadCashbox, Running, StoreInv
<1>5. CASE WriteCashbox(r)
  BY <1>0, <1>2, <1>5, WriteFromSeenType DEF WriteCashbox, Running
<1>6. CASE ReadParty(r)
  BY <1>3, <1>6, ReadType, RejectType DEF ReadParty, Running, StoreInv
<1>7. CASE WriteParty(r)
  BY <1>0, <1>3, <1>7, WriteFromSeenType DEF WriteParty, Running
<1>8. CASE CommitCash(r)
  BY <1>2, <1>8, CommitType DEF CommitCash
<1> QED BY <1>1, <1>4, <1>5, <1>6, <1>7, <1>8 DEF VoucherStep

\* processReturn and processStockAdjustment.
LEMMA ReturnStepType ==
  ASSUME Inv, NEW r \in Request, ReturnStep(r)
  PROVE  SessionTypeOK' /\ ReturnsTypeOK' /\ [Statement(r)]_storeVars
<1> USE DEF Inv
<1>0. Null \in Balance /\ <<>> \in Seq(Line) /\ StockRow \subseteq Row
  BY DEF Balance, Row
<1>1. ASSUME NEW s, InReturn(r, s), s # "idle"
      PROVE  /\ order[r] \in Order /\ order[r].invoice \in Invoice
             /\ order[r].kind \in ReturnKind /\ todo[r] \in Seq(Line)
  BY <1>1, OrderOf, ReturnFields DEF InReturn, At
<1>2. ASSUME NEW s, At(r, "ADJUSTMENT", s), s # "idle"
      PROVE  /\ order[r] \in Order /\ order[r].row \in Row
             /\ order[r].actual - Qty(seen[r]) \in Int
  BY <1>0, <1>2, OrderOf, StockFields, QtyInt DEF At, SessionTypeOK
<1>3. ASSUME UNCHANGED returnVars
      PROVE  ReturnsTypeOK'
  BY <1>3 DEF ReturnsTypeOK, returnVars
<1>4. CASE ReceiveReturn(r)
  BY <1>3, <1>4, ReturnFields, ReceiveType DEF ReceiveReturn, Step, Running
<1>5. CASE CheckReturn(r)
  <2>1. /\ order[r] \in Order
        /\ returned[order[r].invoice] \in [Product -> Nat]
    BY <1>1, <1>5 DEF CheckReturn, ReturnsTypeOK
  <2>2. CASE Reject(r)
    BY <1>3, <1>5, <2>1, <2>2, RejectType DEF CheckReturn
  <2>3. CASE /\ base' = [base EXCEPT ![r] = returned[order[r].invoice]]
             /\ step' = [step EXCEPT ![r] = "write"]
             /\ UNCHANGED <<order, todo, seen, diff>>
             /\ UNCHANGED storeVars
    <3>1. SessionTypeOK'
      BY <2>1, <2>3 DEF SessionTypeOK, Step, Running
    <3> QED BY <1>3, <1>5, <2>3, <3>1 DEF CheckReturn
  <2> QED BY <1>5, <2>2, <2>3 DEF CheckReturn
<1>6. CASE TakeBackLine(r)
  <2>1. order[r] \in Order /\ todo[r] \in Seq(Line)
    BY <1>6, OrderOf DEF TakeBackLine, At
  <2>2. /\ Head(todo[r]).row \in Row /\ Head(todo[r]).quantity \in Int
        /\ Tail(todo[r]) \in Seq(Line)
    BY <1>0, <1>6, <2>1, HeadTail DEF TakeBackLine
  <2> QED BY <1>3, <1>6, <2>1, <2>2, IncrementType DEF TakeBackLine, Running
<1>7. CASE SendBackLine(r)
  <2>1. order[r] \in Order /\ todo[r] \in Seq(Line)
    BY <1>7, OrderOf DEF SendBackLine, At
  <2>2. /\ Head(todo[r]).row \in Row /\ -Head(todo[r]).quantity \in Int
        /\ Tail(todo[r]) \in Seq(Line)
    BY <1>0, <1>7, <2>1, HeadTail DEF SendBackLine
  <2>3. CASE Reject(r)
    BY <1>3, <1>7, <2>1, <2>3, RejectType DEF SendBackLine
  <2>4. CASE /\ Increment(r, Head(todo[r]).row, -Head(todo[r]).quantity)
             /\ Goto(r, "write", Tail(todo[r]), Null)
    BY <1>3, <1>7, <2>1, <2>2, <2>4, IncrementType DEF SendBackLine, Running
  <2> QED BY <1>7, <2>3, <2>4 DEF SendBackLine
<1>8. CASE CommitReturn(r)
  <2> DEFINE o == order[r]
  <2>1. o \in Order /\ o.invoice \in Invoice /\ o.kind \in ReturnKind
    BY <1>1, <1>8 DEF CommitReturn
  <2>2. \A p \in Product : RequestedQty(o, p) \in Nat
    BY <2>1, RequestedQtyNat
  <2>3. ReturnsTypeOK'
    BY <1>8, <2>1, <2>2 DEF CommitReturn, ReturnsTypeOK
  <2> QED BY <1>8, <2>1, <2>3, CommitType DEF CommitReturn
<1>9. CASE ReceiveAdjustment(r)
  BY <1>0, <1>3, <1>9, ReceiveType DEF ReceiveAdjustment, Step, Running
<1>10. CASE ReadAdjusted(r)
  BY <1>2, <1>3, <1>10, CommitType, ReadType DEF ReadAdjusted, Running, StoreInv
<1>11. CASE WriteAdjusted(r)
  BY <1>0, <1>2, <1>3, <1>11, WriteFromSeenType DEF WriteAdjusted, Running
<1>12. CASE CommitAdjustment(r)
  BY <1>2, <1>3, <1>12, CommitType DEF CommitAdjustment
<1> QED BY <1>4, <1>5, <1>6, <1>7, <1>8, <1>9, <1>10, <1>11, <1>12 DEF ReturnStep

-----------------------------------------------------------------------------
\* A step of a handler is at most one statement on the rows.
LEMMA HandlerStatement ==
  ASSUME Inv, NEW r \in Request, Handler(r)
  PROVE  SessionTypeOK' /\ ReturnsTypeOK' /\ [Statement(r)]_storeVars
<1>1. ASSUME UNCHANGED returnVars PROVE ReturnsTypeOK'
  BY <1>1 DEF Inv, ReturnsTypeOK, returnVars
<1> QED BY <1>1, SaleStepType, PurchaseStepType, InventoryStepType,
           TransferStepType, VoucherStepType, ReturnStepType DEF Handler

\* The end of a request by an interruption or a deadlock is a ROLLBACK, of a
\* request that has arrived.
LEMMA StopOf ==
  ASSUME NEW r \in Request, Interruption(r) \/ DeadlockVictim(r)
  PROVE  /\ step[r] \in Running
         /\ RollbackRows(r) /\ End(r, "interrupted") /\ UNCHANGED returnVars
<1>1. CASE Interruption(r)
  BY <1>1 DEF Interruption, Interrupted
<1>2. CASE DeadlockVictim(r)
  <2>1. PICK q \in Request : WaitsFor(r, q)
    BY <1>2 DEF DeadlockVictim, Deadlocked
  <2>2. PICK row \in Row : Wants(r, row)
    BY <2>1 DEF WaitsFor
  <2>3. step[r] \in Running
    BY <2>2 DEF Wants, At, InCash, Running
  <2> QED BY <1>2, <2>3 DEF DeadlockVictim
<1> QED BY <1>1, <1>2

\* A step of the system is at most one statement on the rows.
LEMMA StepType ==
  ASSUME Inv, Next
  PROVE  SessionTypeOK' /\ ReturnsTypeOK' /\ [StoreNext]_storeVars
<1> USE DEF Inv
<1>1. ASSUME UNCHANGED returnVars PROVE ReturnsTypeOK'
  BY <1>1 DEF ReturnsTypeOK, returnVars
<1>2. ASSUME NEW r \in Request, Handler(r)
      PROVE  SessionTypeOK' /\ ReturnsTypeOK' /\ [StoreNext]_storeVars
  BY <1>2, HandlerStatement DEF StoreNext
<1>3. ASSUME NEW r \in Request, Interruption(r) \/ DeadlockVictim(r)
      PROVE  SessionTypeOK' /\ ReturnsTypeOK' /\ [StoreNext]_storeVars
  <2>1. step[r] # "idle"
    BY <1>3, StopOf DEF Running
  <2> QED BY <1>1, <1>3, <2>1, StopOf, OrderOf, EndType DEF Ended, StoreNext, Statement
<1>4. ASSUME AtRest
      PROVE  SessionTypeOK' /\ ReturnsTypeOK' /\ [StoreNext]_storeVars
  BY <1>1, <1>4 DEF AtRest, vars, sessionVars, SessionTypeOK
<1> QED BY <1>2, <1>3, <1>4 DEF Next

\* The initial state satisfies the invariant.
LEMMA InitInv == Init => Inv
<1>1. SessionInit => SessionTypeOK
  BY DEF SessionInit, SessionTypeOK, Step, Balance, NothingReturned
<1>2. ReturnsInit => ReturnsTypeOK
  BY DEF ReturnsInit, ReturnsTypeOK, NothingReturned
<1> QED BY <1>1, <1>2, StoreInitInv DEF Init, Inv

\* Inv holds in every state: types, the bookkeeping of locked and free rows,
\* and the agreement of balances with their movements.
THEOREM Invariance == Spec => []Inv
<1>1. Inv /\ [Next]_vars => Inv'
  <2> SUFFICES ASSUME Inv, [Next]_vars PROVE Inv'
    OBVIOUS
  <2>1. CASE Next
    BY <2>1, StepType, StoreStepInv DEF Inv
  <2>2. CASE UNCHANGED vars
    <3>1. SessionTypeOK' /\ ReturnsTypeOK' /\ UNCHANGED storeVars
      BY <2>2 DEF Inv, vars, sessionVars, returnVars, SessionTypeOK, ReturnsTypeOK
    <3> QED BY <3>1, StoreStepInv DEF Inv
  <2> QED BY <2>1, <2>2
<1> QED BY <1>1, InitInv, PTL DEF Spec

\* The types are kept whatever the orders and however their requests interleave.
THEOREM TypeCorrectness == Spec => []TypeOK
<1>1. Inv => TypeOK
  BY DEF Inv, StoreInv, TypeOK
<1> QED BY <1>1, Invariance, PTL

\* Balances drift from their movements through stale absolute writes only.
THEOREM DriftCause == Spec => []DriftOnlyFromStaleOverwrite
<1>1. Inv => DriftOnlyFromStaleOverwrite
  BY DEF Inv, StoreInv
<1> QED BY <1>1, Invariance, PTL
=============================================================================
