---------------------------- MODULE ReportsProofs ----------------------------
(* What the unpaid part of the sales report has to do with the balances of   *)
(* customers.                                                                *)
EXTENDS Reports, BookProofs

-----------------------------------------------------------------------------
(* The orders that are carried out. *)

\* A request is committed once, with its order; no other step touches the ledger.
CommitStep ==
  \/ /\ Committed' = Committed /\ UNCHANGED ledger
     /\ \A x \in Committed : order'[x] = order[x]
  \/ \E r \in Request \ Committed :
       /\ Committed' = Committed \cup {r} /\ RecordStep(r)
       /\ order[r].kind \in {"RECEIPT", "PAYMENT"} => order[r].party # Null
       /\ \A x \in Committed \cup {r} : order'[x] = order[x]

LEMMA CommitSteps ==
  ASSUME Inv, LocksInv, BookInv, [Next]_vars
  PROVE  CommitStep
<1>1. CASE UNCHANGED vars
  BY <1>1 DEF CommitStep, Committed, vars, storeVars, sessionVars
<1>2. CASE Next /\ ~UNCHANGED vars
  <2>1. PICK r \in Request : BookStep(r) /\ \A x \in Request \ {r} : SameSession(x)
    BY <1>2, BookNext
  <2>2. \A x \in Request \ {r} : order'[x] = order[x] /\ (x \in Committed' <=> x \in Committed)
    BY <2>1 DEF SameSession, Committed
  <2>3. r \notin Committed
    BY <2>1 DEF BookStep, Committed
  <2>4. CASE step'[r] # "done" /\ UNCHANGED ledger
    <3>1. Committed' = Committed
      BY <2>2, <2>3, <2>4 DEF Committed
    <3> QED BY <2>2, <2>3, <2>4, <3>1 DEF CommitStep, Committed
  <2>5. CASE RecordStep(r)
    <3>1. Committed' = Committed \cup {r}
      BY <2>2, <2>5 DEF Committed, RecordStep
    <3>2. order[r].kind \in {"RECEIPT", "PAYMENT"} => order[r].party # Null
      BY <2>1, <2>5 DEF BookStep, Booked, RecordStep
    <3> QED BY <2>2, <2>3, <2>5, <3>1, <3>2 DEF CommitStep, RecordStep, Committed
  <2> QED BY <2>1, <2>4, <2>5 DEF BookStep
<1> QED BY <1>1, <1>2

\* There are finitely many, each with an order.
LEMMA CommittedOrders ==
  ASSUME Inv, OwedInv
  PROVE  IsFiniteSet(Committed) /\ \A r \in Committed : order[r] \in Order
<1>1. Committed \subseteq {r \in Request : step[r] # "idle"}
  BY DEF Committed
<1> QED BY <1>1, FS_Subset DEF OwedInv, Inv, SessionTypeOK, Committed

\* What the report adds up is a number.
LEMMA AmountInt ==
  ASSUME NEW o \in Order
  PROVE  /\ o.kind = "RECEIPT" => o.amount \in Nat
         /\ o.kind = "SALE" => DueAmount(o) \in Nat
<1>1. o \in SaleOrder \cup ReceiptOrder \/ o.kind \notin {"SALE", "RECEIPT"}
  BY RequestsAssumption DEF SaleOrder, PurchaseOrder, SaleReturnOrder,
     PurchaseReturnOrder, MovementOrder, CountOrder, AdjustOrder, TransferOrder,
     ReceiptOrder, PaymentOrder, ExpenseOrder
<1> QED BY <1>1 DEF SaleOrder, ReceiptOrder, DueAmount

-----------------------------------------------------------------------------
(* The unpaid part of sales, and what customers owe. *)

\* What an order that is carried out charges, and to whom.
Charge(o) == CASE o.kind = "SALE" -> DueAmount(o) [] o.kind = "RECEIPT" -> -o.amount [] OTHER -> 0

Charged(o) == IF o.kind \in {"SALE", "RECEIPT"} THEN o.party ELSE Null

\* Only sales and receipts reach the balance of a customer.
LEMMA EffectOnCustomer ==
  ASSUME NEW o \in Order, NEW c \in Customer
  PROVE  /\ c \in Row \ CountedRows(o) /\ Charge(o) \in Int
         /\ Effect(o, c) = At0(c, Charged(o), Charge(o))
<1>1. /\ c \in Row /\ c \notin StockRow /\ c \notin Cashbox /\ c \notin Supplier /\ c # Null
  BY RowStoreAssumption DEF Row
<1>2. ASSUME o.lines \in Seq(Line) PROVE SumOfLines(o, c) = 0
  <2>1. {i \in DOMAIN o.lines : o.lines[i].row = c} = {}
    BY <1>1, <1>2, LineQuantities
  <2> QED BY <2>1, SumEmpty DEF SumOfLines
<1>3. CASE o.kind = "SALE"
  BY <1>1, <1>2, <1>3, SaleFields DEF Effect, At0, Charge, Charged, CountedRows, Cash
<1>4. CASE o.kind = "PURCHASE"
  BY <1>1, <1>2, <1>4, PurchaseFields DEF Effect, At0, Charge, Charged, CountedRows, Cash
<1>5. CASE o.kind \in ReturnKind
  BY <1>1, <1>2, <1>5, ReturnFields
     DEF Effect, At0, Charge, Charged, CountedRows, Cash, ReturnKind
<1>6. CASE o.kind \in {"MOVEMENT", "COUNT", "ADJUSTMENT"}
  BY <1>1, <1>6, StockFields DEF Effect, At0, Charge, Charged, CountedRows, Cash
<1>7. CASE o.kind = "TRANSFER"
  BY <1>1, <1>7, TransferFields DEF Effect, At0, Charge, Charged, CountedRows, Cash
<1>8. CASE o.kind = "RECEIPT"
  BY <1>1, <1>8, CashFields DEF Effect, At0, Charge, Charged, CountedRows, Cash
<1>9. CASE o.kind \in {"PAYMENT", "EXPENSE"}
  BY <1>1, <1>9, CashFields DEF Effect, At0, Charge, Charged, CountedRows, Cash
<1>10. o.kind \in {"SALE", "PURCHASE", "MOVEMENT", "COUNT", "ADJUSTMENT", "TRANSFER", "RECEIPT",
                   "PAYMENT", "EXPENSE"} \cup ReturnKind
  BY RequestsAssumption DEF SaleOrder, PurchaseOrder, SaleReturnOrder,
     PurchaseReturnOrder, MovementOrder, CountOrder, AdjustOrder, TransferOrder,
     ReceiptOrder, PaymentOrder, ExpenseOrder, ReturnKind
<1> QED BY <1>3, <1>4, <1>5, <1>6, <1>7, <1>8, <1>9, <1>10

Sales    == OfKind("SALE", Committed)
Unnamed  == {r \in Sales : order[r].party = Null}
Receipts == OfKind("RECEIPT", Committed)

dues  == [r \in Request |-> DueAmount(order[r])]
paid  == [r \in Request |-> order[r].amount]
moved == [c \in Customer |-> ledger[c] - Opening[c]]

DueInv ==
  SumFunctionOnSet(dues, Sales) =
    SumFunctionOnSet(moved, Customer) + SumFunctionOnSet(paid, Receipts)
    + SumFunctionOnSet(dues, Unnamed)

\* What is added up is finite and made of numbers.
LEMMA DueTypes ==
  ASSUME Inv, OwedInv
  PROVE  /\ IsFiniteSet(Sales) /\ IsFiniteSet(Unnamed) /\ IsFiniteSet(Receipts)
         /\ \A r \in Sales : dues[r] \in Int /\ dues[r] = DueAmount(order[r])
         /\ \A r \in Receipts : paid[r] \in Int /\ paid[r] = order[r].amount
         /\ IsFiniteSet(Customer) /\ \A c \in Customer : moved[c] \in Int
<1>1. IsFiniteSet(Committed) /\ \A r \in Committed : order[r] \in Order
  BY CommittedOrders
<1>2. IsFiniteSet(Sales) /\ IsFiniteSet(Unnamed) /\ IsFiniteSet(Receipts)
  <2>1. /\ Sales \subseteq Committed /\ Unnamed \subseteq Committed
        /\ Receipts \subseteq Committed
    BY DEF Sales, Unnamed, Receipts, OfKind
  <2> QED BY <1>1, <2>1, FS_Subset
<1>3. \A c \in Customer : ledger[c] \in Int /\ Opening[c] \in Int
  <2>1. \A c \in Customer : c \in Row \ StockRow
    BY RowStoreAssumption DEF Row
  <2> QED BY <2>1, RowStoreAssumption DEF Inv, StoreInv, StoreTypeOK, Balance
<1>4. ASSUME NEW r \in Sales PROVE dues[r] \in Int /\ dues[r] = DueAmount(order[r])
  <2>1. r \in Request /\ order[r] \in Order /\ order[r].kind = "SALE"
    BY <1>1 DEF Sales, OfKind, Committed
  <2>2. DueAmount(order[r]) \in Nat
    BY <2>1, AmountInt
  <2> QED BY <2>1, <2>2 DEF dues
<1>5. ASSUME NEW r \in Receipts PROVE paid[r] \in Int /\ paid[r] = order[r].amount
  <2>1. r \in Request /\ order[r] \in Order /\ order[r].kind = "RECEIPT"
    BY <1>1 DEF Receipts, OfKind, Committed
  <2>2. order[r].amount \in Nat
    BY <2>1, AmountInt
  <2> QED BY <2>1, <2>2 DEF paid
<1> QED BY <1>2, <1>3, <1>4, <1>5, BookkeepingAssumption DEF moved

\* A commit moves both sides by the same amount.
LEMMA DueCommit ==
  ASSUME Inv, OwedInv, DueInv, NEW r \in Request \ Committed,
         Committed' = Committed \cup {r}, RecordStep(r),
         order[r].kind \in {"RECEIPT", "PAYMENT"} => order[r].party # Null,
         \A x \in Committed \cup {r} : order'[x] = order[x]
  PROVE  DueInv'
<1>1. PICK o \in Order : o = order[r] /\ o = order'[r]
  BY DEF RecordStep
<1> DEFINE due == IF o.kind = "SALE" THEN DueAmount(o) ELSE 0
           unnamed == IF o.kind = "SALE" /\ o.party = Null THEN DueAmount(o) ELSE 0
           paidNow == IF o.kind = "RECEIPT" THEN o.amount ELSE 0
           charged == IF Charged(o) = Null THEN 0 ELSE Charge(o)
<1>2. /\ \A x \in Committed : order'[x] = order[x]
      /\ r \notin Sales /\ r \notin Unnamed /\ r \notin Receipts
  BY DEF Sales, Unnamed, Receipts, OfKind
<1>3. /\ Sales' = IF o.kind = "SALE" THEN Sales \cup {r} ELSE Sales
      /\ Unnamed' = IF o.kind = "SALE" /\ o.party = Null THEN Unnamed \cup {r} ELSE Unnamed
      /\ Receipts' = IF o.kind = "RECEIPT" THEN Receipts \cup {r} ELSE Receipts
  BY <1>1, <1>2 DEF Sales, Unnamed, Receipts, OfKind
<1>4. /\ \A x \in Sales : dues'[x] = dues[x] /\ dues[x] \in Int
      /\ \A x \in Unnamed : dues'[x] = dues[x] /\ dues[x] \in Int
      /\ \A x \in Receipts : paid'[x] = paid[x] /\ paid[x] \in Int
      /\ dues'[r] = DueAmount(o) /\ paid'[r] = o.amount
      /\ IsFiniteSet(Sales) /\ IsFiniteSet(Unnamed) /\ IsFiniteSet(Receipts)
  <2>1. /\ \A x \in Sales : x \in Request /\ order'[x] = order[x]
        /\ \A x \in Receipts : x \in Request /\ order'[x] = order[x]
        /\ Unnamed \subseteq Sales
    BY <1>2 DEF Sales, Unnamed, Receipts, OfKind, Committed
  <2>2. /\ \A x \in Request : dues'[x] = DueAmount(order'[x]) /\ paid'[x] = order'[x].amount
        /\ \A x \in Request : dues[x] = DueAmount(order[x]) /\ paid[x] = order[x].amount
    BY DEF dues, paid, DueAmount
  <2> QED BY <1>1, <2>1, <2>2, DueTypes
<1>5. /\ SumFunctionOnSet(dues', Sales') = SumFunctionOnSet(dues, Sales) + due
      /\ SumFunctionOnSet(dues, Sales) \in Int
  <2>1. CASE o.kind = "SALE"
    <3>1. dues'[r] \in Int
      BY <1>1, <1>4, <2>1, AmountInt
    <3>2. SumFunctionOnSet(dues', Sales \cup {r}) = SumFunctionOnSet(dues, Sales) + dues'[r]
      <4>1. \A x \in Sales : dues'[x] = dues[x] /\ dues[x] \in Int
        BY <1>4
      <4>2. IsFiniteSet(Sales) /\ r \notin Sales
        BY <1>2, <1>4
      <4>3. SumFunctionOnSet(dues', Sales) = SumFunctionOnSet(dues, Sales)
        BY <4>1, <4>2, SumSame
      <4>4. \A y \in Sales \cup {r} : dues'[y] \in Int
        BY <3>1, <4>1
      <4>5. SumFunctionOnSet(dues', Sales \cup {r}) = dues'[r] + SumFunctionOnSet(dues', Sales)
        BY <4>2, <4>4, SumInsert
      <4>6. SumFunctionOnSet(dues, Sales) \in Int
        BY <4>1, <4>2, SumInt
      <4> QED BY <3>1, <4>3, <4>5, <4>6
    <3> QED BY <1>3, <1>4, <2>1, <3>2, SumInt
  <2>2. CASE o.kind # "SALE"
    <3>1. SumFunctionOnSet(dues', Sales) = SumFunctionOnSet(dues, Sales)
      BY <1>4, SumSame
    <3> QED BY <1>3, <1>4, <2>2, <3>1, SumInt
  <2> QED BY <2>1, <2>2
<1>6. /\ SumFunctionOnSet(dues', Unnamed') = SumFunctionOnSet(dues, Unnamed) + unnamed
      /\ SumFunctionOnSet(dues, Unnamed) \in Int
  <2>1. CASE o.kind = "SALE" /\ o.party = Null
    <3>1. dues'[r] \in Int
      BY <1>1, <1>4, <2>1, AmountInt
    <3>2. SumFunctionOnSet(dues', Unnamed \cup {r}) = SumFunctionOnSet(dues, Unnamed) + dues'[r]
      <4>1. \A x \in Unnamed : dues'[x] = dues[x] /\ dues[x] \in Int
        BY <1>4
      <4>2. IsFiniteSet(Unnamed) /\ r \notin Unnamed
        BY <1>2, <1>4
      <4>3. SumFunctionOnSet(dues', Unnamed) = SumFunctionOnSet(dues, Unnamed)
        BY <4>1, <4>2, SumSame
      <4>4. \A y \in Unnamed \cup {r} : dues'[y] \in Int
        BY <3>1, <4>1
      <4>5. SumFunctionOnSet(dues', Unnamed \cup {r}) = dues'[r] + SumFunctionOnSet(dues', Unnamed)
        BY <4>2, <4>4, SumInsert
      <4>6. SumFunctionOnSet(dues, Unnamed) \in Int
        BY <4>1, <4>2, SumInt
      <4> QED BY <3>1, <4>3, <4>5, <4>6
    <3> QED BY <1>3, <1>4, <2>1, <3>2, SumInt
  <2>2. CASE ~(o.kind = "SALE" /\ o.party = Null)
    <3>1. SumFunctionOnSet(dues', Unnamed) = SumFunctionOnSet(dues, Unnamed)
      BY <1>4, SumSame
    <3> QED BY <1>3, <1>4, <2>2, <3>1, SumInt
  <2> QED BY <2>1, <2>2
<1>7. /\ SumFunctionOnSet(paid', Receipts') = SumFunctionOnSet(paid, Receipts) + paidNow
      /\ SumFunctionOnSet(paid, Receipts) \in Int
  <2>1. CASE o.kind = "RECEIPT"
    <3>1. paid'[r] \in Int
      BY <1>1, <1>4, <2>1, AmountInt
    <3>2. SumFunctionOnSet(paid', Receipts \cup {r}) = SumFunctionOnSet(paid, Receipts) + paid'[r]
      <4>1. \A x \in Receipts : paid'[x] = paid[x] /\ paid[x] \in Int
        BY <1>4
      <4>2. IsFiniteSet(Receipts) /\ r \notin Receipts
        BY <1>2, <1>4
      <4>3. SumFunctionOnSet(paid', Receipts) = SumFunctionOnSet(paid, Receipts)
        BY <4>1, <4>2, SumSame
      <4>4. \A y \in Receipts \cup {r} : paid'[y] \in Int
        BY <3>1, <4>1
      <4>5. SumFunctionOnSet(paid', Receipts \cup {r}) = paid'[r] + SumFunctionOnSet(paid', Receipts)
        BY <4>2, <4>4, SumInsert
      <4>6. SumFunctionOnSet(paid, Receipts) \in Int
        BY <4>1, <4>2, SumInt
      <4> QED BY <3>1, <4>3, <4>5, <4>6
    <3> QED BY <1>3, <1>4, <2>1, <3>2, SumInt
  <2>2. CASE o.kind # "RECEIPT"
    <3>1. SumFunctionOnSet(paid', Receipts) = SumFunctionOnSet(paid, Receipts)
      BY <1>4, SumSame
    <3> QED BY <1>3, <1>4, <2>2, <3>1, SumInt
  <2> QED BY <2>1, <2>2
<1>8. /\ SumFunctionOnSet(moved', Customer) = SumFunctionOnSet(moved, Customer) + charged
      /\ SumFunctionOnSet(moved, Customer) \in Int
  <2>1. \A c \in Customer : /\ moved[c] \in Int /\ Charge(o) \in Int /\ moved'[c] \in Int
                            /\ moved'[c] = moved[c] + At0(c, Charged(o), Charge(o))
    <3>1. ASSUME NEW c \in Customer
          PROVE  /\ Charge(o) \in Int
                 /\ ledger'[c] = ledger[c] + At0(c, Charged(o), Charge(o))
      BY <1>1, EffectOnCustomer DEF RecordStep
    <3>2. \A c \in Customer : ledger[c] \in Int /\ Opening[c] \in Int
      <4>1. \A c \in Customer : c \in Row \ StockRow
        BY RowStoreAssumption DEF Row
      <4> QED BY <4>1, RowStoreAssumption DEF Inv, StoreInv, StoreTypeOK, Balance
    <3> QED BY <3>1, <3>2 DEF moved, At0
  <2>2. CASE Charged(o) \in Customer
    <3>1. /\ \A c \in Customer : moved[c] \in Int /\ moved'[c] \in Int
          /\ \A c \in Customer \ {Charged(o)} : moved[c] = moved'[c]
          /\ moved'[Charged(o)] - moved[Charged(o)] = Charge(o) /\ Charge(o) \in Int
      BY <2>1, <2>2 DEF At0
    <3>2. SumFunctionOnSet(moved', Customer)
            = SumFunctionOnSet(moved, Customer) + (moved'[Charged(o)] - moved[Charged(o)])
      BY <2>2, <3>1, SumChange, BookkeepingAssumption
    <3>3. charged = Charge(o)
      BY <2>2, RowStoreAssumption DEF Row
    <3> QED BY <3>1, <3>2, <3>3, SumInt, BookkeepingAssumption
  <2>3. CASE Charged(o) = Null
    <3>1. \A c \in Customer : moved[c] \in Int /\ moved'[c] = moved[c]
      BY <2>1, <2>3, RowStoreAssumption DEF At0, Row
    <3>2. SumFunctionOnSet(moved', Customer) = SumFunctionOnSet(moved, Customer)
      BY <3>1, SumSame, BookkeepingAssumption
    <3>3. SumFunctionOnSet(moved, Customer) \in Int
      BY <3>1, SumInt, BookkeepingAssumption
    <3> QED BY <2>3, <3>2, <3>3
  <2>4. Charged(o) \in Customer \cup {Null}
    BY SaleFields, CashFields DEF Charged, Cash
  <2> QED BY <2>2, <2>3, <2>4
<1>9. /\ due \in Int /\ unnamed \in Int /\ paidNow \in Int /\ charged \in Int
      /\ due = charged + paidNow + unnamed
  <2>1. CASE o.kind = "SALE"
    BY <2>1, AmountInt DEF Charge, Charged
  <2>2. CASE o.kind = "RECEIPT"
    BY <1>1, <2>2, AmountInt DEF Charge, Charged
  <2>3. CASE o.kind \notin {"SALE", "RECEIPT"}
    BY <2>3 DEF Charge, Charged
  <2> QED BY <2>1, <2>2, <2>3
<1> HIDE DEF due, unnamed, paidNow, charged
<1> QED BY <1>5, <1>6, <1>7, <1>8, <1>9 DEF DueInv

LEMMA DueInvariance == Spec => []DueInv
<1>1. Init => DueInv
  <2> SUFFICES ASSUME Init PROVE DueInv
    OBVIOUS
  <2>1. Sales = {} /\ Unnamed = {} /\ Receipts = {}
    BY DEF Init, SessionInit, Sales, Unnamed, Receipts, OfKind, Committed
  <2>2. \A c \in Customer : moved[c] = 0
    <3>1. \A c \in Customer : c \in Row \ StockRow
      BY RowStoreAssumption DEF Row
    <3> QED BY <3>1, RowStoreAssumption DEF Init, StoreInit, moved, Qty, Balance
  <2> QED BY <2>1, <2>2, SumEmpty, SumZero, BookkeepingAssumption DEF DueInv
<1>2. ASSUME Inv, OwedInv, LocksInv, BookInv, DueInv, [Next]_vars PROVE DueInv'
  <2>1. CASE /\ Committed' = Committed /\ UNCHANGED ledger
             /\ \A x \in Committed : order'[x] = order[x]
    <3>1. /\ Sales' = Sales /\ Unnamed' = Unnamed /\ Receipts' = Receipts /\ moved' = moved
          /\ \A r \in Sales : order'[r] = order[r] /\ r \in Request
          /\ \A r \in Receipts : order'[r] = order[r] /\ r \in Request
          /\ Unnamed \subseteq Sales
      BY <2>1 DEF Sales, Unnamed, Receipts, OfKind, moved, Committed
    <3>2. /\ \A r \in Sales : dues'[r] = dues[r]
          /\ \A r \in Receipts : paid'[r] = paid[r]
      BY <3>1 DEF dues, paid, DueAmount
    <3>3. /\ SumFunctionOnSet(dues', Sales) = SumFunctionOnSet(dues, Sales)
          /\ SumFunctionOnSet(dues', Unnamed) = SumFunctionOnSet(dues, Unnamed)
          /\ SumFunctionOnSet(paid', Receipts) = SumFunctionOnSet(paid, Receipts)
      <4>1. \A r \in Unnamed : dues'[r] = dues[r]
        BY <3>1, <3>2
      <4>2. IsFiniteSet(Sales) /\ IsFiniteSet(Unnamed) /\ IsFiniteSet(Receipts)
        BY <1>2, DueTypes
      <4> QED BY <3>2, <4>1, <4>2, SumSame
    <3> QED BY <1>2, <3>1, <3>3 DEF DueInv
  <2>2. CASE ~(/\ Committed' = Committed /\ UNCHANGED ledger
               /\ \A x \in Committed : order'[x] = order[x])
    BY <1>2, <2>2, CommitSteps, DueCommit DEF CommitStep
  <2> QED BY <2>1, <2>2
<1> QED BY <1>1, <1>2, BookInvariance, OwedInvariance, PTL DEF Spec

\* The unpaid part of the sales report is what the transactions of customers say,
\* whatever runs, fails or is interrupted meanwhile: the part of each sale that is
\* not paid is charged to its customer in the transaction that inserts the sale,
\* and a receipt takes from the customer what it brings to the cashbox.
THEOREM DueIsCharged == Spec => []DueReportedIsCharged
<1>1. ASSUME Inv, OwedInv, DueInv PROVE DueReportedIsCharged
  <2> DEFINE unnamed == {r \in OfKind("SALE", Committed) : order[r].party = Null}
  <2>1. /\ unnamed = Unnamed /\ Unnamed \subseteq Sales
        /\ OfKind("SALE", Committed) = Sales /\ OfKind("RECEIPT", Committed) = Receipts
        /\ Committed \cap Request = Committed
    BY DEF Unnamed, Sales, Receipts, Committed
  <2>2. SumFunctionOnSet([r \in Sales |-> DueAmount(order[r])], Sales) = SumFunctionOnSet(dues, Sales)
    <3> DEFINE f == [r \in Sales |-> DueAmount(order[r])]
    <3>1. \A r \in Sales : f[r] = dues[r]
      BY <1>1, DueTypes
    <3> QED BY <1>1, <3>1, DueTypes, SumSame
  <2>3. SumFunctionOnSet([r \in Unnamed |-> DueAmount(order[r])], Unnamed)
          = SumFunctionOnSet(dues, Unnamed)
    <3> DEFINE f == [r \in Unnamed |-> DueAmount(order[r])]
    <3>1. \A r \in Unnamed : f[r] = dues[r]
      BY <1>1, <2>1, DueTypes
    <3> QED BY <1>1, <3>1, DueTypes, SumSame
  <2>4. SumFunctionOnSet([r \in Receipts |-> order[r].amount], Receipts)
          = SumFunctionOnSet(paid, Receipts)
    <3> DEFINE f == [r \in Receipts |-> order[r].amount]
    <3>1. \A r \in Receipts : f[r] = paid[r]
      BY <1>1, DueTypes
    <3> QED BY <1>1, <3>1, DueTypes, SumSame
  <2> QED BY <1>1, <2>1, <2>2, <2>3, <2>4
          DEF DueReportedIsCharged, SalesReport, SumFunction, DueInv, moved
<1> QED BY <1>1, DueInvariance, OwedInvariance, Invariance, PTL
=============================================================================
