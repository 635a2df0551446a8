---------------------------- MODULE SafetyProofs ----------------------------
(* The safety properties of Bookkeeping that need more than its type and    *)
(* store invariants: what the checks of the handlers guarantee.             *)
EXTENDS BookkeepingProofs, WellFoundedInduction

\* The session of a request changes in its own steps only.
SameSession(x) ==
  /\ order'[x] = order[x] /\ step'[x] = step[x] /\ todo'[x] = todo[x]
  /\ seen'[x] = seen[x] /\ diff'[x] = diff[x] /\ base'[x] = base[x]

\* The steps all handlers share change the session of one request.
LEMMA HelperFrame ==
  ASSUME SessionTypeOK, NEW r \in Request, NEW x \in Request \ {r}
  PROVE  /\ \A o, s, lines : Receive(r, o, s, lines) => SameSession(x)
         /\ \A s, lines, balance : Goto(r, s, lines, balance) => SameSession(x)
         /\ \A outcome : End(r, outcome) => SameSession(x)
         /\ \A row, s : Read(r, row, s) => SameSession(x)
         /\ \A row, amount, s, lines :
              WriteFromSeen(r, row, amount, s, lines) => SameSession(x)
         /\ Reject(r) => SameSession(x)
         /\ Commit(r) => SameSession(x)
<1>1. \A o, s, lines : Receive(r, o, s, lines) => SameSession(x)
  BY DEF SessionTypeOK, SameSession, Receive
<1>2. \A s, lines, balance : Goto(r, s, lines, balance) => SameSession(x)
  BY DEF SessionTypeOK, SameSession, Goto
<1>3. \A outcome : End(r, outcome) => SameSession(x)
  BY DEF SessionTypeOK, SameSession, End
<1> QED BY <1>1, <1>2, <1>3 DEF Read, WriteFromSeen, Reject, Commit

\* So do the steps of every handler.
LEMMA HandlerFrame ==
  ASSUME SessionTypeOK, NEW r \in Request, NEW x \in Request \ {r}, Handler(r)
  PROVE  SameSession(x)
<1>1. CASE SaleStep(r)
  BY <1>1, HelperFrame DEF SaleStep, ReceiveSale, CheckStock, OpenSale, InsertDocument,
     ReadSaleLine, WriteSaleLine, ChargeCustomer, CommitSale
<1>2. CASE PurchaseStep(r)
  BY <1>2, HelperFrame DEF PurchaseStep, ReceivePurchase, OpenPurchase, InsertDocument,
     ReadPurchaseLine, WritePurchaseLine, CreditSupplier, CommitPurchase
<1>3. CASE InventoryStep(r)
  <2>1. ReceiveMovement(r) => SameSession(x)
    BY DEF ReceiveMovement, SessionTypeOK, SameSession
  <2>2. CompareCount(r) => SameSession(x)
    BY HelperFrame DEF CompareCount, SessionTypeOK, SameSession
  <2> QED BY <1>3, <2>1, <2>2, HelperFrame DEF InventoryStep, ReceiveCount, ReadStock,
          WriteStock, LogMovement
<1>4. CASE TransferStep(r)
  BY <1>4, HelperFrame DEF TransferStep, ReceiveTransfer, ReadSource, WriteSource,
     ReadTarget, WriteTarget, CommitTransfer
<1>5. CASE VoucherStep(r)
  BY <1>5, HelperFrame DEF VoucherStep, ReceiveCash, ReadCashbox, WriteCashbox,
     ReadParty, WriteParty, CommitCash
<1>6. CASE ReturnStep(r)
  <2>1. CheckReturn(r) => SameSession(x)
    BY HelperFrame DEF CheckReturn, SessionTypeOK, SameSession
  <2> QED BY <1>6, <2>1, HelperFrame DEF ReturnStep, ReceiveReturn, TakeBackLine,
          SendBackLine, CommitReturn, ReceiveAdjustment, ReadAdjusted, WriteAdjusted,
          CommitAdjustment
<1> QED BY <1>1, <1>2, <1>3, <1>4, <1>5, <1>6 DEF Handler

\* Where the shared steps leave the handler of r.
LEMMA ArriveAtWrite ==
  ASSUME SessionTypeOK, NEW r \in Request
  PROVE  /\ \A o, s, lines : Receive(r, o, s, lines) =>
              step'[r] = s /\ order'[r] = o /\ UNCHANGED storeVars
         /\ \A s, lines, balance : Goto(r, s, lines, balance) =>
              /\ step'[r] = s /\ seen'[r] = balance
              /\ order'[r] = order[r] /\ base'[r] = base[r]
         /\ \A row, s : Read(r, row, s) =>
              /\ step'[r] = s /\ seen'[r] = Seen(r, row) /\ order'[r] = order[r]
              /\ UNCHANGED storeVars
         /\ \A row, amount, s, lines : WriteFromSeen(r, row, amount, s, lines) =>
              order'[r] = order[r] /\ step'[r] \in {s, "rejected"}
         /\ \A outcome : End(r, outcome) => step'[r] = outcome /\ order'[r] = order[r]
         /\ Reject(r) => step'[r] = "rejected" /\ RollbackRows(r)
         /\ Commit(r) => step'[r] = "done" /\ CommitRows(r)
<1>1. \A o, s, lines : Receive(r, o, s, lines) =>
        step'[r] = s /\ order'[r] = o /\ UNCHANGED storeVars
  BY DEF SessionTypeOK, Receive
<1>2. \A s, lines, balance : Goto(r, s, lines, balance) =>
        /\ step'[r] = s /\ seen'[r] = balance
        /\ order'[r] = order[r] /\ base'[r] = base[r]
  BY DEF SessionTypeOK, Goto
<1>3. \A outcome : End(r, outcome) => step'[r] = outcome /\ order'[r] = order[r]
  BY DEF SessionTypeOK, End
<1>4. \A row, s : Read(r, row, s) =>
        /\ step'[r] = s /\ seen'[r] = Seen(r, row) /\ order'[r] = order[r]
        /\ UNCHANGED storeVars
  BY <1>2 DEF Read
<1>5. Reject(r) => step'[r] = "rejected" /\ RollbackRows(r)
  BY <1>3 DEF Reject
<1>6. \A row, amount, s, lines : WriteFromSeen(r, row, amount, s, lines) =>
        order'[r] = order[r] /\ step'[r] \in {s, "rejected"}
  BY <1>2, <1>3, <1>5 DEF WriteFromSeen, Reject
<1>7. Commit(r) => step'[r] = "done" /\ CommitRows(r)
  BY <1>3 DEF Commit
<1> QED BY <1>1, <1>2, <1>3, <1>4, <1>5, <1>6, <1>7

\* A non-empty set of positions of a sequence has a last one.
LEMMA MaxOfBounded ==
  ASSUME NEW n \in Nat, NEW S \in SUBSET (1..n), S # {}
  PROVE  \E i \in S : \A j \in S : j <= i
<1> DEFINE R == OpToRel(<, Nat)
           T == {k \in Nat : n - k \in S}
<1>1. IsWellFoundedOn(R, Nat)
  BY NatLessThanWellFounded
<1>2. T \subseteq Nat /\ T # {}
  <2>1. PICK i \in S : TRUE
    OBVIOUS
  <2>2. n - i \in Nat /\ n - (n - i) = i
    OBVIOUS
  <2> QED BY <2>1, <2>2
<1> HIDE DEF T, R
<1>3. PICK k \in T : \A l \in T : <<l, k>> \notin R
  BY <1>1, <1>2, WFMin
<1>4. \A l \in T : ~(l < k)
  BY <1>2, <1>3 DEF R, OpToRel
<1>5. \A j \in S : n - j \in T
  BY DEF T
<1>6. n - k \in S /\ \A j \in S : j <= n - k
  BY <1>4, <1>5, <1>2 DEF T
<1> QED BY <1>6

-----------------------------------------------------------------------------
(* Returns stay within their invoice. *)

\* A return that passed its check passed it against the quantities it read.
ReturnsInv ==
  /\ \A r \in Request : InReturn(r, "write") => WithinSource(order[r], base[r])
  /\ ReturnsWithinInvoiceUnlessRaced

\* No step of another service leaves a return at its lines.
LEMMA OtherServices ==
  ASSUME Inv, NEW r \in Request,
         \/ SaleStep(r) \/ PurchaseStep(r) \/ InventoryStep(r)
         \/ TransferStep(r) \/ VoucherStep(r)
  PROVE  ~InReturn(r, "write")'
<1> USE DEF Inv, InReturn, At, ReturnKind
<1>1. CASE SaleStep(r)
  BY <1>1, ArriveAtWrite DEF SaleStep, ReceiveSale, CheckStock, OpenSale, InsertDocument,
     ReadSaleLine, WriteSaleLine, ChargeCustomer, CommitSale
<1>2. CASE PurchaseStep(r)
  BY <1>2, ArriveAtWrite DEF PurchaseStep, ReceivePurchase, OpenPurchase, InsertDocument,
     ReadPurchaseLine, WritePurchaseLine, CreditSupplier, CommitPurchase
<1>3. CASE InventoryStep(r)
  <2>1. ReceiveMovement(r) => step'[r] = "read"
    BY DEF ReceiveMovement, SessionTypeOK
  <2>2. CompareCount(r) => step'[r] \in {"read", "rejected"}
    BY ArriveAtWrite DEF CompareCount, SessionTypeOK
  <2> QED BY <1>3, <2>1, <2>2, ArriveAtWrite DEF InventoryStep, ReceiveCount, ReadStock,
          WriteStock, LogMovement, InMovement
<1>4. CASE TransferStep(r)
  BY <1>4, ArriveAtWrite DEF TransferStep, ReceiveTransfer, ReadSource, WriteSource,
     ReadTarget, WriteTarget, CommitTransfer
<1>5. CASE VoucherStep(r)
  BY <1>5, ArriveAtWrite DEF VoucherStep, ReceiveCash, ReadCashbox, WriteCashbox,
     ReadParty, WriteParty, CommitCash, InCash, Cash
<1> QED BY <1>1, <1>2, <1>3, <1>4, <1>5

\* A return at its lines keeps what its check read, and reaches its lines only
\* through the check.
LEMMA ReturnSession ==
  ASSUME Inv, ReturnsInv, NEW r \in Request, ReturnStep(r), InReturn(r, "write")'
  PROVE  WithinSource(order[r], base[r])' /\ ~CommitReturn(r)
<1> USE DEF Inv, InReturn, At, ReturnKind
<1>1. CASE CheckReturn(r)
  <2>1. ~Reject(r)
    BY ArriveAtWrite
  <2>2. /\ WithinSource(order[r], returned[order[r].invoice])
        /\ base'[r] = returned[order[r].invoice] /\ order' = order
    BY <1>1, <2>1 DEF CheckReturn, SessionTypeOK
  <2> QED BY <1>1, <2>2 DEF WithinSource, CheckReturn, CommitReturn
<1>2. CASE TakeBackLine(r)
  <2>1. order'[r] = order[r] /\ base'[r] = base[r] /\ todo[r] # <<>>
    BY <1>2, ArriveAtWrite DEF TakeBackLine
  <2> QED BY <1>2, <2>1 DEF TakeBackLine, ReturnsInv, WithinSource, CommitReturn
<1>3. CASE SendBackLine(r)
  <2>1. order'[r] = order[r] /\ base'[r] = base[r] /\ todo[r] # <<>>
    BY <1>3, ArriveAtWrite DEF SendBackLine
  <2> QED BY <1>3, <2>1 DEF SendBackLine, ReturnsInv, WithinSource, CommitReturn
<1>4. ~CommitReturn(r)
  BY ArriveAtWrite DEF CommitReturn
<1>5. ~ReceiveReturn(r) /\ ~ReceiveAdjustment(r)
  BY ArriveAtWrite DEF ReceiveReturn, ReceiveAdjustment
<1>6. ~ReadAdjusted(r) /\ ~WriteAdjusted(r) /\ ~CommitAdjustment(r)
  BY ArriveAtWrite DEF ReadAdjusted, WriteAdjusted, CommitAdjustment
<1> QED BY <1>1, <1>2, <1>3, <1>4, <1>5, <1>6 DEF ReturnStep

\* The commit of a return whose check is still current keeps the bound.
LEMMA CommitWithin ==
  ASSUME Inv, ReturnsInv, NEW r \in Request, CommitReturn(r)
  PROVE  ReturnsWithinInvoiceUnlessRaced'
<1> DEFINE o == order[r]
<1>1. /\ o \in Order /\ o.invoice \in Invoice /\ o.kind \in ReturnKind
      /\ WithinSource(o, base[r])
  BY OrderOf, ReturnFields DEF CommitReturn, InReturn, At, Inv, ReturnsInv
<1> SUFFICES ASSUME NEW doc \in Invoice \ raced', NEW p \in Product
             PROVE  returned'[doc][p] <= Returnable(doc, p)
  BY DEF ReturnsWithinInvoiceUnlessRaced, Returnable
<1>2. doc \notin raced /\ returned[doc][p] <= Returnable(doc, p)
  BY DEF CommitReturn, ReturnsInv, ReturnsWithinInvoiceUnlessRaced
<1>3. CASE doc # o.invoice \/ p \notin RequestedProducts(o)
  BY <1>1, <1>2, <1>3 DEF CommitReturn, Inv, ReturnsTypeOK
<1>4. CASE doc = o.invoice /\ p \in RequestedProducts(o)
  <2>1. returned[doc] = base[r]
    BY <1>1, <1>4 DEF CommitReturn
  <2>2. returned'[doc][p] = base[r][p] + RequestedQty(o, p)
    BY <1>1, <1>4, <2>1 DEF CommitReturn, Inv, ReturnsTypeOK
  <2> QED BY <1>1, <1>4, <2>2 DEF WithinSource, Returnable
<1> QED BY <1>3, <1>4

\* However returns of an invoice interleave with each other and with other
\* requests, an invoice that no return raced on is never returned beyond its
\* quantities.
THEOREM ReturnsBounded == Spec => []ReturnsWithinInvoiceUnlessRaced
<1>1. Init => ReturnsInv
  <2> SUFFICES ASSUME Init PROVE ReturnsInv
    OBVIOUS
  <2>1. \A r \in Request : ~InReturn(r, "write")
    BY DEF Init, SessionInit, InReturn, At
  <2>2. \A doc \in Invoice, p \in Product : returned[doc][p] = 0
    BY DEF Init, ReturnsInit, NothingReturned
  <2>3. \A doc \in Invoice, p \in Product : 0 <= Returnable(doc, p)
    <3> SUFFICES ASSUME NEW doc \in Invoice, NEW p \in Product, HasSourceItem(doc, p)
                 PROVE  SourceQty(doc, p) \in Nat
      BY DEF Returnable
    <3> DEFINE items == InvoiceLines[doc]
               lines == {i \in DOMAIN items : items[i].product = p}
               last  == CHOOSE i \in lines : \A j \in lines : j <= i
    <3>1. items \in Seq(Item)
      BY RequestsAssumption
    <3>2. \E i \in lines : \A j \in lines : j <= i
      <4>1. lines \subseteq 1..Len(items) /\ lines # {} /\ Len(items) \in Nat
        BY <3>1 DEF HasSourceItem
      <4> QED BY <4>1, MaxOfBounded
    <3>3. last \in DOMAIN items
      BY <3>2
    <3> HIDE DEF last
    <3>4. items[last] \in Item
      BY <3>1, <3>3, ElementOfSeq
    <3> QED BY <3>4 DEF SourceQty, Item, last
  <2> QED BY <2>1, <2>2, <2>3 DEF ReturnsInv, ReturnsWithinInvoiceUnlessRaced
<1>2. Inv /\ ReturnsInv /\ [Next]_vars => ReturnsInv'
  <2> SUFFICES ASSUME Inv, ReturnsInv, [Next]_vars PROVE ReturnsInv'
    OBVIOUS
  <2>1. ASSUME UNCHANGED returnVars PROVE ReturnsWithinInvoiceUnlessRaced'
    BY <2>1 DEF returnVars, ReturnsInv, ReturnsWithinInvoiceUnlessRaced, Returnable
  <2>2. ASSUME NEW r \in Request, Handler(r) PROVE ReturnsInv'
    <3>1. ReturnsWithinInvoiceUnlessRaced'
      BY <2>1, <2>2, CommitWithin DEF Handler, ReturnStep, ReceiveReturn, CheckReturn,
         TakeBackLine, SendBackLine, ReceiveAdjustment, ReadAdjusted, WriteAdjusted,
         CommitAdjustment
    <3>2. ASSUME NEW x \in Request, InReturn(x, "write")'
          PROVE  WithinSource(order[x], base[x])'
      <4>1. CASE x = r
        BY <2>2, <3>2, <4>1, OtherServices, ReturnSession DEF Handler
      <4>2. CASE x # r
        <5>1. SameSession(x)
          BY <2>2, <4>2, HandlerFrame DEF Inv
        <5> QED BY <3>2, <5>1 DEF SameSession, ReturnsInv, WithinSource, InReturn, At
      <4> QED BY <4>1, <4>2
    <3> QED BY <3>1, <3>2 DEF ReturnsInv
  <2>3. ASSUME NEW r \in Request, End(r, "interrupted"), UNCHANGED returnVars
        PROVE  ReturnsInv'
    <3>1. ASSUME NEW x \in Request, InReturn(x, "write")'
          PROVE  WithinSource(order[x], base[x])'
      <4>1. x # r
        BY <2>3, <3>1, ArriveAtWrite DEF InReturn, At, Inv
      <4>2. SameSession(x)
        BY <2>3, <4>1, HelperFrame DEF Inv
      <4> QED BY <3>1, <4>2 DEF SameSession, ReturnsInv, WithinSource, InReturn, At
    <3> QED BY <2>1, <2>3, <3>1 DEF ReturnsInv
  <2>4. ASSUME UNCHANGED vars PROVE ReturnsInv'
    BY <2>1, <2>4 DEF vars, sessionVars, ReturnsInv, WithinSource, InReturn, At
  <2>5. ASSUME Next PROVE ReturnsInv'
    BY <2>2, <2>3, <2>4, <2>5 DEF Next, Interruption, Interrupted, DeadlockVictim, AtRest
  <2> QED BY <2>4, <2>5
<1>3. ReturnsInv => ReturnsWithinInvoiceUnlessRaced
  BY DEF ReturnsInv
<1> QED BY <1>1, <1>2, <1>3, Invariance, PTL DEF Spec

-----------------------------------------------------------------------------
(* Stock and cashboxes stay at zero or more. *)

GuardedRow == StockRow \cup Cashbox

\* The orders whose handlers compare what they write with zero, and the rows
\* with a valid opening balance.
GuardedOrders ==
  /\ \A o \in Order : o.kind \notin {"SALE", "MOVEMENT", "COUNT"}
  /\ \A row \in GuardedRow : Qty(Opening[row]) >= 0

NonNegative(committed, uncommitted) ==
  \A row \in GuardedRow : Qty(committed[row]) >= 0 /\ Qty(uncommitted[row]) >= 0

\* A handler with order o that is about to write, at step s, has read a balance
\* that covers it.
Covered(o, s, balance) ==
  /\ o.kind = "PURCHASE" /\ s = "write" => Qty(balance) >= 0
  /\ o.kind = "TRANSFER" /\ s = "write" => Qty(balance) >= o.quantity
  /\ o.kind = "TRANSFER" /\ s = "writeSecond" => Qty(balance) >= 0
  /\ o.kind \in Cash /\ s = "write" => Qty(balance) + CashChange(o) >= 0

NonNegativeInv ==
  /\ NonNegative(table, draft)
  /\ \A r \in Request : Covered(order[r], step[r], seen[r])

\* A statement that leaves zero or more in a guarded row keeps them all so.
LEMMA WriteNonNegative ==
  ASSUME StoreTypeOK, NonNegative(table, draft), NEW r \in Request, NEW row \in Row,
         NEW balance \in Int, NEW amount \in Int, Write(r, row, balance, amount),
         row \in GuardedRow => balance >= 0
  PROVE  NonNegative(table', draft')
<1>1. Qty(balance) = balance
  BY RowStoreAssumption DEF Qty
<1> QED BY <1>1 DEF NonNegative, Write, StoreTypeOK, GuardedRow, Row

\* What a request sees of a guarded row is zero or more.
LEMMA SeenNonNegative ==
  ASSUME NonNegative(table, draft), NEW r \in Request, NEW row \in GuardedRow
  PROVE  Qty(Seen(r, row)) >= 0
BY DEF NonNegative, Seen

\* The end of a transaction leaves committed or uncommitted values in the rows.
LEMMA EndNonNegative ==
  ASSUME StoreTypeOK, NonNegative(table, draft), NEW r \in Request,
         CommitRows(r) \/ RollbackRows(r)
  PROVE  NonNegative(table', draft')
BY DEF NonNegative, CommitRows, RollbackRows, StoreTypeOK, GuardedRow, Row

\* So does a write computed from a balance that covers it.
LEMMA WriteFromSeenNonNegative ==
  ASSUME StoreTypeOK, SessionTypeOK, NonNegative(table, draft), NEW r \in Request,
         NEW row \in Row, NEW amount \in Int, NEW s, NEW lines,
         WriteFromSeen(r, row, amount, s, lines),
         row \in GuardedRow => Qty(seen[r]) + amount >= 0
  PROVE  NonNegative(table', draft')
<1>1. Qty(seen[r]) + amount \in Int
  BY QtyInt DEF SessionTypeOK
<1> QED BY <1>1, WriteNonNegative, EndNonNegative DEF WriteFromSeen, SetFromRead, Reject

\* A SELECT, or any other step that leaves the rows alone, keeps them so.
LEMMA SameRows ==
  ASSUME NonNegative(table, draft), UNCHANGED storeVars
  PROVE  NonNegative(table', draft')
BY DEF NonNegative, storeVars

\* Only a request that is about to write needs cover.
LEMMA NotWriting ==
  ASSUME NEW r \in Request, step'[r] \notin {"write", "writeSecond"}
  PROVE  Covered(order'[r], step'[r], seen'[r])
BY DEF Covered

\* A request that has just arrived has changed no row and writes nothing yet.
LEMMA ReceiveNonNegative ==
  ASSUME Inv, NonNegativeInv, NEW r \in Request, NEW o, NEW s, NEW lines,
         Receive(r, o, s, lines), s \notin {"write", "writeSecond"}
  PROVE  NonNegative(table', draft') /\ Covered(order'[r], step'[r], seen'[r])
<1>1. step'[r] = s /\ UNCHANGED storeVars
  BY ArriveAtWrite DEF Inv
<1>2. Covered(order'[r], step'[r], seen'[r])
  BY <1>1, NotWriting
<1> QED BY <1>1, <1>2, SameRows DEF NonNegativeInv

\* A request that has written goes on to a step that needs no cover, or to one
\* that only reads.
LEMMA WrittenNeedsNoCover ==
  ASSUME SessionTypeOK, NEW r \in Request, NEW row, NEW amount, NEW s, NEW lines,
         WriteFromSeen(r, row, amount, s, lines), s \notin {"write", "writeSecond"}
  PROVE  Covered(order'[r], step'[r], seen'[r])
<1>1. step'[r] \in {s, "rejected"}
  BY ArriveAtWrite
<1>2. step'[r] \notin {"write", "writeSecond"}
  BY <1>1
<1> QED BY <1>2, NotWriting

\* The same of a Goto.
LEMMA GotoNeedsNoCover ==
  ASSUME SessionTypeOK, NEW r \in Request, NEW s, NEW lines, NEW balance,
         Goto(r, s, lines, balance), s \notin {"write", "writeSecond"}
  PROVE  Covered(order'[r], step'[r], seen'[r])
<1>1. step'[r] = s
  BY ArriveAtWrite
<1> QED BY <1>1, NotWriting

\* createPurchase adds positive quantities to balances of zero or more.
LEMMA PurchaseNonNegative ==
  ASSUME Inv, NonNegativeInv, NEW r \in Request, PurchaseStep(r)
  PROVE  NonNegative(table', draft') /\ Covered(order'[r], step'[r], seen'[r])
<1> USE DEF Inv, StoreInv, NonNegativeInv
<1>0. StockRow \subseteq Row /\ StockRow \subseteq GuardedRow
  BY DEF Row, GuardedRow
<1>1. CASE ReceivePurchase(r)
  BY <1>1, ReceiveNonNegative DEF ReceivePurchase
<1>2. CASE ReadPurchaseLine(r)
  <2>1. order[r] \in Order /\ todo[r] \in Seq(Line)
    BY <1>2, OrderOf DEF ReadPurchaseLine, At
  <2>2. Head(todo[r]).row \in GuardedRow
    BY <1>0, <1>2, <2>1, HeadTail DEF ReadPurchaseLine
  <2>3. Qty(seen'[r]) >= 0
    BY <1>2, <2>2, SeenNonNegative, ArriveAtWrite DEF ReadPurchaseLine
  <2> QED BY <1>2, <2>3, ArriveAtWrite, SameRows
          DEF ReadPurchaseLine, Covered, At, InCash, Cash
<1>3. CASE WritePurchaseLine(r)
  <2>1. order[r] \in Order /\ todo[r] \in Seq(Line) /\ Qty(seen[r]) \in Int
    BY <1>3, OrderOf, QtyInt DEF WritePurchaseLine, SessionTypeOK, At
  <2>2. Head(todo[r]).row \in Row /\ Head(todo[r]).quantity \in Nat
    BY <1>0, <1>3, <2>1, HeadTail DEF WritePurchaseLine
  <2>3. Qty(seen[r]) + Head(todo[r]).quantity >= 0
    <3>1. Covered(order[r], step[r], seen[r])
      OBVIOUS
    <3>2. Qty(seen[r]) >= 0
      BY <1>3, <3>1 DEF WritePurchaseLine, Covered, At
    <3> QED BY <2>1, <2>2, <3>2
  <2>4. NonNegative(table', draft')
    BY <1>3, <2>2, <2>3, WriteFromSeenNonNegative DEF WritePurchaseLine
  <2> QED BY <1>3, <2>4, WrittenNeedsNoCover DEF WritePurchaseLine
<1>4. CASE CreditSupplier(r)
  <2>1. order[r] \in Order
    BY <1>4, OrderOf DEF CreditSupplier, At
  <2>2. CASE UNCHANGED storeVars
    BY <1>4, <2>2, GotoNeedsNoCover, SameRows DEF CreditSupplier
  <2>3. CASE /\ order[r].party # Null
             /\ Increment(r, order[r].party, OwedAmount(order[r]))
    <3>1. /\ order[r].party \in Supplier /\ OwedAmount(order[r]) \in Int
          /\ order[r].party \in Row /\ order[r].party \notin GuardedRow
      <4>1. order[r].kind = "PURCHASE"
        BY <1>4 DEF CreditSupplier, At
      <4>2. order[r].party \in Supplier /\ OwedAmount(order[r]) \in Int
        BY <2>1, <2>3, <4>1, PurchaseFields
      <4> QED BY <4>2, RowStoreAssumption DEF Row, GuardedRow
    <3>2. Qty(Seen(r, order[r].party)) + OwedAmount(order[r]) \in Int
      BY <3>1, SeenType, QtyInt
    <3>3. NonNegative(table', draft')
      BY <2>3, <3>1, <3>2, WriteNonNegative DEF Increment
    <3> QED BY <1>4, <3>3, GotoNeedsNoCover DEF CreditSupplier
  <2> QED BY <1>4, <2>2, <2>3 DEF CreditSupplier, CreditsSupplier
<1>5. CASE CommitPurchase(r)
  BY <1>5, EndNonNegative, ArriveAtWrite, SameRows, NotWriting DEF CommitPurchase
<1>6. CASE OpenPurchase(r)
  BY <1>6, EndNonNegative, ArriveAtWrite, SameRows, NotWriting, GotoNeedsNoCover
     DEF OpenPurchase, InsertDocument
<1> QED BY <1>1, <1>2, <1>3, <1>4, <1>5, <1>6 DEF PurchaseStep

\* transferStock takes at most what it has read and compared.
LEMMA TransferNonNegative ==
  ASSUME Inv, NonNegativeInv, NEW r \in Request, TransferStep(r)
  PROVE  NonNegative(table', draft') /\ Covered(order'[r], step'[r], seen'[r])
<1> USE DEF Inv, StoreInv, NonNegativeInv
<1>1. CASE ReceiveTransfer(r)
  BY <1>1, ReceiveNonNegative DEF ReceiveTransfer
<1>2. ASSUME NEW s, At(r, "TRANSFER", s), s # "idle"
      PROVE  /\ order[r] \in Order /\ order[r].quantity \in Nat
             /\ Source(order[r]) \in Row /\ Source(order[r]) \in GuardedRow
             /\ Target(order[r]) \in Row /\ Target(order[r]) \in GuardedRow
             /\ Qty(seen[r]) \in Int /\ -order[r].quantity \in Int
  BY <1>2, OrderOf, TransferFields, QtyInt DEF Row, GuardedRow, SessionTypeOK, At
<1>3. CASE ReadSource(r)
  <2>1. CASE Reject(r)
    BY <2>1, EndNonNegative, ArriveAtWrite, SameRows, NotWriting
  <2>2. CASE /\ ~(Qty(Seen(r, Source(order[r]))) < order[r].quantity)
             /\ Read(r, Source(order[r]), "write")
    <3>1. Qty(Seen(r, Source(order[r]))) \in Int /\ order[r].quantity \in Int
      BY <1>2, <1>3, SeenType, QtyInt DEF ReadSource
    <3>2. Qty(seen'[r]) >= order'[r].quantity
      BY <2>2, <3>1, ArriveAtWrite
    <3> QED BY <1>3, <2>2, <3>2, ArriveAtWrite, SameRows
          DEF ReadSource, Covered, At, InCash, Cash
  <2> QED BY <1>3, <2>1, <2>2 DEF ReadSource
<1>4. CASE WriteSource(r)
  <2>1. Qty(seen[r]) + (-order[r].quantity) >= 0
    <3>1. Covered(order[r], step[r], seen[r])
      OBVIOUS
    <3>2. Qty(seen[r]) >= order[r].quantity
      BY <1>4, <3>1 DEF WriteSource, Covered, At
    <3>3. Qty(seen[r]) \in Int /\ order[r].quantity \in Nat
      BY <1>2, <1>4 DEF WriteSource
    <3> QED BY <3>2, <3>3
  <2>2. NonNegative(table', draft')
    BY <1>2, <1>4, <2>1, WriteFromSeenNonNegative DEF WriteSource
  <2> QED BY <1>4, <2>2, WrittenNeedsNoCover DEF WriteSource
<1>5. CASE ReadTarget(r)
  <2>1. Qty(seen'[r]) >= 0
    BY <1>2, <1>5, SeenNonNegative, ArriveAtWrite DEF ReadTarget
  <2> QED BY <1>5, <2>1, ArriveAtWrite, SameRows
          DEF ReadTarget, Covered, At, InCash, Cash
<1>6. CASE WriteTarget(r)
  <2>1. Qty(seen[r]) + order[r].quantity >= 0
    <3>1. Covered(order[r], step[r], seen[r])
      OBVIOUS
    <3>2. Qty(seen[r]) >= 0
      BY <1>6, <3>1 DEF WriteTarget, Covered, At
    <3>3. Qty(seen[r]) \in Int /\ order[r].quantity \in Nat
      BY <1>2, <1>6 DEF WriteTarget
    <3> QED BY <3>2, <3>3
  <2>2. NonNegative(table', draft')
    BY <1>2, <1>6, <2>1, WriteFromSeenNonNegative DEF WriteTarget
  <2> QED BY <1>6, <2>2, WrittenNeedsNoCover DEF WriteTarget
<1>7. CASE CommitTransfer(r)
  BY <1>7, EndNonNegative, ArriveAtWrite, SameRows, NotWriting DEF CommitTransfer
<1> QED BY <1>1, <1>3, <1>4, <1>5, <1>6, <1>7 DEF TransferStep

\* processVoucher and processExpense leave what they take covered.
LEMMA VoucherNonNegative ==
  ASSUME Inv, NonNegativeInv, NEW r \in Request, VoucherStep(r)
  PROVE  NonNegative(table', draft') /\ Covered(order'[r], step'[r], seen'[r])
<1> USE DEF Inv, StoreInv, NonNegativeInv
<1>1. CASE ReceiveCash(r)
  BY <1>1, ReceiveNonNegative DEF ReceiveCash

<1>2. ASSUME NEW s, InCash(r, s), s # "idle"
      PROVE  /\ order[r] \in Order /\ order[r].amount \in Nat /\ order[r].kind \in Cash
             /\ order[r].cashbox \in Row /\ order[r].cashbox \in GuardedRow
             /\ CashChange(order[r]) \in Int
  BY <1>2, OrderOf, CashFields DEF InCash, At, Row, GuardedRow, CashChange
<1>3. CASE ReadCashbox(r)
  <2>1. CASE Reject(r)
    BY <2>1, EndNonNegative, ArriveAtWrite, SameRows, NotWriting
  <2>2. CASE /\ ~(/\ order[r].kind # "RECEIPT"
                  /\ Qty(Seen(r, order[r].cashbox)) < order[r].amount)
             /\ Read(r, order[r].cashbox, "write")
    <3> DEFINE balance == Qty(Seen(r, order[r].cashbox))
    <3>1. /\ balance \in Int /\ balance >= 0 /\ order[r].amount \in Nat
          /\ order[r].kind \in Cash
      BY <1>2, <1>3, SeenType, QtyInt, SeenNonNegative DEF ReadCashbox
    <3>2. balance + CashChange(order[r]) >= 0
      BY <2>2, <3>1 DEF CashChange
    <3>3. Qty(seen'[r]) + CashChange(order'[r]) >= 0
      BY <2>2, <3>2, ArriveAtWrite DEF CashChange
    <3> QED BY <1>3, <2>2, <3>1, <3>3, ArriveAtWrite, SameRows
          DEF ReadCashbox, Covered, At, InCash, Cash
  <2> QED BY <1>3, <2>1, <2>2 DEF ReadCashbox
<1>4. CASE WriteCashbox(r)
  <2>1. Qty(seen[r]) + CashChange(order[r]) >= 0
    <3>1. Covered(order[r], step[r], seen[r])
      OBVIOUS
    <3>2. order[r].kind \in Cash /\ step[r] = "write"
      BY <1>4 DEF WriteCashbox, InCash, At
    <3> QED BY <3>1, <3>2 DEF Covered
  <2>2. NonNegative(table', draft')
    BY <1>2, <1>4, <2>1, WriteFromSeenNonNegative DEF WriteCashbox
  <2> QED BY <1>4, <2>2, WrittenNeedsNoCover DEF WriteCashbox
<1>5. CASE ReadParty(r)
  <2>1. CASE Reject(r)
    BY <2>1, EndNonNegative, ArriveAtWrite, SameRows, NotWriting
  <2>2. CASE Read(r, order[r].party, "writeSecond")
    BY <1>5, <2>2, ArriveAtWrite, SameRows DEF ReadParty, Covered, At, InCash, Cash
  <2> QED BY <1>5, <2>1, <2>2 DEF ReadParty
<1>6. CASE WriteParty(r)
  <2>1. /\ order[r].party \in Row /\ order[r].party \notin GuardedRow
        /\ -order[r].amount \in Int
    BY <1>6, OrderOf, CashFields, RowStoreAssumption
       DEF WriteParty, At, Row, GuardedRow, Cash
  <2>2. NonNegative(table', draft')
    BY <1>6, <2>1, WriteFromSeenNonNegative DEF WriteParty
  <2> QED BY <1>6, <2>2, WrittenNeedsNoCover DEF WriteParty
<1>7. CASE CommitCash(r)
  BY <1>7, EndNonNegative, ArriveAtWrite, SameRows, NotWriting DEF CommitCash
<1> QED BY <1>1, <1>3, <1>4, <1>5, <1>6, <1>7 DEF VoucherStep

\* processReturn decrements under a condition; processStockAdjustment sets
\* counts, which are zero or more.
LEMMA ReturnNonNegative ==
  ASSUME Inv, NonNegativeInv, NEW r \in Request, ReturnStep(r)
  PROVE  NonNegative(table', draft') /\ Covered(order'[r], step'[r], seen'[r])
<1> USE DEF Inv, StoreInv, NonNegativeInv
<1>0. StockRow \subseteq Row
  BY DEF Row
<1>1. CASE ReceiveReturn(r)
  BY <1>1, ReceiveNonNegative DEF ReceiveReturn
<1>2. CASE CheckReturn(r)
  <2>1. CASE Reject(r)
    BY <2>1, EndNonNegative, ArriveAtWrite, SameRows, NotWriting
  <2>2. CASE order' = order /\ UNCHANGED storeVars
    <3>1. order'[r] = order[r] /\ order[r].kind \in ReturnKind
      BY <1>2, <2>2 DEF CheckReturn, InReturn, At
    <3>2. Covered(order'[r], step'[r], seen'[r])
      BY <3>1 DEF Covered, ReturnKind, Cash
    <3> QED BY <2>2, <3>2, SameRows
  <2> QED BY <1>2, <2>1, <2>2 DEF CheckReturn
<1>3. CASE TakeBackLine(r)
  <2> DEFINE line == Head(todo[r])
  <2>1. todo[r] \in Seq(Line)
    BY <1>3, OrderOf DEF TakeBackLine, At
  <2>2. line.row \in StockRow /\ line.row \in GuardedRow /\ line.quantity \in Nat
    BY <1>3, <2>1, HeadTail DEF TakeBackLine, GuardedRow
  <2> HIDE DEF line
  <2>3. Qty(Seen(r, line.row)) \in Int /\ Qty(Seen(r, line.row)) + line.quantity >= 0
    BY <1>0, <2>2, SeenType, QtyInt, SeenNonNegative
  <2>4. NonNegative(table', draft')
    BY <1>0, <1>3, <2>2, <2>3, WriteNonNegative DEF TakeBackLine, Increment, line
  <2> QED BY <1>3, <2>4, ArriveAtWrite, SameRows DEF TakeBackLine, InReturn, ReturnKind, Covered, At,
          InCash, Cash
<1>4. CASE SendBackLine(r)
  <2> DEFINE line == Head(todo[r])
             balance == Seen(r, line.row)
  <2>1. todo[r] \in Seq(Line)
    BY <1>4, OrderOf DEF SendBackLine, At
  <2>2. line.row \in StockRow /\ line.row \in GuardedRow /\ line.quantity \in Nat
    BY <1>4, <2>1, HeadTail DEF SendBackLine, GuardedRow
  <2> HIDE DEF line
  <2>3. CASE Reject(r)
    BY <2>3, EndNonNegative, ArriveAtWrite, SameRows, NotWriting
  <2>4. CASE /\ balance # Null /\ balance >= line.quantity
             /\ Increment(r, line.row, -line.quantity)
             /\ Goto(r, "write", Tail(todo[r]), Null)
    <3>1. Qty(balance) \in Int /\ Qty(balance) = balance
      BY <1>0, <2>2, <2>4, SeenType, QtyInt DEF Qty
    <3>2. Qty(balance) + (-line.quantity) \in Int /\ Qty(balance) + (-line.quantity) >= 0
      BY <2>2, <2>4, <3>1
    <3>3. NonNegative(table', draft')
      BY <1>0, <2>2, <2>4, <3>2, WriteNonNegative DEF Increment
    <3> QED BY <1>4, <2>4, <3>3, ArriveAtWrite, SameRows DEF SendBackLine, InReturn, ReturnKind, Covered, At,
          InCash, Cash
  <2> QED BY <1>4, <2>3, <2>4 DEF SendBackLine, line
<1>5. CASE CommitReturn(r)
  BY <1>5, EndNonNegative, ArriveAtWrite, SameRows, NotWriting DEF CommitReturn
<1>6. CASE ReceiveAdjustment(r)
  BY <1>6, ReceiveNonNegative DEF ReceiveAdjustment
<1>7. CASE ReadAdjusted(r)
  <2>1. CASE Commit(r)
    BY <2>1, EndNonNegative, ArriveAtWrite, SameRows, NotWriting
  <2>2. CASE Read(r, order[r].row, "write")
    BY <1>7, <2>2, ArriveAtWrite, SameRows DEF ReadAdjusted, InReturn, ReturnKind, Covered, At,
          InCash, Cash
  <2> QED BY <1>7, <2>1, <2>2 DEF ReadAdjusted
<1>8. CASE WriteAdjusted(r)
  <2>1. /\ order[r].row \in Row /\ order[r].actual \in Nat /\ Qty(seen[r]) \in Int
    BY <1>0, <1>8, OrderOf, StockFields, QtyInt DEF WriteAdjusted, SessionTypeOK, At
  <2>2. /\ order[r].actual - Qty(seen[r]) \in Int
        /\ Qty(seen[r]) + (order[r].actual - Qty(seen[r])) >= 0
    BY <2>1
  <2>3. NonNegative(table', draft')
    BY <1>8, <2>1, <2>2, WriteFromSeenNonNegative DEF WriteAdjusted
  <2> QED BY <1>8, <2>3, WrittenNeedsNoCover DEF WriteAdjusted
<1>9. CASE CommitAdjustment(r)
  BY <1>9, EndNonNegative, ArriveAtWrite, SameRows, NotWriting DEF CommitAdjustment
<1> QED BY <1>1, <1>2, <1>3, <1>4, <1>5, <1>6, <1>7, <1>8, <1>9 DEF ReturnStep

\* createSale, recordStockMovement and adjustStock never start.
LEMMA UnguardedNeverRun ==
  ASSUME Inv, GuardedOrders, NEW r \in Request
  PROVE  ~SaleStep(r) /\ ~InventoryStep(r)
<1>1. step[r] # "idle" => order[r].kind \notin {"SALE", "MOVEMENT", "COUNT"}
  BY OrderOf DEF Inv, GuardedOrders
<1>2. ~SaleStep(r)
  BY <1>1 DEF SaleStep, ReceiveSale, CheckStock, OpenSale, ReadSaleLine, WriteSaleLine,
     ChargeCustomer, CommitSale, At, GuardedOrders
<1>3. ~InventoryStep(r)
  BY <1>1 DEF InventoryStep, ReceiveMovement, ReceiveCount, CompareCount, ReadStock,
     WriteStock, LogMovement, InMovement, At, GuardedOrders
<1> QED BY <1>2, <1>3

\* As long as only guarded orders arrive, no interleaving, stale overwrite,
\* rollback or deadlock takes stock or a cashbox below zero.
THEOREM GuardedNeverNegative ==
  ASSUME GuardedOrders
  PROVE  Spec => []NeverNegative
<1>1. Init => NonNegativeInv
  BY GuardedOrders DEF GuardedOrders, Init, StoreInit, SessionInit, NonNegativeInv,
     NonNegative, Covered, At, InCash
<1>2. Inv /\ NonNegativeInv /\ [Next]_vars => NonNegativeInv'
  <2> SUFFICES ASSUME Inv, NonNegativeInv, [Next]_vars PROVE NonNegativeInv'
    OBVIOUS
  <2>1. ASSUME NEW x \in Request, SameSession(x) PROVE Covered(order'[x], step'[x], seen'[x])
    BY <2>1 DEF SameSession, NonNegativeInv, Covered, At, InCash, CashChange
  <2>2. ASSUME NEW r \in Request, Handler(r) PROVE NonNegativeInv'
    <3>1. NonNegative(table', draft') /\ Covered(order'[r], step'[r], seen'[r])
      BY <2>2, GuardedOrders, UnguardedNeverRun, PurchaseNonNegative,
         TransferNonNegative, VoucherNonNegative, ReturnNonNegative DEF Handler
    <3>2. ASSUME NEW x \in Request, x # r PROVE Covered(order'[x], step'[x], seen'[x])
      BY <2>1, <2>2, <3>2, HandlerFrame DEF Inv
    <3> QED BY <3>1, <3>2 DEF NonNegativeInv
  <2>3. ASSUME NEW r \in Request, RollbackRows(r), End(r, "interrupted")
        PROVE  NonNegativeInv'
    <3>1. NonNegative(table', draft')
      BY <2>3, EndNonNegative DEF Inv, StoreInv, NonNegativeInv
    <3>2. Covered(order'[r], step'[r], seen'[r])
      <4>1. step'[r] = "interrupted"
        BY <2>3, ArriveAtWrite DEF Inv
      <4>2. step'[r] \notin {"write", "writeSecond"}
        BY <4>1
      <4> QED BY <4>2, NotWriting
    <3>3. ASSUME NEW x \in Request, x # r PROVE Covered(order'[x], step'[x], seen'[x])
      BY <2>1, <2>3, <3>3, HelperFrame DEF Inv
    <3> QED BY <3>1, <3>2, <3>3 DEF NonNegativeInv
  <2>4. ASSUME UNCHANGED vars PROVE NonNegativeInv'
    BY <2>4 DEF vars, storeVars, sessionVars, NonNegativeInv, NonNegative, Covered,
       At, InCash, CashChange
  <2>5. ASSUME Next PROVE NonNegativeInv'
    BY <2>2, <2>3, <2>4, <2>5 DEF Next, Interruption, Interrupted, DeadlockVictim, AtRest
  <2> QED BY <2>4, <2>5
<1>3. NonNegativeInv => NeverNegative
  BY DEF NonNegativeInv, NonNegative, NeverNegative, GuardedRow
<1> QED BY <1>1, <1>2, <1>3, Invariance, PTL DEF Spec
=============================================================================
