---------------------------- MODULE LedgerProofs ----------------------------
(* What the handlers of Bookkeeping do to locks, to documents that are sent  *)
(* again, and to rows that no request overwrites.                           *)
EXTENDS SafetyProofs

-----------------------------------------------------------------------------
(* Locks. *)

\* A request may hold locks: its transaction is open.
Holding(r) ==
  /\ step[r] \in {"read", "write", "readSecond", "writeSecond", "commit"}
  /\ order[r].kind \notin {"MOVEMENT", "COUNT"}

LocksInv == \A row \in Row : holder[row] # Null => Holding(holder[row])

\* A step of r locks rows in an open transaction, or releases what r holds, or
\* is not in a transaction at all.
LockStep(r) ==
  \/ Holding(r)' /\ \A row \in Row : holder'[row] \in {holder[row], r}
  \/ \A row \in Row : holder'[row] # r /\ holder'[row] \in {holder[row], Null}
  \/ ~Holding(r) /\ UNCHANGED holder

\* The end of a transaction releases what r holds; a write locks one row.
LEMMA LockEffects ==
  ASSUME StoreTypeOK, NEW r \in Request
  PROVE  /\ Reject(r) \/ Commit(r) \/ RollbackRows(r) =>
              \A row \in Row : holder'[row] # r /\ holder'[row] \in {holder[row], Null}
         /\ \A row \in Row : \A balance, amount : Write(r, row, balance, amount) =>
              \A other \in Row : holder'[other] \in {holder[other], r}
         /\ UNCHANGED storeVars => UNCHANGED holder
<1>1. r # Null
  BY RowStoreAssumption
<1>2. CommitRows(r) \/ RollbackRows(r) =>
        \A row \in Row : holder'[row] # r /\ holder'[row] \in {holder[row], Null}
  BY <1>1 DEF CommitRows, RollbackRows, Unlock, Held, StoreTypeOK
<1>3. \A row \in Row : \A balance, amount : Write(r, row, balance, amount) =>
        \A other \in Row : holder'[other] \in {holder[other], r}
  BY DEF Write, StoreTypeOK
<1> QED BY <1>2, <1>3 DEF Reject, Commit, storeVars

\* The write of an absolute balance goes on in the transaction or rolls it back.
LEMMA WriteFromSeenLocks ==
  ASSUME Inv, NEW r \in Request, NEW row \in Row, NEW amount, NEW s, NEW lines,
         WriteFromSeen(r, row, amount, s, lines),
         s \in {"read", "write", "readSecond", "writeSecond", "commit"},
         order[r].kind \notin {"MOVEMENT", "COUNT"}
  PROVE  LockStep(r)
<1> USE DEF Inv, StoreInv
<1>1. CASE Reject(r)
  BY <1>1, LockEffects DEF LockStep
<1>2. CASE SetFromRead(r, row, seen[r], amount) /\ Goto(r, s, lines, Null)
  <2>1. Holding(r)'
    BY <1>2, ArriveAtWrite DEF Holding
  <2>2. \A other \in Row : holder'[other] \in {holder[other], r}
    BY <1>2, LockEffects DEF SetFromRead
  <2> QED BY <2>1, <2>2 DEF LockStep
<1> QED BY <1>1, <1>2 DEF WriteFromSeen

\* A statement that locks nothing, in a transaction that goes on.
LEMMA SameLocks ==
  ASSUME NEW r \in Request, UNCHANGED holder, Holding(r) => Holding(r)'
  PROVE  LockStep(r)
BY DEF LockStep

\* An increment goes on in the transaction.
LEMMA IncrementLocks ==
  ASSUME Inv, NEW r \in Request, NEW row \in Row, NEW amount, Increment(r, row, amount),
         Holding(r)'
  PROVE  LockStep(r)
BY LockEffects DEF LockStep, Increment, Inv, StoreInv

\* createSale and createPurchase hold locks from their first write to the end of
\* the transaction.
LEMMA TradeLocks ==
  ASSUME Inv, NEW r \in Request, SaleStep(r) \/ PurchaseStep(r)
  PROVE  LockStep(r)
<1> USE DEF Inv, StoreInv
<1>0. StockRow \subseteq Row
  BY DEF Row
<1>1. CASE ReceiveSale(r) \/ ReceivePurchase(r)
  BY <1>1, ArriveAtWrite DEF ReceiveSale, ReceivePurchase, LockStep, Holding, Receive, storeVars
<1>2. CASE CheckStock(r)
  BY <1>2, LockEffects DEF CheckStock, At, LockStep, Holding
<1>3. CASE OpenSale(r) \/ OpenPurchase(r)
  BY <1>3, LockEffects DEF OpenSale, OpenPurchase, InsertDocument, At, LockStep, Holding
<1>4. CASE ReadSaleLine(r) \/ ReadPurchaseLine(r)
  BY <1>4, ArriveAtWrite, SameLocks
     DEF ReadSaleLine, ReadPurchaseLine, At, Holding, storeVars
<1>5. CASE WriteSaleLine(r) \/ WritePurchaseLine(r)
  <2>1. order[r] \in Order /\ todo[r] \in Seq(Line) /\ todo[r] # <<>>
    BY <1>5, OrderOf DEF WriteSaleLine, WritePurchaseLine, At
  <2>2. Head(todo[r]).row \in Row
    BY <1>0, <2>1, HeadTail
  <2> QED BY <1>5, <2>2, WriteFromSeenLocks DEF WriteSaleLine, WritePurchaseLine, At
<1>6. CASE ChargeCustomer(r)
  <2>1. order[r] \in Order /\ order[r].kind = "SALE"
    BY <1>6, OrderOf DEF ChargeCustomer, At
  <2>2. Holding(r)'
    BY <1>6, <2>1, ArriveAtWrite DEF ChargeCustomer, Holding
  <2>3. ChargesCustomer(order[r]) => order[r].party \in Row
    BY <2>1, SaleFields DEF ChargesCustomer, Row
  <2> QED BY <1>6, <2>2, <2>3, IncrementLocks, SameLocks DEF ChargeCustomer, storeVars
<1>7. CASE CreditSupplier(r)
  <2>1. order[r] \in Order /\ order[r].kind = "PURCHASE"
    BY <1>7, OrderOf DEF CreditSupplier, At
  <2>2. Holding(r)'
    BY <1>7, <2>1, ArriveAtWrite DEF CreditSupplier, Holding
  <2>3. CreditsSupplier(order[r]) => order[r].party \in Row
    BY <2>1, PurchaseFields DEF CreditsSupplier, Row
  <2> QED BY <1>7, <2>2, <2>3, IncrementLocks, SameLocks DEF CreditSupplier, storeVars
<1>8. CASE CommitSale(r) \/ CommitPurchase(r)
  BY <1>8, LockEffects DEF CommitSale, CommitPurchase, LockStep
<1> QED BY <1>1, <1>2, <1>3, <1>4, <1>5, <1>6, <1>7, <1>8 DEF SaleStep, PurchaseStep

\* recordStockMovement and adjustStock never hold a lock.
LEMMA InventoryLocks ==
  ASSUME Inv, NEW r \in Request, InventoryStep(r)
  PROVE  LockStep(r)
<1> USE DEF Inv, StoreInv
<1>1. CASE ReceiveMovement(r) \/ ReceiveCount(r)
  BY <1>1 DEF ReceiveMovement, ReceiveCount, Receive, LockStep, Holding, storeVars
<1>2. CASE CompareCount(r) \/ ReadStock(r) \/ WriteStock(r) \/ LogMovement(r)
  <2>1. order[r].kind \in {"MOVEMENT", "COUNT"}
    BY <1>2 DEF CompareCount, ReadStock, WriteStock, LogMovement, InMovement, At
  <2>2. UNCHANGED holder \/ Reject(r)
    BY <1>2 DEF CompareCount, ReadStock, WriteStock, LogMovement, Read, Autocommit,
       InsertMovement, storeVars
  <2> QED BY <2>1, <2>2, LockEffects DEF LockStep, Holding
<1> QED BY <1>1, <1>2 DEF InventoryStep

\* transferStock locks its two rows between its two reads and the end.
LEMMA TransferLocks ==
  ASSUME Inv, NEW r \in Request, TransferStep(r)
  PROVE  LockStep(r)
<1> USE DEF Inv, StoreInv
<1>1. CASE ReceiveTransfer(r)
  BY <1>1 DEF ReceiveTransfer, Receive, LockStep, Holding, storeVars
<1>2. ASSUME NEW s, At(r, "TRANSFER", s), s # "idle"
      PROVE  Source(order[r]) \in Row /\ Target(order[r]) \in Row
  BY <1>2, OrderOf, TransferFields DEF At, Row
<1>3. CASE ReadSource(r) \/ ReadTarget(r)
  BY <1>3, LockEffects, ArriveAtWrite, SameLocks
     DEF ReadSource, ReadTarget, At, Holding, LockStep, storeVars
<1>4. CASE WriteSource(r)
  BY <1>2, <1>4, WriteFromSeenLocks DEF WriteSource, At
<1>5. CASE WriteTarget(r)
  BY <1>2, <1>5, WriteFromSeenLocks DEF WriteTarget, At
<1>6. CASE CommitTransfer(r)
  BY <1>6, LockEffects DEF CommitTransfer, LockStep
<1> QED BY <1>1, <1>3, <1>4, <1>5, <1>6 DEF TransferStep

\* So do vouchers and expenses with the cashbox and the party.
LEMMA VoucherLocks ==
  ASSUME Inv, NEW r \in Request, VoucherStep(r)
  PROVE  LockStep(r)
<1> USE DEF Inv, StoreInv
<1>1. CASE ReceiveCash(r)
  BY <1>1 DEF ReceiveCash, Receive, LockStep, Holding, storeVars
<1>2. ASSUME NEW s, InCash(r, s), s # "idle"
      PROVE  order[r].cashbox \in Row /\ order[r].kind \in Cash
  BY <1>2, OrderOf, CashFields DEF InCash, At, Row
<1>3. CASE ReadCashbox(r)
  BY <1>2, <1>3, LockEffects, ArriveAtWrite, SameLocks
     DEF ReadCashbox, InCash, At, Cash, Holding, LockStep, storeVars
<1>4. CASE WriteCashbox(r)
  BY <1>2, <1>4, WriteFromSeenLocks DEF WriteCashbox, Cash
<1>5. CASE ReadParty(r)
  BY <1>5, LockEffects, ArriveAtWrite, SameLocks
     DEF ReadParty, At, Holding, LockStep, storeVars
<1>6. CASE WriteParty(r)
  <2>1. order[r].party \in Row
    BY <1>6, OrderOf, CashFields DEF WriteParty, At, Row, Cash
  <2> QED BY <1>6, <2>1, WriteFromSeenLocks DEF WriteParty, At
<1>7. CASE CommitCash(r)
  BY <1>7, LockEffects DEF CommitCash, LockStep
<1> QED BY <1>1, <1>3, <1>4, <1>5, <1>6, <1>7 DEF VoucherStep

\* And returns and adjustments.
LEMMA ReturnLocks ==
  ASSUME Inv, NEW r \in Request, ReturnStep(r)
  PROVE  LockStep(r)
<1> USE DEF Inv, StoreInv
<1>0. StockRow \subseteq Row
  BY DEF Row
<1>1. CASE ReceiveReturn(r) \/ ReceiveAdjustment(r)
  BY <1>1 DEF ReceiveReturn, ReceiveAdjustment, Receive, LockStep, Holding, storeVars
<1>2. CASE CheckReturn(r)
  BY <1>2, LockEffects DEF CheckReturn, InReturn, At, ReturnKind, LockStep, Holding, storeVars
<1>3. CASE TakeBackLine(r) \/ SendBackLine(r)
  <2>1. todo[r] \in Seq(Line) /\ todo[r] # <<>>
    BY <1>3, OrderOf DEF TakeBackLine, SendBackLine, At
  <2>2. Head(todo[r]).row \in Row
    BY <1>0, <2>1, HeadTail
  <2>3. CASE Reject(r)
    BY <2>3, LockEffects DEF LockStep
  <2>4. CASE /\ \E amount : Increment(r, Head(todo[r]).row, amount)
             /\ Goto(r, "write", Tail(todo[r]), Null)
    <3>1. Holding(r)'
      BY <1>3, <2>4, ArriveAtWrite DEF TakeBackLine, SendBackLine, At, Holding
    <3> QED BY <2>2, <2>4, <3>1, IncrementLocks
  <2> QED BY <1>3, <2>3, <2>4 DEF TakeBackLine, SendBackLine
<1>4. CASE ReadAdjusted(r)
  BY <1>4, LockEffects, ArriveAtWrite, SameLocks
     DEF ReadAdjusted, At, Holding, LockStep, storeVars
<1>5. CASE WriteAdjusted(r)
  <2>1. order[r].row \in Row
    BY <1>0, <1>5, OrderOf, StockFields DEF WriteAdjusted, At
  <2> QED BY <1>5, <2>1, WriteFromSeenLocks DEF WriteAdjusted, At
<1>6. CASE CommitReturn(r) \/ CommitAdjustment(r)
  BY <1>6, LockEffects DEF CommitReturn, CommitAdjustment, LockStep
<1> QED BY <1>1, <1>2, <1>3, <1>4, <1>5, <1>6 DEF ReturnStep

\* A row is locked by an open transaction only.
LEMMA LocksInvariance == Spec => []LocksInv
<1>1. Init => LocksInv
  BY DEF Init, StoreInit, LocksInv
<1>2. Inv /\ LocksInv /\ [Next]_vars => LocksInv'
  <2> SUFFICES ASSUME Inv, LocksInv, [Next]_vars PROVE LocksInv'
    OBVIOUS
  <2>0. \A row \in Row : holder[row] \in Request \cup {Null}
    BY DEF Inv, StoreInv, StoreTypeOK
  <2>1. ASSUME NEW r \in Request, LockStep(r), \A x \in Request \ {r} : SameSession(x)
        PROVE  LocksInv'
    <3> SUFFICES ASSUME NEW row \in Row, holder'[row] # Null
                 PROVE  /\ step'[holder'[row]] \in {"read", "write", "readSecond", "writeSecond", "commit"}
                        /\ order'[holder'[row]].kind \notin {"MOVEMENT", "COUNT"}
      BY DEF LocksInv, Holding
    <3>1. CASE holder'[row] = r /\ Holding(r)'
      BY <3>1 DEF Holding
    <3>2. CASE holder'[row] = holder[row] /\ holder[row] # r
      BY <2>0, <2>1, <3>2 DEF LocksInv, Holding, SameSession
    <3>3. ~Holding(r) => holder[row] # r
      BY RowStoreAssumption DEF LocksInv
    <3> QED BY <2>1, <3>1, <3>2, <3>3 DEF LockStep
  <2>2. ASSUME NEW r \in Request, Handler(r) PROVE LocksInv'
    <3>1. LockStep(r)
      BY <2>2, TradeLocks, InventoryLocks, TransferLocks, VoucherLocks, ReturnLocks
         DEF Handler
    <3> QED BY <2>1, <2>2, <3>1, HandlerFrame DEF Inv
  <2>3. ASSUME NEW r \in Request, RollbackRows(r), End(r, "interrupted")
        PROVE  LocksInv'
    <3>1. LockStep(r)
      BY <2>3, LockEffects DEF LockStep, Inv, StoreInv
    <3> QED BY <2>1, <2>3, <3>1, HelperFrame DEF Inv
  <2>4. ASSUME UNCHANGED vars PROVE LocksInv'
    BY <2>4 DEF vars, storeVars, sessionVars, LocksInv, Holding
  <2>5. ASSUME Next PROVE LocksInv'
    BY <2>2, <2>3, <2>4, <2>5 DEF Next, Interruption, Interrupted, DeadlockVictim, AtRest
  <2> QED BY <2>4, <2>5
<1> QED BY <1>1, <1>2, Invariance, PTL DEF Spec

-----------------------------------------------------------------------------
(* Documents that are sent again. *)

\* The document of r is in its table, in an open transaction or committed.
Inserted(r) ==
  /\ step[r] \in {"read", "write", "commit", "done"}
  /\ order[r].kind \in {"SALE", "PURCHASE"}

InsertedOnce ==
  \A q, r \in Request : SameDocument(q, r) => ~(Inserted(q) /\ Inserted(r))

\* A document that is in its table after a step of r was there before, or no
\* other with its id was.
InsertStep(r) ==
  Inserted(r)' => /\ step[r] # "idle" /\ order'[r] = order[r]
                  /\ \/ Inserted(r)
                     \/ \A q \in Request : SameDocument(q, r) => ~Inserted(q)

\* A request that ends keeps its DTO.
LEMMA EndKeepsOrder ==
  ASSUME NEW r \in Request, Reject(r) \/ Commit(r)
  PROVE  order' = order
BY DEF Reject, Commit, End

\* A DTO arrives once.
LEMMA Arrival ==
  ASSUME SessionTypeOK, NEW r \in Request, NEW o, NEW s, NEW lines, Receive(r, o, s, lines)
  PROVE  step[r] = "idle" /\ step'[r] = s /\ order'[r] = o
BY DEF Receive, SessionTypeOK

\* The unique key, and the wait for the transaction that inserted it first.
LEMMA InsertDocumentOnce ==
  ASSUME Inv, NEW r \in Request, step[r] # "idle", InsertDocument(r)
  PROVE  InsertStep(r)
<1>1. CASE Reject(r)
  BY <1>1, ArriveAtWrite DEF InsertStep, Inserted, Inv
<1>2. CASE /\ ~\E q \in Request : SameDocument(q, r) /\ step[q] = "done"
           /\ Goto(r, "read", order[r].lines, Null)
  <2>1. \A q \in Request : SameDocument(q, r) => ~Inserted(q)
    BY <1>2 DEF InsertDocument, Inserted
  <2>2. order'[r] = order[r]
    BY <1>2, ArriveAtWrite DEF Inv
  <2> QED BY <2>1, <2>2 DEF InsertStep
<1> QED BY <1>1, <1>2 DEF InsertDocument

\* Only OpenSale and OpenPurchase insert a document.
LEMMA TradeInserts ==
  ASSUME Inv, NEW r \in Request, SaleStep(r) \/ PurchaseStep(r)
  PROVE  InsertStep(r)
<1> USE DEF Inv
<1>1. CASE ReceiveSale(r) \/ ReceivePurchase(r) \/ CheckStock(r)
  BY <1>1, ArriveAtWrite DEF ReceiveSale, ReceivePurchase, CheckStock, InsertStep, Inserted
<1>2. CASE OpenSale(r) \/ OpenPurchase(r)
  BY <1>2, InsertDocumentOnce DEF OpenSale, OpenPurchase, At
<1>3. CASE \/ ReadSaleLine(r) \/ WriteSaleLine(r) \/ ChargeCustomer(r) \/ CommitSale(r)
           \/ ReadPurchaseLine(r) \/ WritePurchaseLine(r) \/ CreditSupplier(r)
           \/ CommitPurchase(r)
  <2>1. step[r] # "idle" /\ Inserted(r)
    BY <1>3 DEF ReadSaleLine, WriteSaleLine, ChargeCustomer, CommitSale, ReadPurchaseLine,
       WritePurchaseLine, CreditSupplier, CommitPurchase, At, Inserted
  <2>2. order'[r] = order[r]
    BY <1>3, ArriveAtWrite, EndKeepsOrder DEF ReadSaleLine, WriteSaleLine, ChargeCustomer, CommitSale,
       ReadPurchaseLine, WritePurchaseLine, CreditSupplier, CommitPurchase
  <2> QED BY <2>1, <2>2 DEF InsertStep
<1> QED BY <1>1, <1>2, <1>3 DEF SaleStep, PurchaseStep

\* A step of another service leaves its request with a DTO of that service, the
\* one it had if it had one.
LEMMA OtherOrders ==
  ASSUME Inv, NEW r \in Request,
         InventoryStep(r) \/ TransferStep(r) \/ VoucherStep(r) \/ ReturnStep(r)
  PROVE  /\ order'[r].kind \notin {"SALE", "PURCHASE"}
         /\ step'[r] # "idle"
         /\ step[r] # "idle" => order'[r] = order[r]
<1> USE DEF Inv
<1>1. CASE InventoryStep(r)
  <2>1. CASE ReceiveMovement(r)
    BY <2>1 DEF ReceiveMovement, SessionTypeOK
  <2>2. CASE ReceiveCount(r)
    BY <2>2, Arrival DEF ReceiveCount
  <2>3. CASE CompareCount(r) \/ ReadStock(r) \/ WriteStock(r) \/ LogMovement(r)
    <3>1. order[r].kind \notin {"SALE", "PURCHASE"}
      BY <2>3 DEF CompareCount, ReadStock, WriteStock, LogMovement, InMovement, At
    <3>2. order'[r] = order[r]
      BY <2>3, ArriveAtWrite, EndKeepsOrder
         DEF CompareCount, ReadStock, WriteStock, LogMovement, End
    <3>3. step'[r] # "idle"
      BY <2>3, ArriveAtWrite
         DEF CompareCount, ReadStock, WriteStock, LogMovement, SessionTypeOK
    <3> QED BY <3>1, <3>2, <3>3
  <2> QED BY <1>1, <2>1, <2>2, <2>3 DEF InventoryStep
<1>2. CASE TransferStep(r)
  <2>1. CASE ReceiveTransfer(r)
    BY <2>1, Arrival DEF ReceiveTransfer
  <2>2. CASE ReadSource(r) \/ ReadTarget(r) \/ WriteSource(r) \/ WriteTarget(r) \/ CommitTransfer(r)
    <3>1. order[r].kind = "TRANSFER"
      BY <2>2 DEF ReadSource, ReadTarget, WriteSource, WriteTarget, CommitTransfer, At
    <3>2. order'[r] = order[r]
      BY <2>2, ArriveAtWrite, EndKeepsOrder
         DEF ReadSource, ReadTarget, WriteSource, WriteTarget, CommitTransfer
    <3>3. step'[r] # "idle"
      BY <2>2, ArriveAtWrite
         DEF ReadSource, ReadTarget, WriteSource, WriteTarget, CommitTransfer
    <3> QED BY <3>1, <3>2, <3>3
  <2> QED BY <1>2, <2>1, <2>2 DEF TransferStep
<1>3. CASE VoucherStep(r)
  <2>1. CASE ReceiveCash(r)
    BY <2>1, Arrival DEF ReceiveCash, Cash
  <2>2. CASE ReadCashbox(r) \/ WriteCashbox(r) \/ ReadParty(r) \/ WriteParty(r) \/ CommitCash(r)
    <3>1. order[r].kind \in Cash
      BY <2>2 DEF ReadCashbox, WriteCashbox, ReadParty, WriteParty, CommitCash, InCash, At, Cash
    <3>2. order'[r] = order[r]
      BY <2>2, ArriveAtWrite, EndKeepsOrder
         DEF ReadCashbox, WriteCashbox, ReadParty, WriteParty, CommitCash
    <3>3. step'[r] # "idle"
      BY <2>2, ArriveAtWrite
         DEF ReadCashbox, WriteCashbox, ReadParty, WriteParty, CommitCash
    <3> QED BY <3>1, <3>2, <3>3 DEF Cash
  <2> QED BY <1>3, <2>1, <2>2 DEF VoucherStep
<1>4. CASE ReturnStep(r)
  <2>1. CASE ReceiveReturn(r) \/ ReceiveAdjustment(r)
    BY <2>1, Arrival DEF ReceiveReturn, ReceiveAdjustment, ReturnKind
  <2>2. CASE \/ CheckReturn(r) \/ TakeBackLine(r) \/ SendBackLine(r) \/ CommitReturn(r)
             \/ ReadAdjusted(r) \/ WriteAdjusted(r) \/ CommitAdjustment(r)
    <3>1. order[r].kind \in ReturnKind \cup {"ADJUSTMENT"}
      BY <2>2 DEF CheckReturn, TakeBackLine, SendBackLine, CommitReturn, ReadAdjusted,
         WriteAdjusted, CommitAdjustment, InReturn, At, ReturnKind
    <3>2. order'[r] = order[r]
      BY <2>2, ArriveAtWrite, EndKeepsOrder DEF CheckReturn, TakeBackLine, SendBackLine,
         CommitReturn, ReadAdjusted, WriteAdjusted, CommitAdjustment
    <3>3. step'[r] # "idle"
      BY <2>2, ArriveAtWrite DEF CheckReturn, TakeBackLine, SendBackLine,
         CommitReturn, ReadAdjusted, WriteAdjusted, CommitAdjustment, SessionTypeOK
    <3> QED BY <3>1, <3>2, <3>3 DEF ReturnKind
  <2> QED BY <1>4, <2>1, <2>2 DEF ReturnStep
<1> QED BY <1>1, <1>2, <1>3, <1>4

\* A sale or a purchase that is sent again under its id is never recorded twice,
\* at whatever step the first and the second request meet.
THEOREM ResentOnce == Spec => []ResentIsRecordedOnce
<1>1. Init => InsertedOnce
  BY DEF Init, SessionInit, InsertedOnce, Inserted
<1>2. Inv /\ InsertedOnce /\ [Next]_vars => InsertedOnce'
  <2> SUFFICES ASSUME Inv, InsertedOnce, [Next]_vars PROVE InsertedOnce'
    OBVIOUS
  <2>1. ASSUME NEW r \in Request, InsertStep(r), \A x \in Request \ {r} : SameSession(x)
        PROVE  InsertedOnce'
    <3> SUFFICES ASSUME NEW x \in Request, SameDocument(x, r)', Inserted(x)', Inserted(r)'
                 PROVE  FALSE
      BY <2>1 DEF InsertedOnce, SameDocument, Inserted, SameSession
    <3>1. SameSession(x)
      BY <2>1 DEF SameDocument
    <3>2. Inserted(x) /\ SameDocument(x, r) /\ SameDocument(r, x)
      BY <2>1, <3>1 DEF SameSession, SameDocument, Inserted, InsertStep
    <3> QED BY <2>1, <3>2 DEF InsertStep, InsertedOnce
  <2>2. ASSUME NEW r \in Request, Handler(r) PROVE InsertedOnce'
    <3>1. InsertStep(r)
      BY <2>2, TradeInserts, OtherOrders DEF Handler, InsertStep, Inserted
    <3> QED BY <2>1, <2>2, <3>1, HandlerFrame DEF Inv
  <2>3. ASSUME NEW r \in Request, End(r, "interrupted")
        PROVE  InsertedOnce'
    <3>1. InsertStep(r)
      BY <2>3 DEF InsertStep, Inserted, End, Inv, SessionTypeOK
    <3> QED BY <2>1, <2>3, <3>1, HelperFrame DEF Inv
  <2>4. ASSUME UNCHANGED vars PROVE InsertedOnce'
    BY <2>4 DEF vars, sessionVars, InsertedOnce, SameDocument, Inserted
  <2>5. ASSUME Next PROVE InsertedOnce'
    BY <2>2, <2>3, <2>4, <2>5 DEF Next, Interruption, Interrupted, DeadlockVictim, AtRest
  <2> QED BY <2>4, <2>5
<1>3. InsertedOnce => ResentIsRecordedOnce
  BY DEF InsertedOnce, Inserted, SameDocument, ResentIsRecordedOnce
<1> QED BY <1>1, <1>2, <1>3, Invariance, PTL DEF Spec

-----------------------------------------------------------------------------
(* Rows that no request overwrites. *)

\* The rows that the request overwrites, in the whole course of its handler.
Touched(r) == {row \in Row : step[r] # "idle" /\ Overwrites(order[r], row)}

\* What the loops of createSale and createPurchase have still to visit are lines
\* of the DTO.
LoopLines(r) ==
  step[r] # "idle" /\ order[r].kind \in {"SALE", "PURCHASE"} =>
    \A i \in DOMAIN todo[r] : Overwrites(order[r], todo[r][i].row)

ExactInv ==
  /\ \A row \in tainted \cup stale : Overwritten(row)
  /\ \A row \in Row : owed[row] # 0 => Overwritten(row)
  /\ \A r \in Request : LoopLines(r)

\* A step that marks no row as stale, and owes no movement, outside `rows`.
Confined(rows) ==
  /\ tainted' \cup stale' \subseteq tainted \cup stale \cup rows
  /\ \A row \in Row \ rows : owed'[row] = owed[row]

ExactStep(r) ==
  /\ step'[r] # "idle"
  /\ step[r] # "idle" => order'[r] = order[r]
  /\ Confined(Touched(r))
  /\ LoopLines(r)'

\* What the statements do to the marks.
LEMMA ConfinedStatements ==
  ASSUME StoreTypeOK, NEW r \in Request, NEW rows
  PROVE  /\ Reject(r) \/ Commit(r) \/ RollbackRows(r) => Confined(rows)
         /\ \A row, amount : Increment(r, row, amount) => Confined(rows)
         /\ UNCHANGED storeVars => Confined(rows)
         /\ \A row \in rows : \A old, amount : SetFromRead(r, row, old, amount) => Confined(rows)
         /\ \A row \in rows : \A old, amount : Autocommit(r, row, old, amount) => Confined(rows)
         /\ \A row \in rows : \A amount : InsertMovement(row, amount) => Confined(rows)
<1>1. CommitRows(r) \/ RollbackRows(r) => Confined(rows)
  BY DEF CommitRows, RollbackRows, Unlock, Confined
<1>2. \A row, amount : Increment(r, row, amount) => Confined(rows)
  BY DEF Increment, Write, Confined
<1>3. UNCHANGED storeVars => Confined(rows)
  BY DEF storeVars, Confined
<1>4. \A row \in rows : \A old, amount : SetFromRead(r, row, old, amount) => Confined(rows)
  BY DEF SetFromRead, Write, Confined
<1>5. \A row \in rows : \A old, amount : Autocommit(r, row, old, amount) => Confined(rows)
  BY DEF Autocommit, Confined, StoreTypeOK
<1>6. \A row \in rows : \A amount : InsertMovement(row, amount) => Confined(rows)
  BY DEF InsertMovement, Confined, StoreTypeOK
<1> QED BY <1>1, <1>2, <1>3, <1>4, <1>5, <1>6 DEF Reject, Commit

\* The write of an absolute balance marks its own row at most.
LEMMA ConfinedWrite ==
  ASSUME Inv, NEW r \in Request, NEW row, row \in Touched(r), NEW amount, NEW s, NEW lines,
         WriteFromSeen(r, row, amount, s, lines)
  PROVE  Confined(Touched(r))
BY ConfinedStatements DEF WriteFromSeen, Inv, StoreInv

\* The lines that are left, once the first has been visited.
LEMMA FewerLines ==
  ASSUME NEW lines \in Seq(Line), lines # <<>>, NEW o,
         \A i \in DOMAIN lines : Overwrites(o, lines[i].row)
  PROVE  /\ \A i \in DOMAIN Tail(lines) : Overwrites(o, Tail(lines)[i].row)
         /\ Overwrites(o, Head(lines).row)
<1> DEFINE P(row) == Overwrites(o, row)
<1> HIDE DEF P
<1>1. \A i \in DOMAIN lines : P(lines[i].row)
  BY DEF P
<1>2. \A i \in DOMAIN Tail(lines) : P(Tail(lines)[i].row)
  BY <1>1
<1>3. P(Head(lines).row)
  BY <1>1
<1> QED BY <1>2, <1>3 DEF P

\* createSale and createPurchase overwrite the rows of their lines only.
LEMMA TradeExact ==
  ASSUME Inv, ExactInv, NEW r \in Request, SaleStep(r) \/ PurchaseStep(r)
  PROVE  ExactStep(r)
<1> USE DEF Inv, StoreInv
<1>0. StockRow \subseteq Row
  BY DEF Row
<1>1. CASE ReceiveSale(r)
  <2>1. PICK o \in Order : o.kind = "SALE" /\ Receive(r, o, "check", o.lines)
    BY <1>1 DEF ReceiveSale
  <2>2. order'[r] = o /\ todo'[r] = o.lines /\ step[r] = "idle" /\ step'[r] = "check"
    BY <2>1 DEF Receive, SessionTypeOK
  <2>3. LoopLines(r)'
    BY <2>1, <2>2 DEF LoopLines, Overwrites
  <2> QED BY <2>1, <2>2, <2>3, ConfinedStatements DEF Receive, ExactStep
<1>2. CASE ReceivePurchase(r)
  <2>1. todo'[r] = <<>> /\ step[r] = "idle" /\ step'[r] = "check" /\ UNCHANGED storeVars
    BY <1>2 DEF ReceivePurchase, Receive, SessionTypeOK
  <2> QED BY <2>1, ConfinedStatements DEF ExactStep, LoopLines
<1>3. ASSUME step[r] # "idle", order[r].kind \in {"SALE", "PURCHASE"}, todo[r] # <<>>
      PROVE  /\ Head(todo[r]).row \in Touched(r)
             /\ \A i \in DOMAIN Tail(todo[r]) : Overwrites(order[r], Tail(todo[r])[i].row)
  <2>1. todo[r] \in Seq(Line) /\ Head(todo[r]).row \in Row
    BY <1>0, <1>3, OrderOf, HeadTail
  <2> QED BY <1>3, <2>1, FewerLines DEF ExactInv, LoopLines, Touched
<1>4. ASSUME Reject(r) \/ Commit(r), step[r] # "idle"
      PROVE  ExactStep(r)
  <2>1. todo'[r] = <<>> /\ order'[r] = order[r] /\ step'[r] # "idle"
    BY <1>4 DEF Reject, Commit, End, SessionTypeOK
  <2> QED BY <1>4, <2>1, ConfinedStatements DEF ExactStep, LoopLines
<1>5. CASE CheckStock(r)
  <2>1. CASE Goto(r, "check", Tail(todo[r]), Null) /\ UNCHANGED storeVars
    <3>1. todo'[r] = Tail(todo[r]) /\ order'[r] = order[r] /\ step'[r] = "check"
      BY <2>1 DEF Goto, SessionTypeOK
    <3> QED BY <1>3, <1>5, <2>1, <3>1, ConfinedStatements DEF CheckStock, At, ExactStep, LoopLines
  <2> QED BY <1>4, <1>5, <2>1 DEF CheckStock, At
<1>6. CASE OpenSale(r) \/ OpenPurchase(r)
  <2>1. CASE Goto(r, "read", order[r].lines, Null) /\ UNCHANGED storeVars
    <3>1. todo'[r] = order[r].lines /\ order'[r] = order[r] /\ step'[r] = "read"
      BY <2>1 DEF Goto, SessionTypeOK
    <3>2. LoopLines(r)'
      BY <1>6, <3>1 DEF LoopLines, Overwrites, OpenSale, OpenPurchase, At
    <3> QED BY <1>6, <2>1, <3>1, <3>2, ConfinedStatements DEF ExactStep
  <2> QED BY <1>4, <1>6, <2>1 DEF OpenSale, OpenPurchase, InsertDocument, At
<1>7. CASE ReadSaleLine(r) \/ ReadPurchaseLine(r)
  <2>1. todo'[r] = todo[r] /\ order'[r] = order[r] /\ step'[r] = "write" /\ UNCHANGED storeVars
    BY <1>7 DEF ReadSaleLine, ReadPurchaseLine, Read, Goto, SessionTypeOK
  <2> QED BY <1>7, <2>1, ConfinedStatements
      DEF ReadSaleLine, ReadPurchaseLine, At, ExactStep, LoopLines, ExactInv
<1>8. CASE WriteSaleLine(r) \/ WritePurchaseLine(r)
  <2>1. PICK amount :
          WriteFromSeen(r, Head(todo[r]).row, amount, "read", Tail(todo[r]))
    BY <1>8 DEF WriteSaleLine, WritePurchaseLine
  <2>2. /\ step[r] = "write" /\ order[r].kind \in {"SALE", "PURCHASE"} /\ todo[r] # <<>>
    BY <1>8 DEF WriteSaleLine, WritePurchaseLine, At
  <2>3. CASE Reject(r)
    BY <1>4, <2>2, <2>3
  <2>4. CASE Goto(r, "read", Tail(todo[r]), Null)
    <3>1. todo'[r] = Tail(todo[r]) /\ order'[r] = order[r] /\ step'[r] = "read"
      BY <2>4 DEF Goto, SessionTypeOK
    <3>2. Confined(Touched(r))
      BY <1>3, <2>1, <2>2, ConfinedWrite
    <3> QED BY <1>3, <2>2, <3>1, <3>2 DEF ExactStep, LoopLines
  <2> QED BY <2>1, <2>3, <2>4 DEF WriteFromSeen
<1>9. CASE ChargeCustomer(r) \/ CreditSupplier(r)
  <2>1. todo'[r] = <<>> /\ order'[r] = order[r] /\ step'[r] = "commit"
    BY <1>9 DEF ChargeCustomer, CreditSupplier, Goto, SessionTypeOK
  <2>2. Confined(Touched(r))
    BY <1>9, ConfinedStatements DEF ChargeCustomer, CreditSupplier
  <2> QED BY <2>1, <2>2 DEF ExactStep, LoopLines
<1>10. CASE CommitSale(r) \/ CommitPurchase(r)
  BY <1>4, <1>10 DEF CommitSale, CommitPurchase, At
<1> QED BY <1>1, <1>2, <1>5, <1>6, <1>7, <1>8, <1>9, <1>10 DEF SaleStep, PurchaseStep

\* So do the other services, with the rows their statements name.
LEMMA OtherExact ==
  ASSUME Inv, NEW r \in Request,
         InventoryStep(r) \/ TransferStep(r) \/ VoucherStep(r) \/ ReturnStep(r)
  PROVE  ExactStep(r)
<1> USE DEF Inv, StoreInv
<1> SUFFICES Confined(Touched(r))
  BY OtherOrders DEF ExactStep, LoopLines
<1>0. StockRow \subseteq Row
  BY DEF Row
<1>1. CASE InventoryStep(r)
  <2>1. ASSUME NEW s, InMovement(r, s), s # "idle"
        PROVE  order[r].row \in Touched(r)
    BY <1>0, <2>1, OrderOf, StockFields DEF InMovement, At, Touched, Overwrites
  <2>2. CASE ReceiveMovement(r) \/ ReceiveCount(r) \/ CompareCount(r) \/ ReadStock(r)
    BY <2>2, ConfinedStatements DEF ReceiveMovement, ReceiveCount, CompareCount, ReadStock,
       Receive, Read
  <2>3. CASE WriteStock(r)
    BY <2>1, <2>3, ConfinedStatements DEF WriteStock
  <2>4. CASE LogMovement(r)
    BY <2>1, <2>4, ConfinedStatements DEF LogMovement
  <2> QED BY <1>1, <2>2, <2>3, <2>4 DEF InventoryStep
<1>2. CASE TransferStep(r)
  <2>1. ASSUME NEW s, At(r, "TRANSFER", s), s # "idle"
        PROVE  Source(order[r]) \in Touched(r) /\ Target(order[r]) \in Touched(r)
    BY <2>1, OrderOf, TransferFields DEF At, Row, Touched, Overwrites
  <2>2. CASE ReceiveTransfer(r) \/ ReadSource(r) \/ ReadTarget(r) \/ CommitTransfer(r)
    BY <2>2, ConfinedStatements DEF ReceiveTransfer, ReadSource, ReadTarget, CommitTransfer,
       Receive, Read
  <2>3. CASE WriteSource(r) \/ WriteTarget(r)
    BY <2>1, <2>3, ConfinedWrite DEF WriteSource, WriteTarget
  <2> QED BY <1>2, <2>2, <2>3 DEF TransferStep
<1>3. CASE VoucherStep(r)
  <2>1. ASSUME NEW s, InCash(r, s), s # "idle"
        PROVE  order[r].cashbox \in Touched(r)
    BY <2>1, OrderOf, CashFields DEF InCash, At, Row, Cash, Touched, Overwrites
  <2>2. CASE ReceiveCash(r) \/ ReadCashbox(r) \/ ReadParty(r) \/ CommitCash(r)
    BY <2>2, ConfinedStatements DEF ReceiveCash, ReadCashbox, ReadParty, CommitCash,
       Receive, Read
  <2>3. CASE WriteCashbox(r)
    BY <2>1, <2>3, ConfinedWrite DEF WriteCashbox
  <2>4. CASE WriteParty(r)
    <3>1. order[r].party \in Touched(r)
      BY <2>4, OrderOf, CashFields DEF WriteParty, At, Row, Cash, Touched, Overwrites
    <3> QED BY <2>4, <3>1, ConfinedWrite DEF WriteParty
  <2> QED BY <1>3, <2>2, <2>3, <2>4 DEF VoucherStep
<1>4. CASE ReturnStep(r)
  <2>1. CASE \/ ReceiveReturn(r) \/ CheckReturn(r) \/ TakeBackLine(r) \/ SendBackLine(r)
             \/ CommitReturn(r) \/ ReceiveAdjustment(r) \/ ReadAdjusted(r) \/ CommitAdjustment(r)
    BY <2>1, ConfinedStatements DEF ReceiveReturn, CheckReturn, TakeBackLine, SendBackLine,
       CommitReturn, ReceiveAdjustment, ReadAdjusted, CommitAdjustment, Receive, Read
  <2>2. CASE WriteAdjusted(r)
    <3>1. order[r].row \in Touched(r)
      BY <1>0, <2>2, OrderOf, StockFields DEF WriteAdjusted, At, Touched, Overwrites
    <3> QED BY <2>2, <3>1, ConfinedWrite DEF WriteAdjusted
  <2> QED BY <1>4, <2>1, <2>2 DEF ReturnStep
<1> QED BY <1>1, <1>2, <1>3, <1>4

\* Increments and decrements never make a balance drift from its movements,
\* however many requests meet on the row and however they end; it takes a request
\* that sets the row to a value computed from an earlier read.
THEOREM IncrementsStayExact == Spec => []ExactWithoutOverwriters
<1>1. Init => ExactInv
  BY DEF Init, StoreInit, SessionInit, ExactInv, LoopLines
<1>2. Inv /\ ExactInv /\ [Next]_vars => ExactInv'
  <2> SUFFICES ASSUME Inv, ExactInv, [Next]_vars PROVE ExactInv'
    OBVIOUS
  <2>1. ASSUME NEW r \in Request, ExactStep(r), \A x \in Request \ {r} : SameSession(x)
        PROVE  ExactInv'
    <3>1. \A row : Overwritten(row) => Overwritten(row)'
      BY <2>1 DEF Overwritten, Overwrites, SameSession, ExactStep
    <3>2. \A row \in Touched(r) : Overwritten(row)
      BY DEF Touched, Overwritten
    <3>3. \A row \in tainted' \cup stale' : Overwritten(row)'
      BY <2>1, <3>1, <3>2 DEF ExactInv, ExactStep, Confined
    <3>4. \A row \in Row : owed'[row] # 0 => Overwritten(row)'
      BY <2>1, <3>1, <3>2 DEF ExactInv, ExactStep, Confined
    <3>5. \A x \in Request : LoopLines(x)'
      BY <2>1 DEF ExactInv, ExactStep, LoopLines, SameSession
    <3> QED BY <3>3, <3>4, <3>5 DEF ExactInv
  <2>2. ASSUME NEW r \in Request, Handler(r) PROVE ExactInv'
    <3>1. ExactStep(r)
      BY <2>2, TradeExact, OtherExact DEF Handler
    <3> QED BY <2>1, <2>2, <3>1, HandlerFrame DEF Inv
  <2>3. ASSUME NEW r \in Request, RollbackRows(r), End(r, "interrupted")
        PROVE  ExactInv'
    <3>1. ExactStep(r)
      BY <2>3, ConfinedStatements DEF ExactStep, LoopLines, End, Inv, StoreInv, SessionTypeOK
    <3> QED BY <2>1, <2>3, <3>1, HelperFrame DEF Inv
  <2>4. ASSUME UNCHANGED vars PROVE ExactInv'
    BY <2>4 DEF vars, storeVars, sessionVars, ExactInv, LoopLines, Overwritten, Overwrites
  <2>5. ASSUME Next PROVE ExactInv'
    BY <2>2, <2>3, <2>4, <2>5 DEF Next, Interruption, Interrupted, DeadlockVictim, AtRest
  <2> QED BY <2>4, <2>5
<1>3. Inv /\ ExactInv => ExactWithoutOverwriters
  BY DEF Inv, StoreInv, StoreTypeOK, ExactInv, DriftOnlyFromStaleOverwrite,
     ExactWithoutOverwriters, Qty
<1> QED BY <1>1, <1>2, <1>3, Invariance, PTL DEF Spec

-----------------------------------------------------------------------------
(* Changes whose movement is still to come. *)

\* r has changed the balance of the row and has its movement still to insert.
Logs(r, row) ==
  step[r] = "log" /\ order[r].kind \in {"MOVEMENT", "COUNT"} /\ order[r].row = row

Logging(row) == {r \in Request : Logs(r, row)}

\* A request was stopped that may have been there.
StoppedAt(row) ==
  \E r \in Request : /\ step[r] = "interrupted"
                     /\ order[r].kind \in {"MOVEMENT", "COUNT"}
                     /\ order[r].row = row

\* On the other rows the changes are those of the requests that are there.
OwedInv ==
  /\ IsFiniteSet({r \in Request : step[r] # "idle"})
  /\ \A row \in Row : StoppedAt(row) \/ owed[row] = SumFunctionOnSet(diff, Logging(row))

\* What a step of r does to them.
OwedStep(r) ==
  /\ step[r] # "interrupted"
  /\ \/ /\ UNCHANGED owed
        /\ \A row \in Row : ~Logs(r, row) /\ ~Logs(r, row)'
     \/ /\ step[r] # "log" /\ diff'[r] = diff[r]
        /\ \E x \in Row : /\ owed' = [owed EXCEPT ![x] = @ + diff[r]]
                          /\ \A row \in Row : Logs(r, row)' <=> row = x
     \/ /\ step'[r] # "log"
        /\ \E x \in Row : /\ owed' = [owed EXCEPT ![x] = @ - diff[r]]
                          /\ \A row \in Row : Logs(r, row) <=> row = x

\* Only recordStockMovement changes a balance without its movement.
LEMMA OwedSteps ==
  ASSUME Inv, NEW r \in Request, Handler(r)
  PROVE  OwedStep(r)
<1> USE DEF Inv, StoreInv
<1>1. Reject(r) \/ Commit(r) => UNCHANGED owed /\ step'[r] # "log"
  BY ArriveAtWrite DEF Reject, Commit, RollbackRows, CommitRows, Unlock
<1>2. \A row, amount, s, lines :
        WriteFromSeen(r, row, amount, s, lines) => UNCHANGED owed /\ step'[r] \in {s, "rejected"}
  BY <1>1, ArriveAtWrite DEF WriteFromSeen, SetFromRead, Write
<1>3. \A row, amount : Increment(r, row, amount) => UNCHANGED owed
  BY DEF Increment, Write
<1>4. UNCHANGED storeVars => UNCHANGED owed
  BY DEF storeVars
<1>5. ASSUME UNCHANGED owed, step[r] \notin {"log", "interrupted"}, step'[r] # "log"
      PROVE  OwedStep(r)
  BY <1>5 DEF OwedStep, Logs
<1>6. CASE SaleStep(r)
  <2>1. UNCHANGED owed /\ step'[r] # "log"
    BY <1>1, <1>2, <1>3, <1>4, <1>6, ArriveAtWrite
       DEF SaleStep, ReceiveSale, CheckStock, OpenSale, InsertDocument, ReadSaleLine,
           WriteSaleLine, ChargeCustomer, CommitSale
  <2>2. step[r] \notin {"log", "interrupted"}
    BY <1>6 DEF SaleStep, ReceiveSale, Receive, CheckStock, OpenSale, ReadSaleLine,
       WriteSaleLine, ChargeCustomer, CommitSale, At
  <2> QED BY <1>5, <2>1, <2>2
<1>7. CASE PurchaseStep(r)
  <2>1. UNCHANGED owed /\ step'[r] # "log"
    BY <1>1, <1>2, <1>3, <1>4, <1>7, ArriveAtWrite
       DEF PurchaseStep, ReceivePurchase, OpenPurchase, InsertDocument, ReadPurchaseLine,
           WritePurchaseLine, CreditSupplier, CommitPurchase
  <2>2. step[r] \notin {"log", "interrupted"}
    BY <1>7 DEF PurchaseStep, ReceivePurchase, Receive, OpenPurchase, ReadPurchaseLine,
       WritePurchaseLine, CreditSupplier, CommitPurchase, At
  <2> QED BY <1>5, <2>1, <2>2
<1>8. CASE TransferStep(r)
  <2>1. UNCHANGED owed /\ step'[r] # "log"
    BY <1>1, <1>2, <1>4, <1>8, ArriveAtWrite
       DEF TransferStep, ReceiveTransfer, ReadSource, WriteSource, ReadTarget, WriteTarget,
           CommitTransfer
  <2>2. step[r] \notin {"log", "interrupted"}
    BY <1>8 DEF TransferStep, ReceiveTransfer, Receive, ReadSource, WriteSource, ReadTarget,
       WriteTarget, CommitTransfer, At
  <2> QED BY <1>5, <2>1, <2>2
<1>9. CASE VoucherStep(r)
  <2>1. UNCHANGED owed /\ step'[r] # "log"
    BY <1>1, <1>2, <1>4, <1>9, ArriveAtWrite
       DEF VoucherStep, ReceiveCash, ReadCashbox, WriteCashbox, ReadParty, WriteParty, CommitCash
  <2>2. step[r] \notin {"log", "interrupted"}
    BY <1>9 DEF VoucherStep, ReceiveCash, Receive, ReadCashbox, WriteCashbox, ReadParty,
       WriteParty, CommitCash, InCash, At
  <2> QED BY <1>5, <2>1, <2>2
<1>10. CASE ReturnStep(r)
  <2>1. UNCHANGED owed /\ step'[r] # "log"
    <3>1. CheckReturn(r) => UNCHANGED owed /\ step'[r] # "log"
      BY <1>1, <1>4 DEF CheckReturn, SessionTypeOK
    <3>2. CommitReturn(r) => UNCHANGED owed /\ step'[r] # "log"
      BY <1>1 DEF CommitReturn
    <3> QED BY <1>1, <1>2, <1>3, <1>4, <1>10, <3>1, <3>2, ArriveAtWrite
            DEF ReturnStep, ReceiveReturn, TakeBackLine, SendBackLine,
                ReceiveAdjustment, ReadAdjusted, WriteAdjusted, CommitAdjustment
  <2>2. step[r] \notin {"log", "interrupted"}
    BY <1>10 DEF ReturnStep, ReceiveReturn, ReceiveAdjustment, Receive, CheckReturn,
       TakeBackLine, SendBackLine, CommitReturn, ReadAdjusted, WriteAdjusted,
       CommitAdjustment, InReturn, At
  <2> QED BY <1>5, <2>1, <2>2
<1>11. CASE InventoryStep(r)
  <2>1. CASE ReceiveMovement(r) \/ ReceiveCount(r) \/ CompareCount(r) \/ ReadStock(r)
    <3>1. UNCHANGED owed /\ step'[r] # "log"
      BY <1>1, <1>4, <2>1, ArriveAtWrite
         DEF ReceiveMovement, ReceiveCount, CompareCount, ReadStock, SessionTypeOK
    <3>2. step[r] \notin {"log", "interrupted"}
      BY <2>1 DEF ReceiveMovement, ReceiveCount, Receive, CompareCount, ReadStock, InMovement, At
    <3> QED BY <1>5, <3>1, <3>2
  <2>2. CASE WriteStock(r)
    <3>1. /\ step[r] = "write" /\ order[r].kind \in {"MOVEMENT", "COUNT"}
          /\ order[r].row \in Row
      BY <2>2, OrderOf, StockFields DEF WriteStock, InMovement, At, Row
    <3>2. CASE Reject(r)
      BY <1>1, <1>5, <3>1, <3>2
    <3>3. CASE Autocommit(r, order[r].row, seen[r], diff[r]) /\ Goto(r, "log", <<>>, Null)
      <4>1. /\ step'[r] = "log" /\ order'[r] = order[r] /\ diff'[r] = diff[r]
            /\ owed' = [owed EXCEPT ![order[r].row] = @ + diff[r]]
        BY <3>3, ArriveAtWrite DEF Autocommit, Goto
      <4> QED BY <3>1, <4>1 DEF OwedStep, Logs
    <3> QED BY <2>2, <3>2, <3>3 DEF WriteStock
  <2>3. CASE LogMovement(r)
    <3>1. /\ step[r] = "log" /\ order[r].kind \in {"MOVEMENT", "COUNT"}
          /\ order[r].row \in Row
      BY <2>3, OrderOf, StockFields DEF LogMovement, InMovement, At, Row
    <3>2. step'[r] = "done" /\ owed' = [owed EXCEPT ![order[r].row] = @ - diff[r]]
      BY <2>3, ArriveAtWrite DEF LogMovement, InsertMovement
    <3> QED BY <3>1, <3>2 DEF OwedStep, Logs
  <2> QED BY <1>11, <2>1, <2>2, <2>3 DEF InventoryStep
<1> QED BY <1>6, <1>7, <1>8, <1>9, <1>10, <1>11 DEF Handler

\* They stay so: a request that is stopped at the log leaves its change behind.
LEMMA OwedNext ==
  ASSUME Inv, OwedInv, Next
  PROVE  OwedInv'
<1> DEFINE Started == {r \in Request : step[r] # "idle"}
<1>1. /\ owed \in [Row -> Int] /\ \A r \in Request : diff[r] \in Int
      /\ IsFiniteSet(Started)
      /\ \A row \in Row : IsFiniteSet(Logging(row))
  <2>1. \A row \in Row : Logging(row) \subseteq Started
    BY DEF Logging, Logs
  <2> QED BY <2>1, FS_Subset DEF OwedInv, Inv, StoreInv, StoreTypeOK, SessionTypeOK
<1>2. ASSUME NEW r \in Request, step[r] # "interrupted",
             \A x \in Request \ {r} : SameSession(x)
      PROVE  /\ IsFiniteSet(Started')
             /\ \A row \in Row : /\ StoppedAt(row) => StoppedAt(row)'
                                 /\ Logging(row)' \ {r} = Logging(row) \ {r}
             /\ \A x \in Request \ {r} : diff'[x] = diff[x]
  <2>1. Started' \subseteq Started \cup {r}
    BY <1>2 DEF SameSession
  <2>2. IsFiniteSet(Started')
    BY <1>1, <2>1, FS_AddElement, FS_Subset
  <2> QED BY <1>2, <2>2 DEF SameSession, StoppedAt, Logging, Logs
<1>3. ASSUME NEW r \in Request, OwedStep(r), \A x \in Request \ {r} : SameSession(x),
             NEW row \in Row, ~StoppedAt(row)
      PROVE  owed'[row] = SumFunctionOnSet(diff', Logging(row)')
  <2> DEFINE others == Logging(row) \ {r}
  <2>1. /\ step[r] # "interrupted" /\ owed[row] = SumFunctionOnSet(diff, Logging(row))
        /\ Logging(row)' \ {r} = others
        /\ \A x \in Request \ {r} : diff'[x] = diff[x]
    BY <1>2, <1>3 DEF OwedStep, OwedInv
  <2>2. IsFiniteSet(others) /\ r \notin others /\ \A x \in others : x \in Request /\ diff[x] \in Int
    BY <1>1, FS_Subset DEF Logging
  <2>3. SumFunctionOnSet(diff', others) = SumFunctionOnSet(diff, others)
    BY <2>1, <2>2, SumSame
  <2>4. (r \in Logging(row) <=> Logs(r, row)) /\ (r \in Logging(row)' <=> Logs(r, row)')
    BY DEF Logging
  <2> HIDE DEF others
  <2>5. CASE UNCHANGED owed /\ ~Logs(r, row) /\ ~Logs(r, row)'
    <3>1. Logging(row) = others /\ Logging(row)' = others
      BY <2>1, <2>4, <2>5 DEF others
    <3> QED BY <2>1, <2>3, <2>5, <3>1
  <2>6. ASSUME step[r] # "log", diff'[r] = diff[r], NEW x \in Row,
               owed' = [owed EXCEPT ![x] = @ + diff[r]], Logs(r, row)' <=> row = x
        PROVE  owed'[row] = SumFunctionOnSet(diff', Logging(row)')
    <3>1. Logging(row) = others
      BY <2>4, <2>6 DEF others, Logs
    <3>2. CASE row = x
      <4>1. Logging(row)' = others \cup {r} /\ owed'[row] = owed[row] + diff[r]
        BY <1>1, <2>1, <2>4, <2>6, <3>2
      <4>2. SumFunctionOnSet(diff', others \cup {r}) = diff'[r] + SumFunctionOnSet(diff', others)
        <5>1. \A y \in others \cup {r} : diff'[y] \in Int
          BY <1>1, <2>1, <2>2, <2>6
        <5> QED BY <2>2, <5>1, SumInsert
      <4>3. diff[r] \in Int /\ SumFunctionOnSet(diff, others) \in Int
        BY <1>1, <2>2, SumInt
      <4> QED BY <2>1, <2>3, <2>6, <3>1, <4>1, <4>2, <4>3
    <3>3. CASE row # x
      <4>1. Logging(row)' = others /\ owed'[row] = owed[row]
        BY <1>1, <2>1, <2>4, <2>6, <3>3
      <4> QED BY <2>1, <2>3, <3>1, <4>1
    <3> QED BY <3>2, <3>3
  <2>7. ASSUME step'[r] # "log", NEW x \in Row,
               owed' = [owed EXCEPT ![x] = @ - diff[r]], Logs(r, row) <=> row = x
        PROVE  owed'[row] = SumFunctionOnSet(diff', Logging(row)')
    <3>1. Logging(row)' = others
      BY <2>1, <2>4, <2>7 DEF Logs
    <3>2. CASE row = x
      <4>1. r \in Logging(row) /\ owed'[row] = owed[row] - diff[r]
        BY <1>1, <2>4, <2>7, <3>2
      <4>2. SumFunctionOnSet(diff, Logging(row)) = diff[r] + SumFunctionOnSet(diff, others)
        <5>1. \A y \in Logging(row) : diff[y] \in Int
          BY <1>1 DEF Logging
        <5> QED BY <1>1, <4>1, <5>1, SumRemove DEF others
      <4>3. diff[r] \in Int /\ SumFunctionOnSet(diff, others) \in Int
        BY <1>1, <2>2, SumInt
      <4> QED BY <2>1, <2>3, <3>1, <4>1, <4>2, <4>3
    <3>3. CASE row # x
      <4>1. Logging(row) = others /\ owed'[row] = owed[row]
        BY <1>1, <2>4, <2>7, <3>3 DEF others
      <4> QED BY <2>1, <2>3, <3>1, <4>1
    <3> QED BY <3>2, <3>3
  <2> QED BY <1>3, <2>5, <2>6, <2>7 DEF OwedStep
<1>4. ASSUME NEW r \in Request, Handler(r) PROVE OwedInv'
  <2>1. OwedStep(r) /\ \A x \in Request \ {r} : SameSession(x)
    BY <1>4, OwedSteps, HandlerFrame DEF Inv
  <2>2. step[r] # "interrupted"
    BY <2>1 DEF OwedStep
  <2> QED BY <1>2, <1>3, <2>1, <2>2 DEF OwedInv
<1>5. ASSUME NEW r \in Request, Interruption(r) \/ DeadlockVictim(r) PROVE OwedInv'
  <2>1. /\ step[r] \in Running /\ UNCHANGED owed /\ step'[r] = "interrupted"
        /\ order'[r] = order[r] /\ \A x \in Request \ {r} : SameSession(x)
    BY <1>5, StopOf, HelperFrame DEF RollbackRows, Unlock, End, Inv, SessionTypeOK
  <2>2. step[r] # "interrupted"
    BY <2>1 DEF Running
  <2>3. ASSUME NEW row \in Row, ~StoppedAt(row), ~StoppedAt(row)'
        PROVE  owed'[row] = SumFunctionOnSet(diff', Logging(row)')
    <3>1. ~Logs(r, row) /\ ~Logs(r, row)'
      BY <2>1, <2>3 DEF Logs, StoppedAt
    <3>2. Logging(row)' = Logging(row) /\ \A x \in Logging(row) : diff'[x] = diff[x]
      BY <1>2, <2>1, <2>2, <3>1 DEF Logging
    <3>3. SumFunctionOnSet(diff', Logging(row)) = SumFunctionOnSet(diff, Logging(row))
      BY <1>1, <3>2, SumSame
    <3> QED BY <2>1, <2>3, <3>2, <3>3 DEF OwedInv
  <2> QED BY <1>2, <2>1, <2>2, <2>3 DEF OwedInv
<1>6. CASE UNCHANGED vars
  <2>1. step' = step /\ order' = order /\ diff' = diff /\ owed' = owed
    BY <1>6 DEF vars, storeVars, sessionVars
  <2> QED BY <2>1 DEF OwedInv, StoppedAt, Logging, Logs
<1> QED BY <1>4, <1>5, <1>6 DEF Next, AtRest

LEMMA OwedInvariance == Spec => []OwedInv
<1>1. Init => OwedInv
  <2> SUFFICES ASSUME Init PROVE OwedInv
    OBVIOUS
  <2>1. {r \in Request : step[r] # "idle"} = {} /\ \A row \in Row : Logging(row) = {}
    BY DEF Init, SessionInit, Logging, Logs
  <2>2. \A row \in Row : owed[row] = 0
    BY DEF Init, StoreInit
  <2> QED BY <2>1, <2>2, FS_EmptySet, SumEmpty DEF OwedInv
<1>2. Inv /\ OwedInv /\ [Next]_vars => OwedInv'
  BY OwedNext DEF OwedInv, StoppedAt, Logging, Logs, vars, storeVars, sessionVars
<1> QED BY <1>1, <1>2, Invariance, PTL DEF Spec

\* A committed change of a balance whose movement is not in the ledger belongs to
\* a request of recordStockMovement that has still to insert it, or that was
\* stopped before it could: no other handler leaves one behind.
THEOREM OrphansExplained == Spec => []OrphanOnlyFromInterruption
<1>1. OwedInv => OrphanOnlyFromInterruption
  <2> SUFFICES ASSUME OwedInv, NEW row \in Row, owed[row] # 0
               PROVE  \E r \in Request : /\ step[r] \in {"log", "interrupted"}
                                         /\ order[r].kind \in {"MOVEMENT", "COUNT"}
                                         /\ order[r].row = row
    BY DEF OrphanOnlyFromInterruption
  <2>1. CASE StoppedAt(row)
    BY <2>1 DEF StoppedAt
  <2>2. CASE Logging(row) = {}
    BY <2>1, <2>2, SumEmpty DEF OwedInv
  <2>3. CASE Logging(row) # {}
    BY <2>3 DEF Logging, Logs
  <2> QED BY <2>1, <2>2, <2>3
<1> QED BY <1>1, OwedInvariance, PTL
=============================================================================
