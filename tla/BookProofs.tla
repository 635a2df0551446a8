----------------------------- MODULE BookProofs -----------------------------
(* Bookkeeping implements AtomicLedger: what a handler has entered in the    *)
(* rows it holds and what it has still to enter make up what its order adds. *)
EXTENDS LedgerProofs

-----------------------------------------------------------------------------
(* The lines of a document on one row. *)

LinesSum(lines, row) ==
  SumFunctionOnSet([i \in DOMAIN lines |-> lines[i].quantity],
                   {i \in DOMAIN lines : lines[i].row = row})

\* The first line and the others.
LEMMA LinesSumHead ==
  ASSUME NEW lines \in Seq(Line), lines # <<>>, NEW row
  PROVE  /\ Head(lines).quantity \in Nat
         /\ LinesSum(Tail(lines), row) \in Int
         /\ LinesSum(lines, row) = At0(row, Head(lines).row, Head(lines).quantity)
                                   + LinesSum(Tail(lines), row)
<1> DEFINE tail == Tail(lines)
           f == [i \in DOMAIN lines |-> lines[i].quantity]
           S == {i \in DOMAIN lines : lines[i].row = row}
           g == [i \in DOMAIN tail |-> tail[i].quantity]
           T == {i \in DOMAIN tail : tail[i].row = row}
           Up == {i + 1 : i \in T}
<1>1. /\ Len(lines) \in Nat /\ DOMAIN lines = 1..Len(lines) /\ Len(lines) # 0
      /\ tail \in Seq(Line) /\ DOMAIN tail = 1..(Len(lines) - 1)
      /\ \A i \in DOMAIN tail : tail[i] = lines[i + 1]
      /\ Head(lines) = lines[1]
  BY HeadTailProperties, EmptySeq, LenProperties
<1>2. IsFiniteSet(DOMAIN lines) /\ IsFiniteSet(DOMAIN tail)
  <2> DEFINE o == [lines |-> lines]
             p == [lines |-> tail]
  <2>1. o.lines \in Seq(Line) /\ p.lines \in Seq(Line)
    BY <1>1
  <2> HIDE DEF o, p
  <2>2. IsFiniteSet(DOMAIN o.lines) /\ IsFiniteSet(DOMAIN p.lines)
    BY <2>1, LineQuantities
  <2> QED BY <2>2 DEF o, p
<1>3. \A i \in DOMAIN lines : lines[i].quantity \in Nat
  <2> DEFINE o == [lines |-> lines]
  <2>1. o.lines \in Seq(Line)
    OBVIOUS
  <2> HIDE DEF o
  <2>2. \A i \in DOMAIN o.lines : o.lines[i].quantity \in Nat
    BY <2>1, LineQuantities
  <2> QED BY <2>2 DEF o
<1>4. IsFiniteSet(S) /\ IsFiniteSet(T)
  BY <1>2, FS_Subset
<1>5. /\ T \in SUBSET Int /\ 1 \notin Up
      /\ \A i \in T : g[i] \in Int /\ f[i + 1] = g[i]
      /\ \A i \in S : f[i] \in Int
  BY <1>1, <1>3
<1>6. S = IF lines[1].row = row THEN Up \cup {1} ELSE Up
  <2>1. \A i \in S : i # 1 => i - 1 \in T /\ (i - 1) + 1 = i
    BY <1>1
  <2>2. \A i \in T : i + 1 \in S
    BY <1>1
  <2>3. 1 \in S <=> lines[1].row = row
    BY <1>1
  <2> QED BY <2>1, <2>2, <2>3
<1>7. SumFunctionOnSet(f, Up) = SumFunctionOnSet(g, T) /\ SumFunctionOnSet(g, T) \in Int
  <2> HIDE DEF f, g, T
  <2> QED BY <1>4, <1>5, SumShift, SumInt
<1>8. f[1] = Head(lines).quantity /\ f[1] \in Nat
  BY <1>1, <1>3
<1>9. SumFunctionOnSet(f, S) = (IF lines[1].row = row THEN f[1] ELSE 0) + SumFunctionOnSet(g, T)
  <2> HIDE DEF f, g, T, S, Up
  <2>1. CASE lines[1].row = row
    <3>1. S = Up \cup {1} /\ S \ {1} = Up /\ 1 \in S
      BY <1>5, <1>6, <2>1
    <3>2. SumFunctionOnSet(f, S) = f[1] + SumFunctionOnSet(f, S \ {1})
      BY <1>4, <1>5, <3>1, SumRemove
    <3> QED BY <1>7, <2>1, <3>1, <3>2
  <2>2. CASE lines[1].row # row
    BY <1>6, <1>7, <2>2
  <2> QED BY <2>1, <2>2
<1>10. LinesSum(lines, row) = SumFunctionOnSet(f, S) /\ LinesSum(tail, row) = SumFunctionOnSet(g, T)
  BY DEF LinesSum
<1> HIDE DEF f, g, T, S, Up
<1> QED BY <1>1, <1>7, <1>8, <1>9, <1>10 DEF At0

\* No line, no quantity; and a sum of quantities is a quantity.
LEMMA LinesSumNat ==
  /\ \A row : LinesSum(<<>>, row) = 0
  /\ \A row : \A lines \in Seq(Line) : LinesSum(lines, row) \in Nat
<1>1. ASSUME NEW row PROVE LinesSum(<<>>, row) = 0
  <2>1. {i \in DOMAIN <<>> : <<>>[i].row = row} = {}
    BY EmptySeq
  <2> QED BY <2>1, SumEmpty DEF LinesSum
<1>2. ASSUME NEW lines \in Seq(Line), NEW row PROVE LinesSum(lines, row) \in Nat
  <2> DEFINE o == [lines |-> lines]
             f == [i \in DOMAIN o.lines |-> o.lines[i].quantity]
             S == {i \in DOMAIN o.lines : o.lines[i].row = row}
  <2>1. o.lines \in Seq(Line)
    OBVIOUS
  <2>2. LinesSum(o.lines, row) = SumFunctionOnSet(f, S)
    BY DEF LinesSum
  <2> HIDE DEF o
  <2>3. IsFiniteSet(S) /\ \A i \in S : f[i] \in Nat
    BY <2>1, LineQuantities, FS_Subset
  <2> HIDE DEF f, S
  <2>4. LinesSum(o.lines, row) \in Nat
    BY <2>2, <2>3, SumNat
  <2> QED BY <2>4 DEF o
<1> QED BY <1>1, <1>2

-----------------------------------------------------------------------------
(* What a handler has entered in the rows it holds, and what is left to enter. *)

Entered(r, row) == IF holder[row] = r THEN posted[row] ELSE 0

\* At step s, with these lines to visit, the handler of o has still to add this
\* to the row.
Left(o, s, lines, row) ==
  CASE o.kind = "SALE" /\ s # "commit" ->
         At0(row, o.party, DueAmount(o)) - LinesSum(lines, row)
    [] o.kind = "PURCHASE" /\ s # "commit" ->
         At0(row, o.party, OwedAmount(o)) + LinesSum(lines, row)
    [] o.kind = "SALE_RETURN" -> LinesSum(lines, row)
    [] o.kind = "PURCHASE_RETURN" -> -LinesSum(lines, row)
    [] o.kind = "TRANSFER" /\ s = "write" ->
         At0(row, Target(o), o.quantity) - At0(row, Source(o), o.quantity)
    [] o.kind = "TRANSFER" /\ s \in {"readSecond", "writeSecond"} ->
         At0(row, Target(o), o.quantity)
    [] o.kind \in Cash /\ s = "write" ->
         At0(row, o.cashbox, CashChange(o))
         - (IF o.kind = "EXPENSE" THEN 0 ELSE At0(row, o.party, o.amount))
    [] o.kind \in Cash /\ s \in {"readSecond", "writeSecond"} ->
         -At0(row, o.party, o.amount)
    [] OTHER -> 0

\* In an open transaction the two make up the effect of the order.
Post(r) ==
  Holding(r) => \A row \in Row \ CountedRows(order[r]) :
    Entered(r, row) + Left(order[r], step[r], todo[r], row) = Effect(order[r], row)

Booked(r) ==
  /\ Post(r)
  /\ InReturn(r, "check") => todo[r] = order[r].lines
  /\ step[r] \in {"read", "write", "log"} /\ order[r].kind = "MOVEMENT" =>
       diff[r] = order[r].quantity
  /\ step[r] \in {"writeSecond", "commit", "done"} /\ order[r].kind \in {"RECEIPT", "PAYMENT"} =>
       order[r].party # Null

BookInv == \A r \in Request : Booked(r)

\* The step that records the order of r.
RecordStep(r) ==
  /\ step'[r] = "done" /\ order'[r] = order[r] /\ order[r] \in Order
  /\ \A row \in Row \ CountedRows(order[r]) :
       ledger'[row] = ledger[row] + Effect(order[r], row)

BookStep(r) ==
  /\ step[r] # "done"
  /\ Booked(r)'
  /\ RecordStep(r) \/ (step'[r] # "done" /\ UNCHANGED ledger)

\* Quantities and amounts are numbers, whichever step their handler is at.
LEMMA LeftInt ==
  ASSUME NEW o \in Order, NEW lines \in Seq(Line), NEW s, NEW row
  PROVE  Left(o, s, lines, row) \in Int
<1>1. LinesSum(lines, row) \in Nat
  BY LinesSumNat
<1>2. CASE o.kind = "SALE"
  BY <1>1, <1>2, SaleFields DEF Left, At0, Cash
<1>3. CASE o.kind = "PURCHASE"
  BY <1>1, <1>3, PurchaseFields DEF Left, At0, Cash
<1>4. CASE o.kind = "TRANSFER"
  BY <1>4, TransferFields DEF Left, At0, Cash
<1>5. CASE o.kind \in Cash
  BY <1>5, CashFields DEF Left, At0, Cash, CashChange
<1>6. CASE o.kind \notin {"SALE", "PURCHASE", "TRANSFER"} \cup Cash
  BY <1>1, <1>6 DEF Left
<1> QED BY <1>2, <1>3, <1>4, <1>5, <1>6

\* What is entered in a row is a number.
LEMMA EnteredInt ==
  ASSUME StoreTypeOK, NEW r, NEW row \in Row
  PROVE  Entered(r, row) \in Int
BY DEF StoreTypeOK, Entered

\* A write enters its movement; what others have entered stays.
LEMMA WriteEnters ==
  ASSUME StoreInv, NEW r \in Request, NEW row \in Row, NEW balance, NEW amount \in Int,
         Write(r, row, balance, amount)
  PROVE  /\ \A x \in Row : Entered(r, x)' = Entered(r, x) + At0(x, row, amount)
         /\ UNCHANGED ledger
<1> USE DEF StoreInv, StoreTypeOK
<1>1. \A x \in Row \ {row} : holder'[x] = holder[x] /\ posted'[x] = posted[x]
  BY DEF Write
<1>2. holder'[row] = r /\ posted'[row] = posted[row] + amount /\ posted[row] \in Int
  BY DEF Write
<1>3. Entered(r, row) = posted[row]
  BY RowStoreAssumption DEF Write, Available, Entered, FreeRows
<1>4. \A x \in Row : posted[x] \in Int
  OBVIOUS
<1>5. UNCHANGED ledger
  BY DEF Write
<1> QED BY <1>1, <1>2, <1>3, <1>4, <1>5 DEF Entered, At0

\* A COMMIT adds to the ledger what r has entered; a ROLLBACK nothing.
LEMMA EndsEnter ==
  ASSUME StoreTypeOK, NEW r \in Request
  PROVE  /\ CommitRows(r) => \A x \in Row : ledger'[x] = ledger[x] + Entered(r, x)
         /\ RollbackRows(r) => UNCHANGED ledger
         /\ UNCHANGED storeVars => UNCHANGED ledger
<1>1. CommitRows(r) => \A x \in Row : ledger'[x] = ledger[x] + Entered(r, x)
  BY DEF CommitRows, Held, Entered, StoreTypeOK
<1> QED BY <1>1 DEF RollbackRows, storeVars

\* What a statement of r leaves of the others.
LEMMA StatementFrame ==
  ASSUME StoreInv, NEW r \in Request, [Statement(r)]_storeVars,
         NEW q \in Request \ {r}, NEW x \in Row
  PROVE  Entered(q, x)' = Entered(q, x)
<1> USE DEF StoreInv, StoreTypeOK
<1>1. ASSUME NEW row \in Row, NEW balance, NEW amount, Write(r, row, balance, amount)
      PROVE  Entered(q, x)' = Entered(q, x)
  BY <1>1, RowStoreAssumption DEF Write, Available, Entered
<1>2. CASE CommitRows(r) \/ RollbackRows(r)
  BY <1>2, RowStoreAssumption DEF CommitRows, RollbackRows, Unlock, Held, Entered
<1>3. CASE \E row \in Row, amount \in Int :
             \/ Increment(r, row, amount)
             \/ \E old \in Balance : SetFromRead(r, row, old, amount)
  BY <1>1, <1>3 DEF Increment, SetFromRead
<1>4. CASE \E row \in Row, amount \in Int :
             \/ InsertMovement(row, amount)
             \/ \E old \in Balance : Autocommit(r, row, old, amount)
  BY <1>4 DEF InsertMovement, Autocommit, Entered
<1>5. CASE UNCHANGED storeVars
  BY <1>5 DEF storeVars, Entered
<1> QED BY <1>2, <1>3, <1>4, <1>5 DEF Statement

-----------------------------------------------------------------------------
(* One lemma for each way a step can go on. *)

\* The lines of a document and its effect.
LEMMA EffectLines ==
  ASSUME NEW o, NEW row
  PROVE  SumOfLines(o, row) = LinesSum(o.lines, row)
BY DEF SumOfLines, LinesSum

\* Where a step leaves the session of its request.
LEMMA Arrives ==
  ASSUME SessionTypeOK, NEW r \in Request
  PROVE  /\ \A s, lines, balance : Goto(r, s, lines, balance) =>
              /\ step'[r] = s /\ todo'[r] = lines
              /\ order'[r] = order[r] /\ diff'[r] = diff[r]
         /\ \A o, s, lines : Receive(r, o, s, lines) =>
              /\ step[r] = "idle" /\ step'[r] = s /\ todo'[r] = lines /\ order'[r] = o
              /\ UNCHANGED storeVars
         /\ \A outcome : End(r, outcome) => step'[r] = outcome /\ order'[r] = order[r]
BY DEF SessionTypeOK, Goto, Receive, End

\* A request outside its transaction has entered nothing.
LEMMA NothingEntered ==
  ASSUME LocksInv, NEW r \in Request, ~Holding(r), NEW row \in Row
  PROVE  Entered(r, row) = 0
BY RowStoreAssumption DEF LocksInv, Entered

\* The transaction opens, with everything left to enter.
LEMMA PostOpens ==
  ASSUME Inv, LocksInv, NEW r \in Request, ~Holding(r), UNCHANGED storeVars,
         NEW o \in Order, NEW lines \in Seq(Line),
         order'[r] = o, todo'[r] = lines,
         \A row \in Row \ CountedRows(o) : Left(o, step'[r], lines, row) = Effect(o, row)
  PROVE  Post(r)'
<1> SUFFICES ASSUME NEW row \in Row \ CountedRows(o)
             PROVE  Entered(r, row)' + Left(o, step'[r], lines, row) = Effect(o, row)
  BY DEF Post
<1>1. Entered(r, row)' = 0
  BY NothingEntered DEF Entered, storeVars
<1>2. Left(o, step'[r], lines, row) \in Int
  BY LeftInt
<1> QED BY <1>1, <1>2

\* A SELECT in the transaction leaves as much to enter.
LEMMA PostReads ==
  ASSUME Inv, NEW r \in Request, Booked(r), Holding(r), UNCHANGED storeVars,
         order'[r] = order[r],
         \A row : Left(order[r], step'[r], todo'[r], row) = Left(order[r], step[r], todo[r], row)
  PROVE  Post(r)'
BY DEF Booked, Post, Entered, storeVars

\* A write enters what is then no longer left.
LEMMA PostWrites ==
  ASSUME Inv, NEW r \in Request, Booked(r), Holding(r), order[r] \in Order,
         NEW row \in Row, NEW balance, NEW amount \in Int, Write(r, row, balance, amount),
         NEW s, NEW lines \in Seq(Line), step'[r] = s, todo'[r] = lines, order'[r] = order[r],
         \A x \in Row \ CountedRows(order[r]) :
           Left(order[r], step[r], todo[r], x) = At0(x, row, amount) + Left(order[r], s, lines, x)
  PROVE  Post(r)' /\ UNCHANGED ledger
<1> USE DEF Inv
<1>1. UNCHANGED ledger /\ \A x \in Row : Entered(r, x)' = Entered(r, x) + At0(x, row, amount)
  BY WriteEnters
<1> SUFFICES ASSUME NEW x \in Row \ CountedRows(order[r])
             PROVE  Entered(r, x)' + Left(order[r], s, lines, x) = Effect(order[r], x)
  BY <1>1 DEF Post
<1>2. Entered(r, x) + Left(order[r], step[r], todo[r], x) = Effect(order[r], x)
  BY DEF Booked, Post
<1>3. Entered(r, x) \in Int /\ At0(x, row, amount) \in Int /\ Left(order[r], s, lines, x) \in Int
  BY EnteredInt, LeftInt DEF StoreInv, At0
<1> QED BY <1>1, <1>2, <1>3

\* A request that fails enters nothing.
LEMMA BookStops ==
  ASSUME Inv, NEW r \in Request, step[r] \in Running,
         Reject(r) \/ (RollbackRows(r) /\ End(r, "interrupted"))
  PROVE  BookStep(r)
<1>1. step'[r] \in {"rejected", "interrupted"} /\ UNCHANGED ledger
  BY Arrives, EndsEnter DEF Reject, Inv, StoreInv
<1> QED BY <1>1 DEF BookStep, Booked, Post, Holding, InReturn, At, Running

\* A COMMIT with nothing left records the order.
LEMMA BookCommits ==
  ASSUME Inv, NEW r \in Request, Booked(r), Holding(r), order[r] \in Order, Commit(r),
         step[r] \in {"commit", "read", "write"},
         step[r] = "commit" \/ order[r].kind \notin {"RECEIPT", "PAYMENT"},
         \A row \in Row \ CountedRows(order[r]) : Left(order[r], step[r], todo[r], row) = 0
  PROVE  BookStep(r)
<1> USE DEF Inv, StoreInv
<1>1. step'[r] = "done" /\ order'[r] = order[r]
  BY Arrives DEF Commit
<1>2. ASSUME NEW row \in Row \ CountedRows(order[r])
      PROVE  ledger'[row] = ledger[row] + Effect(order[r], row)
  <2>1. ledger'[row] = ledger[row] + Entered(r, row)
    BY EndsEnter DEF Commit
  <2>2. Entered(r, row) + 0 = Effect(order[r], row) /\ Entered(r, row) \in Int
    BY <1>2, EnteredInt DEF Booked, Post
  <2> QED BY <2>1, <2>2
<1>3. Booked(r)'
  BY <1>1 DEF Booked, Post, Holding, InReturn, At
<1> QED BY <1>1, <1>2, <1>3 DEF BookStep, RecordStep

\* A step of a transaction that goes on.
LEMMA BookGoesOn ==
  ASSUME NEW r \in Request, step[r] # "done", Post(r)', UNCHANGED ledger,
         step'[r] \in {"read", "write", "readSecond", "writeSecond", "commit"},
         order'[r].kind # "MOVEMENT",
         order'[r].kind \in {"RECEIPT", "PAYMENT"} /\ step'[r] \in {"writeSecond", "commit"} =>
           order'[r].party # Null
  PROVE  BookStep(r)
BY DEF BookStep, Booked, InReturn, At

\* The write of an absolute balance goes on in the transaction or ends it.
LEMMA BookWrites ==
  ASSUME Inv, NEW r \in Request, Booked(r), Holding(r), order[r] \in Order,
         NEW row \in Row, NEW amount \in Int, NEW s, NEW lines \in Seq(Line),
         WriteFromSeen(r, row, amount, s, lines),
         s \in {"read", "readSecond", "writeSecond", "commit"},
         order[r].kind \in {"RECEIPT", "PAYMENT"} /\ s \in {"writeSecond", "commit"} =>
           order[r].party # Null,
         \A x \in Row \ CountedRows(order[r]) :
           Left(order[r], step[r], todo[r], x) = At0(x, row, amount) + Left(order[r], s, lines, x)
  PROVE  BookStep(r)
<1>1. CASE Reject(r)
  BY <1>1, BookStops DEF Holding, Running
<1>2. CASE SetFromRead(r, row, seen[r], amount) /\ Goto(r, s, lines, Null)
  <2>1. step'[r] = s /\ todo'[r] = lines /\ order'[r] = order[r]
    BY <1>2, Arrives DEF Inv
  <2>2. Post(r)' /\ UNCHANGED ledger
    BY <1>2, <2>1, PostWrites DEF SetFromRead
  <2> QED BY <2>1, <2>2, BookGoesOn DEF Holding
<1> QED BY <1>1, <1>2 DEF WriteFromSeen

-----------------------------------------------------------------------------
(* One lemma for each service. *)

\* A line that has been written is no longer left.
LEMMA LeftAfterLine ==
  ASSUME NEW o \in Order, NEW lines \in Seq(Line), lines # <<>>, NEW x,
         NEW s \in {"read", "write"}
  PROVE  LET line == Head(lines)
             sign == IF o.kind \in {"SALE", "PURCHASE_RETURN"} THEN -1 ELSE 1
         IN  o.kind \in {"SALE", "PURCHASE"} \cup ReturnKind =>
               Left(o, "write", lines, x)
                 = At0(x, line.row, sign * line.quantity) + Left(o, s, Tail(lines), x)
<1>1. /\ Head(lines).quantity \in Nat
      /\ LinesSum(Tail(lines), x) \in Int
      /\ LinesSum(lines, x) = At0(x, Head(lines).row, Head(lines).quantity)
                              + LinesSum(Tail(lines), x)
  BY LinesSumHead
<1>2. CASE o.kind = "SALE"
  <2>1. At0(x, o.party, DueAmount(o)) \in Int
    BY <1>2, SaleFields DEF At0
  <2> QED BY <1>1, <1>2, <2>1 DEF Left, At0, Cash, ReturnKind
<1>3. CASE o.kind = "PURCHASE"
  <2>1. At0(x, o.party, OwedAmount(o)) \in Int
    BY <1>3, PurchaseFields DEF At0
  <2> QED BY <1>1, <1>3, <2>1 DEF Left, At0, Cash, ReturnKind
<1>4. CASE o.kind \in ReturnKind
  BY <1>1, <1>4 DEF Left, At0, Cash, ReturnKind
<1> QED BY <1>2, <1>3, <1>4

\* createSale.
LEMMA SaleBook ==
  ASSUME Inv, LocksInv, NEW r \in Request, Booked(r), SaleStep(r)
  PROVE  BookStep(r)
<1> USE DEF Inv, StoreInv
<1>0. StockRow \subseteq Row /\ Customer \subseteq Row /\ <<>> \in Seq(Line) /\ Null \notin Row
  BY RowStoreAssumption DEF Row
<1>1. CASE ReceiveSale(r)
  <2>1. step'[r] = "check" /\ order'[r].kind = "SALE" /\ step[r] = "idle" /\ UNCHANGED ledger
    BY <1>1, Arrives, EndsEnter DEF ReceiveSale
  <2> QED BY <2>1 DEF BookStep, Booked, Post, Holding, InReturn, At, ReturnKind
<1>2. ASSUME step[r] # "idle", order[r].kind = "SALE"
      PROVE  /\ order[r] \in Order /\ todo[r] \in Seq(Line)
             /\ order[r].lines \in Seq(Line) /\ DueAmount(order[r]) \in Nat
             /\ order[r].party \in Customer \cup {Null}
             /\ CountedRows(order[r]) = {}
  BY <1>2, OrderOf, SaleFields DEF CountedRows
<1>3. CASE CheckStock(r)
  <2>1. CASE Reject(r)
    BY <1>3, <2>1, BookStops DEF CheckStock, At, Running
  <2>2. CASE Goto(r, "check", Tail(todo[r]), Null) /\ UNCHANGED storeVars
    <3>1. step'[r] = "check" /\ order'[r].kind = "SALE" /\ step[r] = "check" /\ UNCHANGED ledger
      BY <1>3, <2>2, Arrives, EndsEnter DEF CheckStock, At
    <3> QED BY <3>1 DEF BookStep, Booked, Post, Holding, InReturn, At, ReturnKind
  <2> QED BY <1>3, <2>1, <2>2 DEF CheckStock
<1>4. CASE OpenSale(r)
  <2>1. CASE Reject(r)
    BY <1>4, <2>1, BookStops DEF OpenSale, At, Running
  <2>2. CASE Goto(r, "read", order[r].lines, Null) /\ UNCHANGED storeVars
    <3>1. /\ step'[r] = "read" /\ order'[r] = order[r] /\ todo'[r] = order[r].lines
          /\ step[r] = "check" /\ order[r].kind = "SALE" /\ UNCHANGED ledger
      BY <1>4, <2>2, Arrives, EndsEnter DEF OpenSale, At
    <3>2. \A row : Left(order[r], "read", order[r].lines, row) = Effect(order[r], row)
      BY <3>1, EffectLines DEF Left, Effect, Cash
    <3>3. ~Holding(r)
      BY <3>1 DEF Holding
    <3>4. Post(r)'
      BY <1>2, <2>2, <3>1, <3>2, <3>3, PostOpens
    <3> QED BY <3>1, <3>4, BookGoesOn
  <2> QED BY <1>4, <2>1, <2>2 DEF OpenSale, InsertDocument
<1>5. CASE ReadSaleLine(r)
  <2>1. /\ step'[r] = "write" /\ order'[r] = order[r] /\ todo'[r] = todo[r]
        /\ step[r] = "read" /\ order[r].kind = "SALE" /\ UNCHANGED storeVars /\ UNCHANGED ledger
    BY <1>5, Arrives, EndsEnter DEF ReadSaleLine, At, Read
  <2>2. \A row : Left(order[r], "write", todo[r], row) = Left(order[r], "read", todo[r], row)
    BY <2>1 DEF Left, Cash
  <2>3. Post(r)'
    BY <2>1, <2>2, PostReads DEF Holding
  <2> QED BY <2>1, <2>3, BookGoesOn
<1>6. CASE WriteSaleLine(r)
  <2> DEFINE line == Head(todo[r])
  <2>1. /\ step[r] = "write" /\ order[r].kind = "SALE" /\ todo[r] # <<>>
        /\ WriteFromSeen(r, line.row, -line.quantity, "read", Tail(todo[r]))
    BY <1>6 DEF WriteSaleLine, At
  <2>2. /\ line.row \in Row /\ line.quantity \in Nat /\ -line.quantity \in Int
        /\ Tail(todo[r]) \in Seq(Line)
    BY <1>0, <1>2, <2>1, HeadTail
  <2>3. \A x \in Row \ CountedRows(order[r]) :
          Left(order[r], step[r], todo[r], x)
            = At0(x, line.row, -line.quantity) + Left(order[r], "read", Tail(todo[r]), x)
    <3>1. \A x : Left(order[r], "write", todo[r], x)
                   = At0(x, line.row, (-1) * line.quantity)
                     + Left(order[r], "read", Tail(todo[r]), x)
      BY <1>2, <2>1, LeftAfterLine
    <3>2. (-1) * line.quantity = -line.quantity
      BY <2>2
    <3> QED BY <2>1, <3>1, <3>2
  <2>4. Holding(r) /\ order[r] \in Order /\ order[r].kind \notin {"RECEIPT", "PAYMENT"}
    BY <1>2, <2>1 DEF Holding
  <2> HIDE DEF line
  <2> QED BY <2>1, <2>2, <2>3, <2>4, BookWrites
<1>7. CASE ChargeCustomer(r)
  <2>1. /\ step[r] = "read" /\ order[r].kind = "SALE" /\ todo[r] = <<>>
        /\ step'[r] = "commit" /\ order'[r] = order[r] /\ todo'[r] = <<>>
    BY <1>7, Arrives DEF ChargeCustomer, At
  <2>2. \A x : /\ Left(order[r], "read", <<>>, x) = At0(x, order[r].party, DueAmount(order[r]))
               /\ Left(order[r], "commit", <<>>, x) = 0
    BY <1>2, <2>1, LinesSumNat DEF Left, At0, Cash
  <2>3. Post(r)' /\ UNCHANGED ledger
    <3>1. CASE ChargesCustomer(order[r])
      <4> DEFINE balance == Qty(Seen(r, order[r].party)) + DueAmount(order[r])
      <4>1. /\ order[r].party \in Row
            /\ Write(r, order[r].party, balance, DueAmount(order[r]))
        BY <1>0, <1>2, <1>7, <2>1, <3>1 DEF ChargesCustomer, ChargeCustomer, Increment
      <4> HIDE DEF balance
      <4>2. \A x \in Row \ CountedRows(order[r]) :
              Left(order[r], step[r], todo[r], x)
                = At0(x, order[r].party, DueAmount(order[r]))
                  + Left(order[r], "commit", <<>>, x)
        BY <1>2, <2>1, <2>2 DEF At0
      <4>3. Holding(r) /\ order[r] \in Order /\ DueAmount(order[r]) \in Int
        BY <1>2, <2>1 DEF Holding
      <4> QED BY <1>0, <2>1, <4>1, <4>2, <4>3, PostWrites
    <3>2. CASE ~ChargesCustomer(order[r])
      <4>1. UNCHANGED storeVars /\ Holding(r)
        BY <1>7, <2>1, <3>2 DEF ChargeCustomer, Holding
      <4>2. \A x \in Row : Left(order[r], step'[r], todo'[r], x) = Left(order[r], step[r], todo[r], x)
        BY <1>0, <1>2, <2>1, <2>2, <3>2 DEF ChargesCustomer, At0
      <4>3. Post(r)'
        BY <2>1, <4>1, <4>2 DEF Booked, Post, Entered, storeVars
      <4> QED BY <4>1, <4>3, EndsEnter
    <3> QED BY <3>1, <3>2
  <2> QED BY <2>1, <2>3, BookGoesOn
<1>8. CASE CommitSale(r)
  <2>1. step[r] = "commit" /\ order[r].kind = "SALE" /\ Commit(r)
    BY <1>8 DEF CommitSale, At
  <2>2. \A row : Left(order[r], step[r], todo[r], row) = 0
    BY <2>1 DEF Left, Cash
  <2> QED BY <1>2, <2>1, <2>2, BookCommits DEF Holding
<1> QED BY <1>1, <1>3, <1>4, <1>5, <1>6, <1>7, <1>8 DEF SaleStep

\* createPurchase.
LEMMA PurchaseBook ==
  ASSUME Inv, LocksInv, NEW r \in Request, Booked(r), PurchaseStep(r)
  PROVE  BookStep(r)
<1> USE DEF Inv, StoreInv
<1>0. StockRow \subseteq Row /\ Supplier \subseteq Row /\ <<>> \in Seq(Line) /\ Null \notin Row
  BY RowStoreAssumption DEF Row
<1>1. CASE ReceivePurchase(r)
  <2>1. step'[r] = "check" /\ order'[r].kind = "PURCHASE" /\ step[r] = "idle" /\ UNCHANGED ledger
    BY <1>1, Arrives, EndsEnter DEF ReceivePurchase
  <2> QED BY <2>1 DEF BookStep, Booked, Post, Holding, InReturn, At, ReturnKind
<1>2. ASSUME step[r] # "idle", order[r].kind = "PURCHASE"
      PROVE  /\ order[r] \in Order /\ todo[r] \in Seq(Line)
             /\ order[r].lines \in Seq(Line) /\ OwedAmount(order[r]) \in Nat
             /\ order[r].party \in Supplier \cup {Null}
             /\ CountedRows(order[r]) = {}
  BY <1>2, OrderOf, PurchaseFields DEF CountedRows
<1>3. CASE OpenPurchase(r)
  <2>1. CASE Reject(r)
    BY <1>3, <2>1, BookStops DEF OpenPurchase, At, Running
  <2>2. CASE Goto(r, "read", order[r].lines, Null) /\ UNCHANGED storeVars
    <3>1. /\ step'[r] = "read" /\ order'[r] = order[r] /\ todo'[r] = order[r].lines
          /\ step[r] = "check" /\ order[r].kind = "PURCHASE" /\ UNCHANGED ledger
      BY <1>3, <2>2, Arrives, EndsEnter DEF OpenPurchase, At
    <3>2. \A row : Left(order[r], "read", order[r].lines, row) = Effect(order[r], row)
      BY <3>1, EffectLines DEF Left, Effect, Cash
    <3>3. ~Holding(r)
      BY <3>1 DEF Holding
    <3>4. Post(r)'
      BY <1>2, <2>2, <3>1, <3>2, <3>3, PostOpens
    <3> QED BY <3>1, <3>4, BookGoesOn
  <2> QED BY <1>3, <2>1, <2>2 DEF OpenPurchase, InsertDocument
<1>4. CASE ReadPurchaseLine(r)
  <2>1. /\ step'[r] = "write" /\ order'[r] = order[r] /\ todo'[r] = todo[r]
        /\ step[r] = "read" /\ order[r].kind = "PURCHASE" /\ UNCHANGED storeVars /\ UNCHANGED ledger
    BY <1>4, Arrives, EndsEnter DEF ReadPurchaseLine, At, Read
  <2>2. \A row : Left(order[r], "write", todo[r], row) = Left(order[r], "read", todo[r], row)
    BY <2>1 DEF Left, Cash
  <2>3. Post(r)'
    BY <2>1, <2>2, PostReads DEF Holding
  <2> QED BY <2>1, <2>3, BookGoesOn
<1>5. CASE WritePurchaseLine(r)
  <2> DEFINE line == Head(todo[r])
  <2>1. /\ step[r] = "write" /\ order[r].kind = "PURCHASE" /\ todo[r] # <<>>
        /\ WriteFromSeen(r, line.row, line.quantity, "read", Tail(todo[r]))
    BY <1>5 DEF WritePurchaseLine, At
  <2>2. /\ line.row \in Row /\ line.quantity \in Int
        /\ Tail(todo[r]) \in Seq(Line)
    BY <1>0, <1>2, <2>1, HeadTail
  <2>3. \A x \in Row \ CountedRows(order[r]) :
          Left(order[r], step[r], todo[r], x)
            = At0(x, line.row, line.quantity) + Left(order[r], "read", Tail(todo[r]), x)
    <3>1. \A x : Left(order[r], "write", todo[r], x)
                   = At0(x, line.row, 1 * line.quantity)
                     + Left(order[r], "read", Tail(todo[r]), x)
      BY <1>2, <2>1, LeftAfterLine
    <3>2. 1 * line.quantity = line.quantity
      BY <2>2
    <3> QED BY <2>1, <3>1, <3>2
  <2>4. Holding(r) /\ order[r] \in Order /\ order[r].kind \notin {"RECEIPT", "PAYMENT"}
    BY <1>2, <2>1 DEF Holding
  <2> HIDE DEF line
  <2> QED BY <2>1, <2>2, <2>3, <2>4, BookWrites
<1>6. CASE CreditSupplier(r)
  <2>1. /\ step[r] = "read" /\ order[r].kind = "PURCHASE" /\ todo[r] = <<>>
        /\ step'[r] = "commit" /\ order'[r] = order[r] /\ todo'[r] = <<>>
    BY <1>6, Arrives DEF CreditSupplier, At
  <2>2. \A x : /\ Left(order[r], "read", <<>>, x) = At0(x, order[r].party, OwedAmount(order[r]))
               /\ Left(order[r], "commit", <<>>, x) = 0
    BY <1>2, <2>1, LinesSumNat DEF Left, At0, Cash
  <2>3. Post(r)' /\ UNCHANGED ledger
    <3>1. CASE CreditsSupplier(order[r])
      <4> DEFINE balance == Qty(Seen(r, order[r].party)) + OwedAmount(order[r])
      <4>1. /\ order[r].party \in Row
            /\ Write(r, order[r].party, balance, OwedAmount(order[r]))
        BY <1>0, <1>2, <1>6, <2>1, <3>1 DEF CreditsSupplier, CreditSupplier, Increment
      <4> HIDE DEF balance
      <4>2. \A x \in Row \ CountedRows(order[r]) :
              Left(order[r], step[r], todo[r], x)
                = At0(x, order[r].party, OwedAmount(order[r]))
                  + Left(order[r], "commit", <<>>, x)
        BY <1>2, <2>1, <2>2 DEF At0
      <4>3. Holding(r) /\ order[r] \in Order /\ OwedAmount(order[r]) \in Int
        BY <1>2, <2>1 DEF Holding
      <4> QED BY <1>0, <2>1, <4>1, <4>2, <4>3, PostWrites
    <3>2. CASE ~CreditsSupplier(order[r])
      <4>1. UNCHANGED storeVars /\ Holding(r)
        BY <1>6, <2>1, <3>2 DEF CreditSupplier, Holding
      <4>2. \A x \in Row : Left(order[r], step'[r], todo'[r], x) = Left(order[r], step[r], todo[r], x)
        BY <1>0, <1>2, <2>1, <2>2, <3>2 DEF CreditsSupplier, At0
      <4>3. Post(r)'
        BY <2>1, <4>1, <4>2 DEF Booked, Post, Entered, storeVars
      <4> QED BY <4>1, <4>3, EndsEnter
    <3> QED BY <3>1, <3>2
  <2> QED BY <2>1, <2>3, BookGoesOn
<1>7. CASE CommitPurchase(r)
  <2>1. step[r] = "commit" /\ order[r].kind = "PURCHASE" /\ Commit(r)
    BY <1>7 DEF CommitPurchase, At
  <2>2. \A row : Left(order[r], step[r], todo[r], row) = 0
    BY <2>1 DEF Left, Cash
  <2> QED BY <1>2, <2>1, <2>2, BookCommits DEF Holding
<1> QED BY <1>1, <1>3, <1>4, <1>5, <1>6, <1>7 DEF PurchaseStep

\* recordStockMovement and adjustStock, which have no transaction: the movement
\* of the quantity is the record.
LEMMA InventoryBook ==
  ASSUME Inv, LocksInv, NEW r \in Request, Booked(r), InventoryStep(r)
  PROVE  BookStep(r)
<1> USE DEF Inv, StoreInv
<1>0. StockRow \subseteq Row
  BY DEF Row
<1>1. ASSUME step[r] # "done", step'[r] # "done",
             order'[r].kind \in {"MOVEMENT", "COUNT"}, UNCHANGED ledger,
             order'[r].kind = "MOVEMENT" => diff'[r] = order'[r].quantity
      PROVE  BookStep(r)
  BY <1>1 DEF BookStep, Booked, Post, Holding, InReturn, At, ReturnKind
<1>2. CASE ReceiveMovement(r)
  <2>1. PICK o \in Order : /\ o.kind = "MOVEMENT"
                           /\ step[r] = "idle"
                           /\ order' = [order EXCEPT ![r] = o]
                           /\ step'  = [step EXCEPT ![r] = "read"]
                           /\ diff'  = [diff EXCEPT ![r] = o.quantity]
                           /\ UNCHANGED storeVars
    BY <1>2 DEF ReceiveMovement
  <2>2. order'[r] = o /\ step'[r] = "read" /\ diff'[r] = o.quantity
    BY <2>1 DEF SessionTypeOK
  <2> QED BY <1>1, <2>1, <2>2, EndsEnter
<1>3. CASE ReceiveCount(r)
  <2>1. step[r] = "idle" /\ step'[r] = "count" /\ order'[r].kind = "COUNT" /\ UNCHANGED ledger
    BY <1>3, Arrives, EndsEnter DEF ReceiveCount
  <2> QED BY <1>1, <2>1
<1>4. CASE CompareCount(r)
  <2>1. CASE Reject(r)
    BY <1>4, <2>1, BookStops DEF CompareCount, At, Running
  <2>2. CASE /\ step' = [step EXCEPT ![r] = "read"] /\ UNCHANGED order /\ UNCHANGED storeVars
    <3>1. /\ step[r] = "count" /\ step'[r] = "read" /\ order'[r].kind = "COUNT"
          /\ UNCHANGED ledger
      BY <1>4, <2>2, EndsEnter DEF CompareCount, At, SessionTypeOK
    <3> QED BY <1>1, <3>1
  <2> QED BY <1>4, <2>1, <2>2 DEF CompareCount
<1>5. ASSUME NEW s, InMovement(r, s), s \in {"read", "write", "log"}
      PROVE  /\ step[r] = s /\ order[r] \in Order /\ order[r].row \in Row
             /\ order[r].kind \in {"MOVEMENT", "COUNT"}
             /\ order[r].kind = "MOVEMENT" => diff[r] = order[r].quantity
  BY <1>0, <1>5, OrderOf, StockFields DEF InMovement, At, Booked
<1>6. CASE ReadStock(r)
  <2>1. /\ step'[r] = "write" /\ order'[r] = order[r] /\ diff'[r] = diff[r]
        /\ UNCHANGED ledger
    BY <1>6, Arrives, EndsEnter DEF ReadStock, Read
  <2> QED BY <1>1, <1>5, <1>6, <2>1 DEF ReadStock
<1>7. CASE WriteStock(r)
  <2>1. CASE Reject(r)
    BY <1>5, <1>7, <2>1, BookStops DEF WriteStock, Running
  <2>2. CASE Autocommit(r, order[r].row, seen[r], diff[r]) /\ Goto(r, "log", <<>>, Null)
    <3>1. /\ step'[r] = "log" /\ order'[r] = order[r] /\ diff'[r] = diff[r]
          /\ UNCHANGED ledger
      BY <2>2, Arrives DEF Autocommit
    <3> QED BY <1>1, <1>5, <1>7, <3>1 DEF WriteStock
  <2> QED BY <1>7, <2>1, <2>2 DEF WriteStock
<1>8. CASE LogMovement(r)
  <2>1. /\ step[r] = "log" /\ order[r] \in Order /\ order[r].row \in Row
        /\ order[r].kind \in {"MOVEMENT", "COUNT"}
        /\ order[r].kind = "MOVEMENT" => diff[r] = order[r].quantity
        /\ InsertMovement(order[r].row, diff[r])
        /\ step'[r] = "done" /\ order'[r] = order[r]
    BY <1>5, <1>8, Arrives DEF LogMovement
  <2>2. \A row \in Row : ledger'[row] = ledger[row] + At0(row, order[r].row, diff[r])
    BY <2>1 DEF InsertMovement, At0, StoreTypeOK
  <2>3. \A row \in Row \ CountedRows(order[r]) :
          Effect(order[r], row) = At0(row, order[r].row, diff[r])
    <3>1. CASE order[r].kind = "MOVEMENT"
      BY <2>1, <3>1 DEF Effect, Cash
    <3>2. CASE order[r].kind = "COUNT"
      BY <3>2 DEF Effect, At0, CountedRows, Cash
    <3> QED BY <2>1, <3>1, <3>2
  <2>4. RecordStep(r)
    BY <2>1, <2>2, <2>3 DEF RecordStep
  <2>5. Booked(r)'
    BY <2>1 DEF Booked, Post, Holding, InReturn, At
  <2> QED BY <2>1, <2>4, <2>5 DEF BookStep
<1> QED BY <1>2, <1>3, <1>4, <1>6, <1>7, <1>8 DEF InventoryStep

\* transferStock.
LEMMA TransferBook ==
  ASSUME Inv, LocksInv, NEW r \in Request, Booked(r), TransferStep(r)
  PROVE  BookStep(r)
<1> USE DEF Inv, StoreInv
<1>0. StockRow \subseteq Row /\ <<>> \in Seq(Line)
  BY DEF Row
<1>1. ASSUME NEW s, At(r, "TRANSFER", s), s # "idle"
      PROVE  /\ step[r] = s /\ order[r] \in Order /\ order[r].kind = "TRANSFER"
             /\ Source(order[r]) \in Row /\ Target(order[r]) \in Row
             /\ order[r].quantity \in Int /\ -order[r].quantity \in Int
             /\ todo[r] \in Seq(Line) /\ CountedRows(order[r]) = {}
  BY <1>0, <1>1, OrderOf, TransferFields DEF At, CountedRows
<1>2. ASSUME NEW o \in Order, o.kind = "TRANSFER", NEW lines, NEW x
      PROVE  /\ Left(o, "write", lines, x) = Effect(o, x)
             /\ Left(o, "write", lines, x) = At0(x, Source(o), -o.quantity)
                                             + Left(o, "readSecond", <<>>, x)
             /\ Left(o, "readSecond", lines, x) = Left(o, "writeSecond", lines, x)
             /\ Left(o, "writeSecond", lines, x) = At0(x, Target(o), o.quantity)
                                                   + Left(o, "commit", <<>>, x)
             /\ Left(o, "commit", lines, x) = 0
  BY <1>2, TransferFields DEF Left, Effect, At0, Cash
<1>3. CASE ReceiveTransfer(r)
  <2>1. step'[r] = "check" /\ order'[r].kind = "TRANSFER" /\ step[r] = "idle" /\ UNCHANGED ledger
    BY <1>3, Arrives, EndsEnter DEF ReceiveTransfer
  <2> QED BY <2>1 DEF BookStep, Booked, Post, Holding, InReturn, At, ReturnKind
<1>4. CASE ReadSource(r)
  <2>1. CASE Reject(r)
    BY <1>4, <2>1, BookStops DEF ReadSource, At, Running
  <2>2. CASE Read(r, Source(order[r]), "write")
    <3>1. /\ step'[r] = "write" /\ order'[r] = order[r] /\ todo'[r] = todo[r]
          /\ UNCHANGED storeVars /\ UNCHANGED ledger
      BY <2>2, Arrives, EndsEnter DEF Read
    <3>2. step[r] = "check" /\ ~Holding(r)
      BY <1>4 DEF ReadSource, At, Holding
    <3>3. Post(r)'
      BY <1>1, <1>2, <1>4, <3>1, <3>2, PostOpens DEF ReadSource
    <3> QED BY <1>1, <1>4, <3>1, <3>2, <3>3, BookGoesOn DEF ReadSource
  <2> QED BY <1>4, <2>1, <2>2 DEF ReadSource
<1>5. CASE WriteSource(r)
  <2>1. /\ step[r] = "write" /\ Holding(r) /\ order[r].kind = "TRANSFER"
        /\ WriteFromSeen(r, Source(order[r]), -order[r].quantity, "readSecond", <<>>)
    BY <1>5 DEF WriteSource, At, Holding
  <2>2. /\ order[r] \in Order /\ Source(order[r]) \in Row /\ -order[r].quantity \in Int
        /\ order[r].kind \notin {"RECEIPT", "PAYMENT"}
    BY <1>1, <1>5 DEF WriteSource
  <2>3. \A x \in Row \ CountedRows(order[r]) :
          Left(order[r], step[r], todo[r], x)
            = At0(x, Source(order[r]), -order[r].quantity) + Left(order[r], "readSecond", <<>>, x)
    BY <1>2, <2>1, <2>2
  <2> QED BY <1>0, <2>1, <2>2, <2>3, BookWrites
<1>6. CASE ReadTarget(r)
  <2>1. /\ step'[r] = "writeSecond" /\ order'[r] = order[r] /\ todo'[r] = todo[r]
        /\ step[r] = "readSecond" /\ order[r].kind = "TRANSFER" /\ UNCHANGED storeVars
        /\ UNCHANGED ledger /\ Holding(r)
    BY <1>6, Arrives, EndsEnter DEF ReadTarget, At, Read, Holding
  <2>2. Post(r)'
    BY <1>1, <1>2, <1>6, <2>1, PostReads DEF ReadTarget
  <2> QED BY <2>1, <2>2, BookGoesOn
<1>7. CASE WriteTarget(r)
  <2>1. /\ step[r] = "writeSecond" /\ Holding(r) /\ order[r].kind = "TRANSFER"
        /\ WriteFromSeen(r, Target(order[r]), order[r].quantity, "commit", <<>>)
    BY <1>7 DEF WriteTarget, At, Holding
  <2>2. /\ order[r] \in Order /\ Target(order[r]) \in Row /\ order[r].quantity \in Int
        /\ order[r].kind \notin {"RECEIPT", "PAYMENT"}
    BY <1>1, <1>7 DEF WriteTarget
  <2>3. \A x \in Row \ CountedRows(order[r]) :
          Left(order[r], step[r], todo[r], x)
            = At0(x, Target(order[r]), order[r].quantity) + Left(order[r], "commit", <<>>, x)
    BY <1>2, <2>1, <2>2
  <2> QED BY <1>0, <2>1, <2>2, <2>3, BookWrites
<1>8. CASE CommitTransfer(r)
  <2>1. step[r] = "commit" /\ order[r].kind = "TRANSFER" /\ Commit(r) /\ Holding(r)
    BY <1>8 DEF CommitTransfer, At, Holding
  <2> QED BY <1>1, <1>2, <1>8, <2>1, BookCommits DEF CommitTransfer
<1> QED BY <1>3, <1>4, <1>5, <1>6, <1>7, <1>8 DEF TransferStep

\* processVoucher and processExpense.
LEMMA VoucherBook ==
  ASSUME Inv, LocksInv, NEW r \in Request, Booked(r), VoucherStep(r)
  PROVE  BookStep(r)
<1> USE DEF Inv, StoreInv
<1>0. <<>> \in Seq(Line)
  OBVIOUS
<1>1. ASSUME NEW s, InCash(r, s), s # "idle"
      PROVE  /\ step[r] = s /\ order[r] \in Order /\ order[r].kind \in Cash
             /\ order[r].cashbox \in Row /\ CashChange(order[r]) \in Int
             /\ todo[r] \in Seq(Line) /\ CountedRows(order[r]) = {}
  BY <1>1, OrderOf, CashFields DEF InCash, At, CashChange, Row, CountedRows, Cash
<1>2. ASSUME NEW s, At(r, "RECEIPT", s) \/ At(r, "PAYMENT", s), s # "idle"
      PROVE  /\ step[r] = s /\ order[r] \in Order /\ order[r].kind \in {"RECEIPT", "PAYMENT"}
             /\ order[r].party # Null => order[r].party \in Row
             /\ -order[r].amount \in Int
             /\ todo[r] \in Seq(Line) /\ CountedRows(order[r]) = {}
  BY <1>2, OrderOf, CashFields DEF At, Row, Cash, CountedRows
<1>3. ASSUME NEW o \in Order, o.kind \in Cash, NEW lines, NEW x
      PROVE  /\ Left(o, "write", lines, x) = Effect(o, x)
             /\ o.kind # "EXPENSE" =>
                  Left(o, "write", lines, x) = At0(x, o.cashbox, CashChange(o))
                                               + Left(o, "readSecond", <<>>, x)
             /\ o.kind = "EXPENSE" =>
                  Left(o, "write", lines, x) = At0(x, o.cashbox, CashChange(o))
                                               + Left(o, "commit", <<>>, x)
             /\ Left(o, "readSecond", lines, x) = Left(o, "writeSecond", lines, x)
             /\ Left(o, "writeSecond", lines, x) = At0(x, o.party, -o.amount)
                                                   + Left(o, "commit", <<>>, x)
             /\ Left(o, "commit", lines, x) = 0
  BY <1>3, CashFields DEF Left, Effect, At0, Cash, CashChange
<1>4. CASE ReceiveCash(r)
  <2>1. step'[r] = "check" /\ order'[r].kind \in Cash /\ step[r] = "idle" /\ UNCHANGED ledger
    BY <1>4, Arrives, EndsEnter DEF ReceiveCash
  <2> QED BY <2>1 DEF BookStep, Booked, Post, Holding, InReturn, At, ReturnKind, Cash
<1>5. CASE ReadCashbox(r)
  <2>1. step[r] = "check" /\ order[r] \in Order /\ order[r].kind \in Cash /\ todo[r] \in Seq(Line)
    BY <1>1, <1>5 DEF ReadCashbox
  <2>2. CASE Reject(r)
    BY <2>1, <2>2, BookStops DEF Running
  <2>3. CASE Read(r, order[r].cashbox, "write")
    <3>1. /\ step'[r] = "write" /\ order'[r] = order[r] /\ todo'[r] = todo[r]
          /\ UNCHANGED storeVars /\ UNCHANGED ledger
      BY <2>3, Arrives, EndsEnter DEF Read
    <3>2. ~Holding(r)
      BY <2>1 DEF Holding
    <3>3. Post(r)'
      BY <1>3, <2>1, <3>1, <3>2, PostOpens
    <3> QED BY <2>1, <3>1, <3>3, BookGoesOn DEF Cash
  <2> QED BY <1>5, <2>2, <2>3 DEF ReadCashbox
<1>6. CASE WriteCashbox(r)
  <2> DEFINE s == IF order[r].kind = "EXPENSE" THEN "commit" ELSE "readSecond"
  <2>1. /\ step[r] = "write" /\ order[r] \in Order /\ order[r].kind \in Cash
        /\ order[r].cashbox \in Row /\ CashChange(order[r]) \in Int /\ Holding(r)
        /\ WriteFromSeen(r, order[r].cashbox, CashChange(order[r]), s, <<>>)
    BY <1>1, <1>6 DEF WriteCashbox, Holding, Cash
  <2>2. /\ s \in {"readSecond", "commit"}
        /\ order[r].kind \in {"RECEIPT", "PAYMENT"} => s = "readSecond"
    OBVIOUS
  <2>3. \A x \in Row \ CountedRows(order[r]) :
          Left(order[r], step[r], todo[r], x)
            = At0(x, order[r].cashbox, CashChange(order[r])) + Left(order[r], s, <<>>, x)
    BY <1>3, <2>1
  <2> HIDE DEF s
  <2> QED BY <1>0, <2>1, <2>2, <2>3, BookWrites
<1>7. CASE ReadParty(r)
  <2>1. /\ step[r] = "readSecond" /\ order[r] \in Order /\ Holding(r)
        /\ order[r].kind \in {"RECEIPT", "PAYMENT"}
    BY <1>2, <1>7 DEF ReadParty, Holding
  <2>2. CASE Reject(r)
    BY <2>1, <2>2, BookStops DEF Running
  <2>3. CASE order[r].party # Null /\ Read(r, order[r].party, "writeSecond")
    <3>1. /\ step'[r] = "writeSecond" /\ order'[r] = order[r] /\ todo'[r] = todo[r]
          /\ UNCHANGED storeVars /\ UNCHANGED ledger
      BY <2>3, Arrives, EndsEnter DEF Read
    <3>2. Post(r)'
      BY <1>3, <2>1, <3>1, PostReads DEF Cash
    <3> QED BY <2>1, <2>3, <3>1, <3>2, BookGoesOn
  <2> QED BY <1>7, <2>2, <2>3 DEF ReadParty
<1>8. CASE WriteParty(r)
  <2>1. /\ step[r] = "writeSecond" /\ order[r] \in Order /\ Holding(r)
        /\ order[r].kind \in {"RECEIPT", "PAYMENT"} /\ order[r].party # Null
        /\ order[r].party \in Row /\ -order[r].amount \in Int
        /\ WriteFromSeen(r, order[r].party, -order[r].amount, "commit", <<>>)
    BY <1>2, <1>8 DEF WriteParty, Holding
  <2>2. \A x \in Row \ CountedRows(order[r]) :
          Left(order[r], step[r], todo[r], x)
            = At0(x, order[r].party, -order[r].amount) + Left(order[r], "commit", <<>>, x)
    BY <1>3, <2>1 DEF Cash
  <2> QED BY <1>0, <2>1, <2>2, BookWrites
<1>9. CASE CommitCash(r)
  <2>1. /\ step[r] = "commit" /\ order[r] \in Order /\ order[r].kind \in Cash
        /\ Holding(r) /\ Commit(r)
    BY <1>1, <1>9 DEF CommitCash, Holding, Cash
  <2>2. \A x \in Row \ CountedRows(order[r]) : Left(order[r], step[r], todo[r], x) = 0
    BY <1>3, <2>1
  <2> QED BY <2>1, <2>2, BookCommits
<1> QED BY <1>4, <1>5, <1>6, <1>7, <1>8, <1>9 DEF VoucherStep

\* processReturn and processStockAdjustment.
LEMMA ReturnBook ==
  ASSUME Inv, LocksInv, NEW r \in Request, Booked(r), ReturnStep(r)
  PROVE  BookStep(r)
<1> USE DEF Inv, StoreInv
<1>0. StockRow \subseteq Row /\ <<>> \in Seq(Line)
  BY DEF Row
<1>1. ASSUME NEW s, InReturn(r, s), s # "idle"
      PROVE  /\ step[r] = s /\ order[r] \in Order /\ order[r].kind \in ReturnKind
             /\ todo[r] \in Seq(Line) /\ order[r].lines \in Seq(Line)
             /\ CountedRows(order[r]) = {}
  BY <1>1, OrderOf, ReturnFields DEF InReturn, At, ReturnKind, CountedRows
<1>2. ASSUME NEW s, At(r, "ADJUSTMENT", s), s # "idle"
      PROVE  /\ step[r] = s /\ order[r] \in Order /\ order[r].kind = "ADJUSTMENT"
             /\ order[r].row \in Row /\ order[r].actual - Qty(seen[r]) \in Int
             /\ todo[r] \in Seq(Line)
  BY <1>0, <1>2, OrderOf, StockFields, QtyInt DEF At, SessionTypeOK
<1>3. ASSUME NEW o, o.kind = "ADJUSTMENT", NEW s, NEW lines, NEW x \in Row \ CountedRows(o)
      PROVE  Left(o, s, lines, x) = 0 /\ Effect(o, x) = 0 /\ x # o.row
  BY <1>3 DEF Left, Effect, CountedRows, Cash
<1>4. CASE ReceiveReturn(r)
  <2>1. PICK o \in Order : o.kind \in ReturnKind /\ Receive(r, o, "check", o.lines)
    BY <1>4 DEF ReceiveReturn
  <2>2. /\ step[r] = "idle" /\ step'[r] = "check" /\ order'[r] = o /\ todo'[r] = o.lines
        /\ UNCHANGED ledger
    BY <2>1, Arrives, EndsEnter
  <2> QED BY <2>1, <2>2 DEF BookStep, Booked, Post, Holding, ReturnKind
<1>5. CASE CheckReturn(r)
  <2>1. /\ step[r] = "check" /\ order[r] \in Order /\ order[r].kind \in ReturnKind
        /\ todo[r] = order[r].lines /\ order[r].lines \in Seq(Line) /\ ~Holding(r)
    BY <1>1, <1>5 DEF CheckReturn, Booked, Holding
  <2>2. CASE Reject(r)
    BY <2>1, <2>2, BookStops DEF Running
  <2>3. CASE step' = [step EXCEPT ![r] = "write"] /\ UNCHANGED <<order, todo>> /\ UNCHANGED storeVars
    <3>1. step'[r] = "write" /\ order'[r] = order[r] /\ todo'[r] = todo[r] /\ UNCHANGED ledger
      BY <2>3, EndsEnter DEF SessionTypeOK
    <3>2. \A row : Left(order[r], "write", order[r].lines, row) = Effect(order[r], row)
      BY <2>1, EffectLines DEF Left, Effect, ReturnKind
    <3>3. Post(r)'
      BY <2>1, <2>3, <3>1, <3>2, PostOpens
    <3> QED BY <2>1, <3>1, <3>3, BookGoesOn DEF ReturnKind
  <2> QED BY <1>5, <2>2, <2>3 DEF CheckReturn
<1>6. CASE TakeBackLine(r) \/ SendBackLine(r)
  <2> DEFINE line == Head(todo[r])
             sign == IF order[r].kind \in {"SALE", "PURCHASE_RETURN"} THEN -1 ELSE 1
             amount == sign * line.quantity
  <2>1. /\ step[r] = "write" /\ order[r] \in Order /\ order[r].kind \in ReturnKind
        /\ todo[r] \in Seq(Line) /\ todo[r] # <<>> /\ Holding(r)
    BY <1>6, OrderOf DEF TakeBackLine, SendBackLine, At, ReturnKind, Holding
  <2>2. /\ line.row \in Row /\ line.quantity \in Nat /\ Tail(todo[r]) \in Seq(Line)
    BY <1>0, <2>1, HeadTail
  <2>3. CASE Reject(r)
    BY <2>1, <2>3, BookStops DEF Running
  <2>4. CASE Increment(r, line.row, amount) /\ Goto(r, "write", Tail(todo[r]), Null)
    <3>1. step'[r] = "write" /\ todo'[r] = Tail(todo[r]) /\ order'[r] = order[r]
      BY <2>4, Arrives
    <3>2. \A x \in Row \ CountedRows(order[r]) :
            Left(order[r], step[r], todo[r], x)
              = At0(x, line.row, amount) + Left(order[r], "write", Tail(todo[r]), x)
      BY <2>1, LeftAfterLine
    <3>3. amount \in Int
      BY <2>2
    <3> HIDE DEF line, amount
    <3>4. PICK balance : Write(r, line.row, balance, amount)
      BY <2>4 DEF Increment
    <3>5. Post(r)' /\ UNCHANGED ledger
      BY <2>1, <2>2, <3>1, <3>2, <3>3, <3>4, PostWrites
    <3> QED BY <2>1, <3>1, <3>5, BookGoesOn DEF ReturnKind
  <2>5. (1 * line.quantity = line.quantity) /\ ((-1) * line.quantity = -line.quantity)
    BY <2>2
  <2>6. TakeBackLine(r) => Increment(r, line.row, amount) /\ Goto(r, "write", Tail(todo[r]), Null)
    BY <2>5 DEF TakeBackLine, At
  <2>7. SendBackLine(r) =>
          Reject(r) \/ (Increment(r, line.row, amount) /\ Goto(r, "write", Tail(todo[r]), Null))
    BY <2>5 DEF SendBackLine, At
  <2> QED BY <1>6, <2>3, <2>4, <2>6, <2>7
<1>7. CASE CommitReturn(r)
  <2>1. /\ step[r] = "write" /\ order[r] \in Order /\ order[r].kind \in ReturnKind
        /\ todo[r] = <<>> /\ Holding(r) /\ Commit(r)
    BY <1>1, <1>7 DEF CommitReturn, Holding, ReturnKind
  <2>2. \A x \in Row \ CountedRows(order[r]) : Left(order[r], step[r], todo[r], x) = 0
    <3>1. \A x : LinesSum(<<>>, x) = 0
      BY LinesSumNat
    <3> QED BY <2>1, <3>1 DEF Left, ReturnKind, Cash
  <2> QED BY <2>1, <2>2, BookCommits DEF ReturnKind
<1>8. CASE ReceiveAdjustment(r)
  <2>1. PICK o \in Order : o.kind = "ADJUSTMENT" /\ Receive(r, o, "read", <<>>)
    BY <1>8 DEF ReceiveAdjustment
  <2>2. /\ step[r] = "idle" /\ step'[r] = "read" /\ order'[r] = o /\ todo'[r] = <<>>
        /\ UNCHANGED storeVars /\ UNCHANGED ledger /\ ~Holding(r)
    BY <2>1, Arrives, EndsEnter DEF Holding
  <2>3. \A x \in Row \ CountedRows(o) : Left(o, step'[r], <<>>, x) = Effect(o, x)
    <3>1. \A x \in Row \ CountedRows(o) : Left(o, "read", <<>>, x) = 0 /\ Effect(o, x) = 0
      BY <1>3, <2>1
    <3> QED BY <2>2, <3>1
  <2>4. Post(r)'
    BY <1>0, <2>1, <2>2, <2>3, PostOpens
  <2> QED BY <2>1, <2>2, <2>4, BookGoesOn
<1>9. CASE ReadAdjusted(r)
  <2>1. /\ step[r] = "read" /\ order[r] \in Order /\ order[r].kind = "ADJUSTMENT" /\ Holding(r)
    BY <1>2, <1>9 DEF ReadAdjusted, Holding
  <2>2. CASE Commit(r)
    BY <1>3, <2>1, <2>2, BookCommits
  <2>3. CASE Read(r, order[r].row, "write")
    <3>1. /\ step'[r] = "write" /\ order'[r] = order[r] /\ todo'[r] = todo[r]
          /\ UNCHANGED storeVars /\ UNCHANGED ledger
      BY <2>3, Arrives, EndsEnter DEF Read
    <3>2. \A x : Left(order[r], "write", todo[r], x) = Left(order[r], "read", todo[r], x)
      BY <2>1 DEF Left, Cash
    <3>3. Post(r)'
      BY <2>1, <3>1, <3>2, PostReads
    <3> QED BY <2>1, <3>1, <3>3, BookGoesOn
  <2> QED BY <1>9, <2>2, <2>3 DEF ReadAdjusted
<1>10. CASE WriteAdjusted(r)
  <2> DEFINE amount == order[r].actual - Qty(seen[r])
  <2>1. /\ step[r] = "write" /\ order[r] \in Order /\ order[r].kind = "ADJUSTMENT" /\ Holding(r)
        /\ order[r].row \in Row /\ amount \in Int
        /\ WriteFromSeen(r, order[r].row, amount, "commit", <<>>)
    BY <1>2, <1>10 DEF WriteAdjusted, Holding
  <2> HIDE DEF amount
  <2>2. \A x \in Row \ CountedRows(order[r]) :
          Left(order[r], step[r], todo[r], x)
            = At0(x, order[r].row, amount) + Left(order[r], "commit", <<>>, x)
    BY <1>3, <2>1 DEF At0
  <2> QED BY <1>0, <2>1, <2>2, BookWrites
<1>11. CASE CommitAdjustment(r)
  <2>1. /\ step[r] = "commit" /\ order[r] \in Order /\ order[r].kind = "ADJUSTMENT"
        /\ Holding(r) /\ Commit(r)
    BY <1>2, <1>11 DEF CommitAdjustment, Holding
  <2> QED BY <1>3, <2>1, BookCommits
<1> QED BY <1>4, <1>5, <1>6, <1>7, <1>8, <1>9, <1>10, <1>11 DEF ReturnStep

-----------------------------------------------------------------------------
\* BookInv at the start.
LEMMA BookInit == Init => BookInv
BY DEF Init, SessionInit, BookInv, Booked, Post, Holding, InReturn, At, ReturnKind

\* Each step enters what its handler leaves to enter, or records it.
LEMMA BookSteps ==
  ASSUME Inv, LocksInv, BookInv, NEW r \in Request,
         Handler(r) \/ Interruption(r) \/ DeadlockVictim(r)
  PROVE  BookStep(r) /\ [Statement(r)]_storeVars /\ \A x \in Request \ {r} : SameSession(x)
<1> USE DEF Inv
<1>1. CASE Handler(r)
  <2>1. BookStep(r)
    BY <1>1, SaleBook, PurchaseBook, InventoryBook, TransferBook, VoucherBook, ReturnBook
       DEF Handler, BookInv
  <2> QED BY <1>1, <2>1, HandlerStatement, HandlerFrame
<1>2. CASE Interruption(r) \/ DeadlockVictim(r)
  BY <1>2, StopOf, BookStops, HelperFrame DEF Statement
<1> QED BY <1>1, <1>2

\* A step of the system is a step of one request's entries, or of none.
LEMMA BookNext ==
  ASSUME Inv, LocksInv, BookInv, Next
  PROVE  /\ BookInv'
         /\ \/ \E r \in Request : BookStep(r) /\ \A x \in Request \ {r} : SameSession(x)
            \/ UNCHANGED vars
<1> USE DEF Inv
<1>1. ASSUME NEW r \in Request, BookStep(r), [Statement(r)]_storeVars,
             \A x \in Request \ {r} : SameSession(x)
      PROVE  BookInv'
  <2> SUFFICES ASSUME NEW x \in Request \ {r} PROVE Booked(x)'
    BY <1>1 DEF BookInv, BookStep
  <2>1. Booked(x) /\ SameSession(x)
    BY <1>1 DEF BookInv
  <2>2. \A row \in Row : Entered(x, row)' = Entered(x, row)
    BY <1>1, StatementFrame
  <2>3. Post(x)'
    BY <2>1, <2>2 DEF Booked, Post, Holding, SameSession
  <2> QED BY <2>1, <2>3 DEF Booked, InReturn, At, SameSession
<1>2. ASSUME NEW r \in Request, Handler(r) \/ Interruption(r) \/ DeadlockVictim(r)
      PROVE  BookStep(r) /\ [Statement(r)]_storeVars /\ \A x \in Request \ {r} : SameSession(x)
  BY <1>2, BookSteps
<1>3. ASSUME UNCHANGED vars PROVE BookInv'
  BY <1>3 DEF BookInv, Booked, Post, Entered, Holding, InReturn, At, vars, storeVars, sessionVars
<1> QED BY <1>1, <1>2, <1>3 DEF Next, AtRest

\* What a handler has entered and what it has left make up its order, always.
LEMMA BookInvariance == Spec => [](Inv /\ LocksInv /\ BookInv)
<1>1. Inv /\ LocksInv /\ BookInv /\ [Next]_vars => BookInv'
  BY BookNext DEF BookInv, Booked, Post, Entered, Holding, InReturn, At, vars, storeVars,
     sessionVars
<1> QED BY <1>1, BookInit, Invariance, LocksInvariance, PTL DEF Spec

\* The book takes in an order whole, when its request is answered with success.
LEMMA StepRecords ==
  ASSUME Inv, LocksInv, BookInv, [Next]_vars
  PROVE  [Book!Next]_<<ledger, {<<r, order[r]>> : r \in {q \in Request : step[q] = "done"}}>>
<1> DEFINE done == {q \in Request : step[q] = "done"}
           recorded == {<<r, order[r]>> : r \in done}
<1>1. CASE UNCHANGED vars
  BY <1>1 DEF vars, storeVars, sessionVars
<1>2. CASE Next /\ ~UNCHANGED vars
  <2>1. PICK r \in Request : BookStep(r) /\ \A x \in Request \ {r} : SameSession(x)
    BY <1>2, BookNext
  <2>2. \A x \in Request \ {r} : order'[x] = order[x] /\ (x \in done' <=> x \in done)
    BY <2>1 DEF SameSession
  <2>3. CASE step'[r] # "done" /\ UNCHANGED ledger
    <3>1. done' = done /\ r \notin done
      BY <2>1, <2>2, <2>3 DEF BookStep
    <3>2. recorded' = recorded
      BY <2>2, <3>1
    <3> QED BY <2>3, <3>2
  <2>4. CASE RecordStep(r)
    <3>1. done' = done \cup {r} /\ r \notin done
      BY <2>1, <2>2, <2>4 DEF BookStep, RecordStep
    <3>2. recorded' = recorded \cup {<<r, order[r]>>} /\ \A entry \in recorded : entry[1] # r
      BY <2>2, <2>4, <3>1 DEF RecordStep
    <3>3. PICK o \in Order : o = order[r]
      BY <2>4 DEF RecordStep
    <3>4. Book!Record(r, o)
      BY <2>4, <3>2, <3>3 DEF RecordStep, Book!Record
    <3> QED BY <3>4 DEF Book!Next
  <2> QED BY <2>1, <2>3, <2>4 DEF BookStep
<1> QED BY <1>1, <1>2

\* Bookkeeping implements AtomicLedger: the movements of an order enter the ledger
\* all at once, when the order is answered with success, and nothing of an order
\* enters that is refused, interrupted or chosen as the victim of a deadlock.
THEOREM ImplementsAtomicLedger == Spec => RecordsOrdersOnce
<1>1. Init => Book!Init
  BY DEF Init, StoreInit, SessionInit, Book!Init
<1>2. Inv /\ LocksInv /\ BookInv /\ [Next]_vars =>
        [Book!Next]_<<ledger, {<<r, order[r]>> : r \in {q \in Request : step[q] = "done"}}>>
  BY StepRecords
<1> QED BY <1>1, <1>2, BookInvariance, PTL DEF Spec, RecordsOrdersOnce, Book!Spec

-----------------------------------------------------------------------------
(* Goods in all warehouses. *)

\* The orders that move goods between warehouses, return them, or move cash.
GoodsOrders == \A o \in Order : o.kind \in ReturnKind \cup Cash \cup {"TRANSFER"}

\* Each warehouse's gain of a product, and what was returned of it by invoice.
Gain(p) == [w \in Warehouse |-> ledger[<<w, p>>] - Qty(Opening[<<w, p>>])]
Back(p) == [doc \in Invoice |-> returned[doc][p]]

GoodsInv ==
  \A p \in Product :
    SumFunctionOnSet(Gain(p), Warehouse) =
      SumFunctionOnSet(Back(p), SaleInvoice) - SumFunctionOnSet(Back(p), PurchaseInvoice)

\* What an order adds to the goods in all warehouses.
Added(o, p) == CASE o.kind = "SALE_RETURN" -> RequestedQty(o, p)
                 [] o.kind = "PURCHASE_RETURN" -> -RequestedQty(o, p)
                 [] OTHER -> 0

\* A return is of an invoice of its side, and its lines are spread over warehouses.
LEMMA ReturnGoods ==
  ASSUME NEW o \in Order, o.kind \in ReturnKind, NEW p \in Product
  PROVE  /\ o.kind = "SALE_RETURN" => o.invoice \in SaleInvoice
         /\ o.kind = "PURCHASE_RETURN" => o.invoice \in PurchaseInvoice
         /\ \A w \in Warehouse : SumOfLines(o, <<w, p>>) \in Int
         /\ RequestedQty(o, p) \in Nat
         /\ p \notin RequestedProducts(o) => RequestedQty(o, p) = 0
         /\ SumFunctionOnSet([w \in Warehouse |-> SumOfLines(o, <<w, p>>)], Warehouse)
              = RequestedQty(o, p)
<1> DEFINE f == [i \in DOMAIN o.lines |-> o.lines[i].quantity]
           g == [i \in DOMAIN o.lines |-> o.lines[i].row[1]]
           S == {i \in DOMAIN o.lines : LineProduct(o.lines[i]) = p}
           On(w) == {i \in DOMAIN o.lines : o.lines[i].row = <<w, p>>}
<1>1. /\ o \in SaleReturnOrder \cup PurchaseReturnOrder
  BY RequestsAssumption DEF SaleOrder, PurchaseOrder, SaleReturnOrder,
     PurchaseReturnOrder, MovementOrder, CountOrder, AdjustOrder, TransferOrder,
     ReceiptOrder, PaymentOrder, ExpenseOrder, ReturnKind
<1>2. /\ o.kind = "SALE_RETURN" => o.invoice \in SaleInvoice
      /\ o.kind = "PURCHASE_RETURN" => o.invoice \in PurchaseInvoice
  BY <1>1 DEF SaleReturnOrder, PurchaseReturnOrder
<1>3. /\ IsFiniteSet(DOMAIN o.lines)
      /\ \A i \in DOMAIN o.lines : /\ o.lines[i].row \in Warehouse \X Product
                                   /\ o.lines[i].quantity \in Nat
  BY ReturnFields, LineQuantities DEF StockRow
<1>4. /\ IsFiniteSet(S) /\ \A i \in S : f[i] \in Int
      /\ \A i \in S : g[i] \in Warehouse
      /\ \A w : IsFiniteSet(On(w)) /\ \A i \in On(w) : f[i] \in Int
  BY <1>3, FS_Subset
<1>5. \A w \in Warehouse : {i \in S : g[i] = w} = On(w)
  BY <1>3 DEF LineProduct
<1>6. RequestedQty(o, p) = SumFunctionOnSet(f, S)
  BY DEF RequestedQty
<1>7. p \notin RequestedProducts(o) => S = {}
  BY DEF RequestedProducts
<1>8. \A w : SumOfLines(o, <<w, p>>) = SumFunctionOnSet(f, On(w))
  BY DEF SumOfLines
<1> HIDE DEF f, g, S, On
<1>9. \A w \in Warehouse : SumOfLines(o, <<w, p>>) \in Int
  BY <1>4, <1>8, SumInt
<1>10. SumFunctionOnSet([w \in Warehouse |-> SumFunctionOnSet(f, {i \in S : g[i] = w})], Warehouse)
         = SumFunctionOnSet(f, S)
  BY <1>4, BookkeepingAssumption, SumGrouped
<1>11. [w \in Warehouse |-> SumOfLines(o, <<w, p>>)]
         = [w \in Warehouse |-> SumFunctionOnSet(f, {i \in S : g[i] = w})]
  BY <1>5, <1>8
<1> QED BY <1>2, <1>6, <1>7, <1>9, <1>10, <1>11, SumEmpty, RequestedQtyNat

\* A transfer adds what it takes, and cash is in no warehouse.
LEMMA GoodsEffect ==
  ASSUME NEW o \in Order, o.kind \in ReturnKind \cup Cash \cup {"TRANSFER"}, NEW p \in Product
  PROVE  /\ CountedRows(o) = {} /\ Added(o, p) \in Int
         /\ \A w \in Warehouse : Effect(o, <<w, p>>) \in Int
         /\ SumFunctionOnSet([w \in Warehouse |-> Effect(o, <<w, p>>)], Warehouse) = Added(o, p)
<1> DEFINE e == [w \in Warehouse |-> Effect(o, <<w, p>>)]
<1>1. CountedRows(o) = {}
  BY DEF CountedRows, ReturnKind, Cash
<1>2. CASE o.kind = "SALE_RETURN"
  <2>1. \A w \in Warehouse : Effect(o, <<w, p>>) = SumOfLines(o, <<w, p>>)
    BY <1>2 DEF Effect, Cash
  <2>2. [w \in Warehouse |-> Effect(o, <<w, p>>)] = [w \in Warehouse |-> SumOfLines(o, <<w, p>>)]
    BY <2>1
  <2>3. o.kind \in ReturnKind
    BY <1>2 DEF ReturnKind
  <2>4. /\ \A w \in Warehouse : SumOfLines(o, <<w, p>>) \in Int
        /\ SumFunctionOnSet([w \in Warehouse |-> SumOfLines(o, <<w, p>>)], Warehouse)
             = RequestedQty(o, p)
        /\ RequestedQty(o, p) \in Nat
    BY <2>3, ReturnGoods
  <2>5. Added(o, p) = RequestedQty(o, p)
    BY <1>2 DEF Added
  <2>6. \A w \in Warehouse : Effect(o, <<w, p>>) \in Int
    BY <2>1, <2>4
  <2>7. SumFunctionOnSet([w \in Warehouse |-> Effect(o, <<w, p>>)], Warehouse) = Added(o, p)
    BY <2>2, <2>4, <2>5
  <2> QED BY <1>1, <2>4, <2>5, <2>6, <2>7
<1>3. CASE o.kind = "PURCHASE_RETURN"
  <2> DEFINE f == [w \in Warehouse |-> SumOfLines(o, <<w, p>>)]
             zero == [w \in Warehouse |-> 0]
  <2>0. /\ o.kind \in ReturnKind
        /\ \A w \in Warehouse : Effect(o, <<w, p>>) = -SumOfLines(o, <<w, p>>)
    BY <1>3 DEF Effect, ReturnKind, Cash
  <2>1. /\ \A w \in Warehouse : Effect(o, <<w, p>>) = -SumOfLines(o, <<w, p>>)
        /\ \A w \in Warehouse : SumOfLines(o, <<w, p>>) \in Int
        /\ SumFunctionOnSet(f, Warehouse) = RequestedQty(o, p) /\ RequestedQty(o, p) \in Nat
    BY <2>0, ReturnGoods
  <2>2. \A w \in Warehouse : e[w] \in Int /\ f[w] \in Int /\ zero[w] = e[w] + f[w]
    BY <2>1
  <2>3. \A w \in Warehouse : Effect(o, <<w, p>>) \in Int
    BY <2>1
  <2> HIDE DEF e, f
  <2>4. \A w \in Warehouse : zero[w] = 0
    OBVIOUS
  <2> HIDE DEF zero
  <2>5. SumFunctionOnSet(zero, Warehouse) = SumFunctionOnSet(e, Warehouse) + SumFunctionOnSet(f, Warehouse)
    BY <2>2, BookkeepingAssumption, SumPlus
  <2>6. SumFunctionOnSet(zero, Warehouse) = 0 /\ SumFunctionOnSet(e, Warehouse) \in Int
    BY <2>2, <2>4, BookkeepingAssumption, SumZero, SumInt
  <2>7. SumFunctionOnSet(e, Warehouse) = -RequestedQty(o, p)
    BY <2>1, <2>5, <2>6
  <2> QED BY <1>1, <1>3, <2>1, <2>3, <2>7 DEF e, Added
<1>4. CASE o.kind = "TRANSFER"
  <2> DEFINE out == [w \in Warehouse |-> At0(<<w, p>>, Source(o), o.quantity)]
             in == [w \in Warehouse |-> At0(<<w, p>>, Target(o), o.quantity)]
             amount == IF o.product = p THEN o.quantity ELSE 0
  <2>1. o.from \in Warehouse /\ o.to \in Warehouse /\ o.quantity \in Nat
    <3>1. o \in TransferOrder
      BY <1>4, RequestsAssumption DEF SaleOrder, PurchaseOrder, SaleReturnOrder,
         PurchaseReturnOrder, MovementOrder, CountOrder, AdjustOrder, TransferOrder,
         ReceiptOrder, PaymentOrder, ExpenseOrder
    <3> QED BY <3>1 DEF TransferOrder
  <2>2. /\ \A w \in Warehouse : out[w] \in Int /\ in[w] \in Int
        /\ \A w \in Warehouse \ {o.from} : out[w] = 0
        /\ \A w \in Warehouse \ {o.to} : in[w] = 0
        /\ out[o.from] = amount /\ in[o.to] = amount
    BY <2>1 DEF At0, Source, Target
  <2>3. \A w \in Warehouse : e[w] \in Int /\ out[w] \in Int /\ in[w] = e[w] + out[w]
    BY <1>4, <2>1 DEF Effect, Cash, At0, Source, Target
  <2>4. \A w \in Warehouse : Effect(o, <<w, p>>) \in Int
    BY <2>3
  <2>5. amount \in Int
    BY <2>1
  <2> HIDE DEF e, out, in, amount
  <2>6. SumFunctionOnSet(in, Warehouse) = SumFunctionOnSet(e, Warehouse) + SumFunctionOnSet(out, Warehouse)
    BY <2>3, BookkeepingAssumption, SumPlus
  <2>7. SumFunctionOnSet(out, Warehouse) = amount
    BY <2>1, <2>2, <2>5, BookkeepingAssumption, SumAtom
  <2>8. SumFunctionOnSet(in, Warehouse) = amount
    BY <2>1, <2>2, <2>5, BookkeepingAssumption, SumAtom
  <2>9. SumFunctionOnSet(e, Warehouse) \in Int
    BY <2>3, BookkeepingAssumption, SumInt
  <2>10. SumFunctionOnSet(e, Warehouse) = 0
    BY <2>5, <2>6, <2>7, <2>8, <2>9
  <2> QED BY <1>1, <1>4, <2>4, <2>10 DEF e, Added
<1>5. CASE o.kind \in Cash
  <2>1. /\ o.cashbox \in Cashbox
        /\ o.kind # "EXPENSE" => o.party \in Customer \cup Supplier \cup {Null}
    BY <1>5, CashFields DEF Cash
  <2>2. ASSUME NEW w \in Warehouse PROVE Effect(o, <<w, p>>) = 0
    <3>1. <<w, p>> \in StockRow /\ <<w, p>> \notin Cashbox \cup Customer \cup Supplier \cup {Null}
      BY RowStoreAssumption DEF StockRow, Row
    <3> QED BY <1>5, <2>1, <3>1 DEF Effect, At0, Cash
  <2>3. \A w \in Warehouse : e[w] = 0
    BY <2>2
  <2> HIDE DEF e
  <2>4. SumFunctionOnSet(e, Warehouse) = 0
    BY <2>3, BookkeepingAssumption, SumZero
  <2> QED BY <1>1, <1>5, <2>2, <2>4 DEF e, Added, Cash
<1> QED BY <1>2, <1>3, <1>4, <1>5 DEF ReturnKind

\* The returned quantities change in the commit of a return, and there only.
LEMMA ReturnedSteps ==
  ASSUME Inv, GoodsOrders, NEW r \in Request,
         Handler(r) \/ Interruption(r) \/ DeadlockVictim(r)
  PROVE  \/ UNCHANGED returned /\ (step'[r] = "done" => order'[r].kind \notin ReturnKind)
         \/ CommitReturn(r)
<1> USE DEF Inv
<1>1. step[r] # "idle" => order[r].kind \in ReturnKind \cup Cash \cup {"TRANSFER"}
  BY OrderOf DEF GoodsOrders
<1>2. ~SaleStep(r) /\ ~PurchaseStep(r) /\ ~InventoryStep(r)
  <2>1. ~SaleStep(r)
    BY <1>1 DEF SaleStep, ReceiveSale, CheckStock, OpenSale, ReadSaleLine, WriteSaleLine,
       ChargeCustomer, CommitSale, At, GoodsOrders, ReturnKind, Cash
  <2>2. ~PurchaseStep(r)
    BY <1>1 DEF PurchaseStep, ReceivePurchase, OpenPurchase, ReadPurchaseLine,
       WritePurchaseLine, CreditSupplier, CommitPurchase, At, GoodsOrders, ReturnKind, Cash
  <2>3. ~InventoryStep(r)
    BY <1>1 DEF InventoryStep, ReceiveMovement, ReceiveCount, CompareCount, ReadStock,
       WriteStock, LogMovement, InMovement, At, GoodsOrders, ReturnKind, Cash
  <2> QED BY <2>1, <2>2, <2>3
<1>3. CASE TransferStep(r) /\ UNCHANGED returnVars
  <2>1. step'[r] = "done" => order'[r].kind = "TRANSFER"
    BY <1>3, ArriveAtWrite, EndKeepsOrder DEF TransferStep, ReceiveTransfer, ReadSource, WriteSource,
       ReadTarget, WriteTarget, CommitTransfer, At
  <2> QED BY <1>3, <2>1 DEF returnVars, ReturnKind
<1>4. CASE VoucherStep(r) /\ UNCHANGED returnVars
  <2>1. step'[r] = "done" => order'[r].kind \in Cash
    BY <1>4, ArriveAtWrite, EndKeepsOrder DEF VoucherStep, ReceiveCash, ReadCashbox, WriteCashbox,
       ReadParty, WriteParty, CommitCash, InCash, At
  <2> QED BY <1>4, <2>1 DEF returnVars, ReturnKind, Cash
<1>5. CASE ReturnStep(r)
  <2>1. CASE ReceiveReturn(r) \/ TakeBackLine(r) \/ SendBackLine(r) \/ CheckReturn(r)
    <3>1. step'[r] # "done"
      BY <2>1, ArriveAtWrite DEF ReceiveReturn, TakeBackLine, SendBackLine, CheckReturn,
         SessionTypeOK
    <3>2. UNCHANGED returned
      BY <2>1 DEF ReceiveReturn, TakeBackLine, SendBackLine, CheckReturn, returnVars
    <3> QED BY <3>1, <3>2
  <2>2. ~ReceiveAdjustment(r) /\ ~ReadAdjusted(r) /\ ~WriteAdjusted(r) /\ ~CommitAdjustment(r)
    BY <1>1 DEF ReceiveAdjustment, ReadAdjusted, WriteAdjusted, CommitAdjustment, At, GoodsOrders,
       ReturnKind, Cash
  <2> QED BY <1>5, <2>1, <2>2 DEF ReturnStep
<1>6. CASE Interruption(r) \/ DeadlockVictim(r)
  <2>1. step'[r] = "interrupted" /\ UNCHANGED returned
    BY <1>6, StopOf, ArriveAtWrite DEF returnVars
  <2> QED BY <2>1
<1> QED BY <1>2, <1>3, <1>4, <1>5, <1>6 DEF Handler

\* What an order adds to the goods is what its commit adds to the returns.
LEMMA GoodsStep ==
  ASSUME Inv, GoodsInv, GoodsOrders, NEW r \in Request, BookStep(r),
         \/ UNCHANGED returned /\ (step'[r] = "done" => order'[r].kind \notin ReturnKind)
         \/ CommitReturn(r)
  PROVE  GoodsInv'
<1> SUFFICES ASSUME NEW p \in Product
             PROVE  SumFunctionOnSet(Gain(p)', Warehouse)
                      = SumFunctionOnSet(Back(p)', SaleInvoice)
                        - SumFunctionOnSet(Back(p)', PurchaseInvoice)
  BY DEF GoodsInv
<1>1. /\ \A w \in Warehouse : Gain(p)[w] \in Int
      /\ \A doc \in Invoice : Back(p)[doc] \in Int /\ Back(p)[doc] = returned[doc][p]
      /\ SumFunctionOnSet(Gain(p), Warehouse)
           = SumFunctionOnSet(Back(p), SaleInvoice) - SumFunctionOnSet(Back(p), PurchaseInvoice)
  <2>1. \A w \in Warehouse : ledger[<<w, p>>] \in Int /\ Qty(Opening[<<w, p>>]) \in Int
    <3>1. \A w \in Warehouse : <<w, p>> \in Row
      BY DEF Row, StockRow
    <3> QED BY <3>1, RowStoreAssumption, QtyInt DEF Inv, StoreInv, StoreTypeOK
  <2> QED BY <2>1 DEF GoodsInv, Gain, Back, Inv, ReturnsTypeOK
<1>2. /\ IsFiniteSet(Warehouse) /\ IsFiniteSet(SaleInvoice) /\ IsFiniteSet(PurchaseInvoice)
      /\ SaleInvoice \subseteq Invoice /\ PurchaseInvoice \subseteq Invoice
      /\ SaleInvoice \cap PurchaseInvoice = {}
  BY BookkeepingAssumption, RequestsAssumption DEF Invoice
<1>3. CASE step'[r] # "done" /\ UNCHANGED <<ledger, returned>>
  <2>1. Gain(p)' = Gain(p) /\ Back(p)' = Back(p)
    BY <1>3 DEF Gain, Back
  <2> QED BY <1>1, <2>1
<1>4. ASSUME RecordStep(r), NEW o \in Order, o = order[r]
      PROVE  /\ SumFunctionOnSet(Gain(p)', Warehouse) = SumFunctionOnSet(Gain(p), Warehouse) + Added(o, p)
             /\ SumFunctionOnSet(Gain(p), Warehouse) \in Int /\ Added(o, p) \in Int
  <2> DEFINE e == [w \in Warehouse |-> Effect(o, <<w, p>>)]
  <2>1. /\ CountedRows(o) = {} /\ Added(o, p) \in Int
        /\ \A w \in Warehouse : Effect(o, <<w, p>>) \in Int
        /\ SumFunctionOnSet(e, Warehouse) = Added(o, p)
    BY <1>4, GoodsEffect DEF GoodsOrders
  <2>2. \A w \in Warehouse : ledger'[<<w, p>>] = ledger[<<w, p>>] + Effect(o, <<w, p>>)
    <3>1. \A w \in Warehouse : <<w, p>> \in Row \ CountedRows(o)
      BY <2>1 DEF Row, StockRow
    <3> QED BY <1>4, <3>1 DEF RecordStep
  <2>3. \A w \in Warehouse : ledger[<<w, p>>] \in Int /\ Qty(Opening[<<w, p>>]) \in Int
    <3>1. \A w \in Warehouse : <<w, p>> \in Row
      BY DEF Row, StockRow
    <3> QED BY <3>1, RowStoreAssumption, QtyInt DEF Inv, StoreInv, StoreTypeOK
  <2>4. \A w \in Warehouse : Gain(p)[w] \in Int /\ e[w] \in Int /\ Gain(p)'[w] = Gain(p)[w] + e[w]
    BY <2>1, <2>2, <2>3 DEF Gain
  <2> HIDE DEF e
  <2>5. SumFunctionOnSet(Gain(p)', Warehouse)
          = SumFunctionOnSet(Gain(p), Warehouse) + SumFunctionOnSet(e, Warehouse)
    BY <1>2, <2>4, SumPlus
  <2>6. SumFunctionOnSet(Gain(p), Warehouse) \in Int
    BY <1>1, <1>2, SumInt
  <2> QED BY <2>1, <2>5, <2>6
<1>5. /\ SumFunctionOnSet(Back(p), SaleInvoice) \in Int
      /\ SumFunctionOnSet(Back(p), PurchaseInvoice) \in Int
  BY <1>1, <1>2, SumInt
<1>6. CASE RecordStep(r) /\ UNCHANGED returned /\ order'[r].kind \notin ReturnKind
  <2>1. PICK o \in Order : o = order[r] /\ o.kind \notin ReturnKind
    BY <1>6 DEF RecordStep
  <2>2. Back(p)' = Back(p) /\ Added(o, p) = 0
    BY <1>6, <2>1 DEF Back, Added, ReturnKind
  <2> QED BY <1>1, <1>4, <1>6, <2>1, <2>2
<1>7. CASE CommitReturn(r)
  <2>1. step'[r] = "done" /\ RecordStep(r)
    BY <1>7, ArriveAtWrite DEF CommitReturn, BookStep, Inv
  <2>2. PICK o \in Order : o = order[r] /\ o.kind \in ReturnKind
    BY <1>7, <2>1 DEF RecordStep, CommitReturn, InReturn, At
  <2> DEFINE q == RequestedQty(o, p)
             doc == o.invoice
  <2>3. /\ q \in Nat
        /\ p \notin RequestedProducts(o) => q = 0
        /\ o.kind = "SALE_RETURN" => doc \in SaleInvoice
        /\ o.kind = "PURCHASE_RETURN" => doc \in PurchaseInvoice
    BY <2>2, ReturnGoods
  <2>4. doc \in Invoice
    BY <1>2, <2>2, <2>3 DEF ReturnKind
  <2>5. returned' = [returned EXCEPT ![doc] =
           [x \in Product |-> IF x \in RequestedProducts(o) THEN @[x] + RequestedQty(o, x) ELSE @[x]]]
    BY <1>7, <2>2 DEF CommitReturn
  <2>6. /\ returned'[doc][p] = returned[doc][p] + q
        /\ \A x \in Invoice \ {doc} : returned'[x][p] = returned[x][p]
    <3>1. \A x \in Invoice : returned[x] \in [Product -> Nat]
      BY DEF Inv, ReturnsTypeOK
    <3>2. DOMAIN returned = Invoice
      BY DEF Inv, ReturnsTypeOK
    <3>3. returned'[doc] = [x \in Product |-> IF x \in RequestedProducts(o)
             THEN returned[doc][x] + RequestedQty(o, x) ELSE returned[doc][x]]
      BY <2>4, <2>5, <3>2
    <3>4. returned'[doc][p] = IF p \in RequestedProducts(o) THEN returned[doc][p] + q
                                                            ELSE returned[doc][p]
      BY <3>3
    <3>5. returned[doc][p] \in Nat
      BY <2>4, <3>1
    <3>6. \A x \in Invoice \ {doc} : returned'[x] = returned[x]
      BY <2>5, <3>2
    <3> HIDE DEF q, doc
    <3> QED BY <2>3, <3>4, <3>5, <3>6
  <2>10. Added(o, p) = (IF doc \in SaleInvoice THEN q ELSE 0) - (IF doc \in PurchaseInvoice THEN q ELSE 0)
    <3>1. CASE o.kind = "SALE_RETURN"
      <4>1. doc \in SaleInvoice /\ doc \notin PurchaseInvoice /\ Added(o, p) = q /\ q \in Nat
        BY <1>2, <2>3, <3>1 DEF Added
      <4> HIDE DEF q, doc
      <4> QED BY <4>1
    <3>2. CASE o.kind = "PURCHASE_RETURN"
      <4>1. doc \notin SaleInvoice /\ doc \in PurchaseInvoice /\ Added(o, p) = -q /\ q \in Nat
        BY <1>2, <2>3, <3>2 DEF Added
      <4> HIDE DEF q, doc
      <4> QED BY <4>1
    <3> QED BY <2>2, <3>1, <3>2 DEF ReturnKind
  <2> HIDE DEF q, doc
  <2>7. \A x \in Invoice : Back(p)'[x] = returned'[x][p]
    BY DEF Back
  <2>8. /\ \A x \in Invoice : Back(p)[x] \in Int /\ Back(p)'[x] \in Int
        /\ \A x \in Invoice \ {doc} : Back(p)[x] = Back(p)'[x]
        /\ Back(p)'[doc] - Back(p)[doc] = q
    <3>1. \A x \in Invoice : returned[x][p] \in Int /\ Back(p)[x] = returned[x][p]
      BY <1>1
    <3>2. \A x \in Invoice \ {doc} : Back(p)'[x] = Back(p)[x]
      BY <2>6, <2>7, <3>1
    <3>3. Back(p)'[doc] = Back(p)[doc] + q /\ Back(p)[doc] \in Int
      BY <2>4, <2>6, <2>7, <3>1
    <3> QED BY <1>1, <2>3, <3>2, <3>3
  <2>9. ASSUME NEW S \in {SaleInvoice, PurchaseInvoice}
        PROVE  SumFunctionOnSet(Back(p)', S)
                 = SumFunctionOnSet(Back(p), S) + (IF doc \in S THEN q ELSE 0)
    <3>1. /\ IsFiniteSet(S)
          /\ \A x \in S : Back(p)[x] \in Int /\ Back(p)'[x] \in Int
          /\ \A x \in S \ {doc} : Back(p)[x] = Back(p)'[x]
      BY <1>2, <2>8
    <3>2. CASE doc \in S
      BY <2>8, <3>1, <3>2, SumChange
    <3>3. CASE doc \notin S
      <4>1. \A x \in S : Back(p)'[x] = Back(p)[x]
        BY <3>1, <3>3
      <4>2. SumFunctionOnSet(Back(p)', S) = SumFunctionOnSet(Back(p), S)
        BY <3>1, <4>1, SumSame
      <4> QED BY <1>5, <3>3, <4>2
    <3> QED BY <3>2, <3>3
  <2>11. /\ SumFunctionOnSet(Back(p)', SaleInvoice)
              = SumFunctionOnSet(Back(p), SaleInvoice) + (IF doc \in SaleInvoice THEN q ELSE 0)
         /\ SumFunctionOnSet(Back(p)', PurchaseInvoice)
              = SumFunctionOnSet(Back(p), PurchaseInvoice) + (IF doc \in PurchaseInvoice THEN q ELSE 0)
    BY <2>9
  <2>12. SumFunctionOnSet(Gain(p)', Warehouse) = SumFunctionOnSet(Gain(p), Warehouse) + Added(o, p)
    BY <1>4, <2>1, <2>2
  <2> QED BY <1>1, <1>5, <2>3, <2>10, <2>11, <2>12
<1> QED BY <1>3, <1>6, <1>7, ArriveAtWrite DEF BookStep, RecordStep

\* As long as only returns, transfers, vouchers and expenses run, the goods in all
\* warehouses are those of the start with what was returned, whichever of its rows
\* a request had written when it was stopped or failed.
THEOREM GoodsKept ==
  ASSUME GoodsOrders
  PROVE  Spec => []GoodsAccountedFor
<1>1. Init => GoodsInv
  <2> SUFFICES ASSUME Init, NEW p \in Product
               PROVE  SumFunctionOnSet(Gain(p), Warehouse)
                        = SumFunctionOnSet(Back(p), SaleInvoice)
                          - SumFunctionOnSet(Back(p), PurchaseInvoice)
    BY DEF GoodsInv
  <2>1. \A w \in Warehouse : Gain(p)[w] = 0
    <3>1. \A w \in Warehouse : <<w, p>> \in Row
      BY DEF Row, StockRow
    <3> QED BY <3>1, RowStoreAssumption, QtyInt DEF Init, StoreInit, Gain
  <2>2. \A doc \in SaleInvoice \cup PurchaseInvoice : Back(p)[doc] = 0
    BY DEF Init, ReturnsInit, NothingReturned, Back, Invoice
  <2> QED BY <2>1, <2>2, SumZero, BookkeepingAssumption
<1>2. Inv /\ LocksInv /\ BookInv /\ GoodsInv /\ [Next]_vars => GoodsInv'
  <2> SUFFICES ASSUME Inv, LocksInv, BookInv, GoodsInv, [Next]_vars PROVE GoodsInv'
    OBVIOUS
  <2>1. ASSUME NEW r \in Request, Handler(r) \/ Interruption(r) \/ DeadlockVictim(r)
        PROVE  GoodsInv'
    BY <2>1, BookSteps, ReturnedSteps, GoodsStep, GoodsOrders
  <2>2. CASE UNCHANGED vars
    BY <2>2 DEF GoodsInv, Gain, Back, vars, storeVars, returnVars
  <2> QED BY <2>1, <2>2 DEF Next, AtRest
<1>3. Inv /\ GoodsInv /\ OrphanOnlyFromInterruption => GoodsAccountedFor
  <2> SUFFICES ASSUME Inv, GoodsInv, OrphanOnlyFromInterruption, stale = {}, NEW p \in Product
               PROVE  SumFunction([w \in Warehouse |-> Qty(table[<<w, p>>]) - Qty(Opening[<<w, p>>])])
                        = SumFunction([doc \in SaleInvoice |-> returned[doc][p]])
                          - SumFunction([doc \in PurchaseInvoice |-> returned[doc][p]])
    BY DEF GoodsAccountedFor
  <2> DEFINE gain == [w \in Warehouse |-> Qty(table[<<w, p>>]) - Qty(Opening[<<w, p>>])]
             sold == [doc \in SaleInvoice |-> returned[doc][p]]
             bought == [doc \in PurchaseInvoice |-> returned[doc][p]]
  <2>1. \A row \in Row : owed[row] = 0
    <3>1. \A r \in Request : step[r] \in {"log", "interrupted"} =>
                               order[r].kind \notin {"MOVEMENT", "COUNT"}
      BY GoodsOrders, OrderOf DEF GoodsOrders, Inv, ReturnKind, Cash
    <3> QED BY <3>1 DEF OrphanOnlyFromInterruption
  <2>2. \A w \in Warehouse : gain[w] = Gain(p)[w]
    <3>1. \A w \in Warehouse : <<w, p>> \in Row
      BY DEF Row, StockRow
    <3>2. \A w \in Warehouse : Qty(table[<<w, p>>]) = ledger[<<w, p>>]
      BY <2>1, <3>1 DEF Inv, StoreInv, StoreTypeOK, DriftOnlyFromStaleOverwrite
    <3> QED BY <3>2 DEF Gain
  <2>3. /\ \A doc \in SaleInvoice : sold[doc] = Back(p)[doc]
        /\ \A doc \in PurchaseInvoice : bought[doc] = Back(p)[doc]
    BY DEF Back, Invoice
  <2>4. DOMAIN gain = Warehouse /\ DOMAIN sold = SaleInvoice /\ DOMAIN bought = PurchaseInvoice
    OBVIOUS
  <2> HIDE DEF gain, sold, bought
  <2>5. /\ SumFunction(gain) = SumFunctionOnSet(Gain(p), Warehouse)
        /\ SumFunction(sold) = SumFunctionOnSet(Back(p), SaleInvoice)
        /\ SumFunction(bought) = SumFunctionOnSet(Back(p), PurchaseInvoice)
    BY <2>2, <2>3, <2>4, SumSame, BookkeepingAssumption DEF SumFunction
  <2>6. SumFunctionOnSet(Gain(p), Warehouse)
          = SumFunctionOnSet(Back(p), SaleInvoice) - SumFunctionOnSet(Back(p), PurchaseInvoice)
    BY DEF GoodsInv
  <2> QED BY <2>5, <2>6 DEF gain, sold, bought
<1> QED BY <1>1, <1>2, <1>3, BookInvariance, OrphansExplained, PTL DEF Spec
=============================================================================
