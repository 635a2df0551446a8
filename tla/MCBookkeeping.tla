--------------------------- MODULE MCBookkeeping ---------------------------
(* Instances of Bookkeeping for TLC: a set of orders for each question.     *)
EXTENDS Bookkeeping, TLC

CONSTANTS w1, w2, p1, p2, c1, s1, b1, doc1, doc2, sale1, purchase1

Lines(quantities) == [i \in DOMAIN quantities |->
                       [row |-> quantities[i][1], quantity |-> quantities[i][2]]]

SaleOf(id, quantities, party, total, paid) ==
  [kind |-> "SALE", id |-> id, lines |-> Lines(quantities), party |-> party,
   grandTotal |-> total, paidAmount |-> paid]
PurchaseOf(id, quantities, party, total, paid) ==
  [kind |-> "PURCHASE", id |-> id, lines |-> Lines(quantities), party |-> party,
   grandTotal |-> total, paidAmount |-> paid]
SaleReturnOf(quantities) ==
  [kind |-> "SALE_RETURN", lines |-> Lines(quantities), invoice |-> sale1]
PurchaseReturnOf(quantities) ==
  [kind |-> "PURCHASE_RETURN", lines |-> Lines(quantities), invoice |-> purchase1]
TransferOf(from, to, product, quantity) ==
  [kind |-> "TRANSFER", from |-> from, to |-> to, product |-> product,
   quantity |-> quantity]

A == <<w1, p1>>
B == <<w1, p2>>
C == <<w2, p1>>
D == <<w2, p2>>

\* B has no balance row yet.
MCOpening == [row \in Row |-> CASE row = A  -> 3
                                [] row = B  -> Null
                                [] row = C  -> 2
                                [] row = D  -> 1
                                [] row = b1 -> 4
                                [] OTHER    -> 0]

\* The sale has two items of p1: only the last one, of 2, can be returned.
MCInvoiceLines == [doc \in Invoice |->
  IF doc = sale1
  THEN <<[product |-> p1, quantity |-> 1], [product |-> p1, quantity |-> 2]>>
  ELSE <<[product |-> p1, quantity |-> 2], [product |-> p2, quantity |-> 1]>>]

\* The sale of two lines of the same product.
OversellOrders == {
  SaleOf(Null, <<<<A, 2>>>>, c1, 5, 2),
  SaleOf(Null, <<<<A, 3>>, <<A, 1>>>>, Null, 5, 5),
  PurchaseOf(Null, <<<<A, 1>>>>, s1, 4, 0)}

ReturnOrders == {
  SaleReturnOf(<<<<A, 1>>, <<B, 1>>>>),
  SaleReturnOf(<<<<A, 1>>>>),
  SaleReturnOf(<<<<A, 1>>, <<A, 1>>>>),
  SaleReturnOf(<<<<C, 1>>>>),
  PurchaseReturnOf(<<<<A, 2>>, <<B, 1>>>>),
  PurchaseReturnOf(<<<<C, 1>>>>),
  PurchaseReturnOf(<<<<B, 1>>, <<A, 2>>>>)}

CountingOrders == {
  [kind |-> "MOVEMENT", row |-> A, quantity |-> -2],
  [kind |-> "MOVEMENT", row |-> B, quantity |-> 1],
  [kind |-> "COUNT", row |-> A, actual |-> 1],
  [kind |-> "COUNT", row |-> B, actual |-> 0],
  [kind |-> "ADJUSTMENT", row |-> A, actual |-> 1],
  [kind |-> "ADJUSTMENT", row |-> B, actual |-> 2]}

\* Vouchers and expenses of one cashbox, one for a supplier that does not exist,
\* and transfers in both directions, within one warehouse, and to one that has
\* no balance row.
MovingOrders == {
  TransferOf(w1, w2, p1, 2), TransferOf(w2, w1, p1, 2), TransferOf(w2, w1, p1, 1),
  TransferOf(w1, w1, p1, 1), TransferOf(w2, w1, p2, 1),
  [kind |-> "RECEIPT", cashbox |-> b1, party |-> c1, amount |-> 2],
  [kind |-> "PAYMENT", cashbox |-> b1, party |-> s1, amount |-> 3],
  [kind |-> "PAYMENT", cashbox |-> b1, party |-> Null, amount |-> 2],
  [kind |-> "EXPENSE", cashbox |-> b1, amount |-> 4],
  [kind |-> "EXPENSE", cashbox |-> b1, amount |-> 1]}

\* Orders of every kind on the same rows: sales that visit two rows in opposite
\* orders, one on credit under an id, one that overpays, one on credit without a
\* customer; a purchase under an id that creates the row of B; a count of a balance
\* that differs and an adjustment to one that is right until something moves it.
MixedOrders == {
  SaleOf(doc1, <<<<A, 2>>, <<B, 1>>>>, c1, 5, 2),
  SaleOf(Null, <<<<B, 1>>, <<A, 1>>>>, c1, 2, 3),
  SaleOf(Null, <<<<A, 1>>>>, Null, 2, 0),
  PurchaseOf(doc2, <<<<B, 2>>>>, s1, 4, 0),
  SaleReturnOf(<<<<A, 1>>>>),
  PurchaseReturnOf(<<<<A, 2>>, <<B, 1>>>>),
  [kind |-> "MOVEMENT", row |-> B, quantity |-> 1],
  [kind |-> "COUNT", row |-> A, actual |-> 0],
  [kind |-> "ADJUSTMENT", row |-> A, actual |-> 3],
  TransferOf(w2, w1, p1, 1),
  [kind |-> "RECEIPT", cashbox |-> b1, party |-> c1, amount |-> 2],
  [kind |-> "PAYMENT", cashbox |-> b1, party |-> s1, amount |-> 4],
  [kind |-> "EXPENSE", cashbox |-> b1, amount |-> 1]}

\* Orders that lock rows in opposite orders, and one that locks one of them
\* together with a row of another warehouse.
CrossingOrders == {
  SaleOf(doc1, <<<<C, 1>>, <<D, 1>>>>, Null, 3, 3),
  PurchaseOf(Null, <<<<D, 1>>, <<C, 1>>>>, s1, 3, 1),
  TransferOf(w2, w1, p1, 1)}

\* Returns, transfers, vouchers and expenses: what never overdraws.
GuardedOrders == ReturnOrders \cup MovingOrders

AnyRequest == Permutations(Request)
=============================================================================
