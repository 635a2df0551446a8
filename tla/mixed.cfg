SPECIFICATION Spec
CONSTANTS
  Null = Null
  w1 = w1
  w2 = w2
  p1 = p1
  p2 = p2
  c1 = c1
  s1 = s1
  b1 = b1
  doc1 = doc1
  doc2 = doc2
  sale1 = sale1
  purchase1 = purchase1
  Warehouse = {w1, w2}
  Product = {p1, p2}
  Customer = {c1}
  Supplier = {s1}
  Cashbox = {b1}
  Document = {doc1, doc2}
  SaleInvoice = {sale1}
  PurchaseInvoice = {purchase1}
  Opening <- MCOpening
  InvoiceLines <- MCInvoiceLines
  Request = {r1, r2, r3}
  Order <- MixedOrders
SYMMETRY AnyRequest
INVARIANTS
  TypeOK
  DriftOnlyFromStaleOverwrite
  ExactWithoutOverwriters
  ResentIsRecordedOnce
  DueReportedIsCharged
  OrphanOnlyFromInterruption
PROPERTY RecordsOrdersOnce
