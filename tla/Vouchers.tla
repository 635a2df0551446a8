------------------------------ MODULE Vouchers ------------------------------
(***************************************************************************)
(* VoucherService.processVoucher and processExpense.  A cashbox keeps no   *)
(* transactions of its own: its ledger stands for the amounts of the       *)
(* committed vouchers and expenses.                                        *)
(***************************************************************************)
EXTENDS Requests

Cash == {"RECEIPT", "PAYMENT", "EXPENSE"}

\* What the order adds to the cashbox.
CashChange(o) == IF o.kind = "RECEIPT" THEN o.amount ELSE -o.amount

InCash(r, s) == \E kind \in Cash : At(r, kind, s)

ReceiveCash(r) ==
  \E o \in Order : o.kind \in Cash /\ Receive(r, o, "check", <<>>)

\* The cashbox is read; a payment or an expense it cannot cover is refused.
ReadCashbox(r) ==
  /\ InCash(r, "check")
  /\ LET balance == Qty(Seen(r, order[r].cashbox))
     IN  IF order[r].kind # "RECEIPT" /\ balance < order[r].amount
         THEN Reject(r)
         ELSE Read(r, order[r].cashbox, "write")

\* Mutant: a voucher stops at its cashbox.
WriteCashboxOnly(r) ==
  /\ InCash(r, "write")
  /\ WriteFromSeen(r, order[r].cashbox, CashChange(order[r]), "commit", <<>>)

WriteCashbox(r) ==
  /\ InCash(r, "write")
  /\ LET next == IF order[r].kind = "EXPENSE" THEN "commit" ELSE "readSecond"
     IN  WriteFromSeen(r, order[r].cashbox, CashChange(order[r]), next, <<>>)

\* The customer of a receipt or the supplier of a payment; a voucher without
\* one is refused, when its cashbox has been written.
ReadParty(r) ==
  /\ At(r, "RECEIPT", "readSecond") \/ At(r, "PAYMENT", "readSecond")
  /\ IF order[r].party = Null
     THEN Reject(r)
     ELSE Read(r, order[r].party, "writeSecond")

WriteParty(r) ==
  /\ At(r, "RECEIPT", "writeSecond") \/ At(r, "PAYMENT", "writeSecond")
  /\ order[r].party # Null
  /\ WriteFromSeen(r, order[r].party, -order[r].amount, "commit", <<>>)

CommitCash(r) == InCash(r, "commit") /\ Commit(r)

VoucherStep(r) ==
  \/ ReceiveCash(r) \/ ReadCashbox(r) \/ WriteCashbox(r)
  \/ ReadParty(r) \/ WriteParty(r) \/ CommitCash(r)
=============================================================================
