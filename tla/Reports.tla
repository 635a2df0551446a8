------------------------------ MODULE Reports ------------------------------
(***************************************************************************)
(* The sales reports of ReportsService beside the running requests: each   *)
(* is a single statement, which sees what is committed when it runs.       *)
(***************************************************************************)
EXTENDS Bookkeeping

Committed == {r \in Request : step[r] = "done"}

OfKind(kind, requests) == {r \in requests : order[r].kind = kind}

\* getSalesReport and getDailySalesReport: the totals of the sales that pass the
\* filter, which is the requests whose sales were created between the two dates, or
\* on the day and for the warehouse; without dates getSalesReport filters nothing.
SalesReport(filter) ==
  LET sales == OfKind("SALE", Committed \cap filter)
  IN  [totalRevenue |-> SumFunction([r \in sales |-> order[r].grandTotal]),
       totalPaid    |-> SumFunction([r \in sales |-> order[r].paidAmount]),
       totalDue     |-> SumFunction([r \in sales |-> DueAmount(order[r])])]

-----------------------------------------------------------------------------
\* The unpaid part of the sales report over all dates is what the transactions of
\* customers say, with what customers have paid back since and the unpaid part of
\* sales that name no customer.
DueReportedIsCharged ==
  LET unnamed == {r \in OfKind("SALE", Committed) : order[r].party = Null}
  IN  SalesReport(Request).totalDue =
        SumFunction([c \in Customer |-> ledger[c] - Opening[c]])
        + SumFunction([r \in OfKind("RECEIPT", Committed) |-> order[r].amount])
        + SumFunction([r \in unnamed |-> DueAmount(order[r])])
=============================================================================
