----------------------------- MODULE MCReports -----------------------------
(* The instance of Reports for TLC: the orders of MCBookkeeping.            *)
EXTENDS MCBookkeeping, Reports
=============================================================================
