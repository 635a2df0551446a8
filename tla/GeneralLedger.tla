--------------------------- MODULE GeneralLedger ---------------------------
(***************************************************************************)
(* AccountingService: the chart of accounts, journal entries, cashboxes    *)
(* and expenses.  Amounts are counted in units of the tolerance 0.001 that *)
(* createJournalEntry allows between the two sides of an entry.            *)
(***************************************************************************)
EXTENDS Catalogue, FiniteSetsExt

CONSTANT Tolerance   \* 0.001

ASSUME GeneralLedgerAssumption == Tolerance \in Nat

JournalLine == [account : KeyOf("Account"), debit : Nat, credit : Nat]

AccountDto == [kind : {"Account"}, tenant : Tenant, code : Code,
               parent : SUBSET KeyOf("Account")]
CashboxDto == [kind : {"Cashbox"}, tenant : Tenant, code : Code]
ExpenseDto == [kind : {"Expense"}, tenant : Tenant, amount : Int,
               user : SUBSET KeyOf("User")]
\* `number` stands for the last eight digits that the clock will show.
JournalEntryDto == [kind : {"JournalEntry"}, tenant : Tenant, lines : Seq(JournalLine),
                    user : SUBSET KeyOf("User"), number : Code]

CreateAccount(d) ==
  LET account == Key("Account", d.tenant, d.code)
  IN  <<Absent(account)>>
        \o IfGiven(d.parent)
        \o <<Insert(account, {Company(d.tenant)} \cup d.parent)>>

CreateCashbox(d) == CheckThenInsert(Key("Cashbox", d.tenant, d.code))

CreateExpense(r, d) ==
  Require(d.amount > 0)
    \o IfGiven(d.user)
    \o <<Insert(Key("Expense", d.tenant, r), {Company(d.tenant)} \cup d.user)>>

TotalDebit(lines)  == SumFunction([i \in DOMAIN lines |-> lines[i].debit])
TotalCredit(lines) == SumFunction([i \in DOMAIN lines |-> lines[i].credit])

\* Each line has a positive debit or a positive credit, and not both.
OneSided(line) == (line.debit = 0) # (line.credit = 0)

\* Mutant: Math.abs is forgotten.
BalancedOneWay(lines) == TotalDebit(lines) - TotalCredit(lines) <= Tolerance

Balanced(lines) ==
  /\ TotalDebit(lines) - TotalCredit(lines) <= Tolerance
  /\ TotalCredit(lines) - TotalDebit(lines) <= Tolerance

\* The entry and its lines are one insert.  Its number is read from the clock
\* before the insert, and the user who made it is not looked for.
CreateJournalEntry(d) ==
  LET accounts == {d.lines[i].account : i \in DOMAIN d.lines}
  IN  Require(Len(d.lines) >= 2)
        \o <<Present(accounts)>>
        \o Require((\A i \in DOMAIN d.lines : OneSided(d.lines[i])) /\ Balanced(d.lines))
        \o <<Insert(Key("JournalEntry", d.tenant, d.number),
                    {Company(d.tenant)} \cup accounts \cup d.user)>>
=============================================================================
