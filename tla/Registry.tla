------------------------------ MODULE Registry ------------------------------
(***************************************************************************)
(* The services that create companies, users, catalogue, accounts and      *)
(* sessions, running side by side.  None of them opens a transaction over  *)
(* more than one statement.                                                *)
(***************************************************************************)
EXTENDS GeneralLedger, Sessions

CONSTANT Staffed   \* companies with a user who has the permissions of every route

ASSUME RegistryAssumption ==
  /\ Staffed \subseteq Tenant
  /\ Dto \subseteq CompanyDto \cup BranchDto \cup WarehouseDto \cup UserDto
                   \cup RoleDto \cup CategoryDto \cup BrandDto \cup UnitDto
                   \cup ProductDto \cup CustomerDto \cup SupplierDto
                   \cup AccountDto \cup CashboxDto \cup ExpenseDto
                   \cup JournalEntryDto \cup LoginDto \cup RefreshDto \cup LogoutDto

Script(r, d) ==
  CASE d.kind = "Company"      -> CreateCompany(d)
    [] d.kind = "Branch"       -> CreateBranch(d)
    [] d.kind = "Warehouse"    -> CreateWarehouse(d)
    [] d.kind = "User"         -> CreateUser(r, d)
    [] d.kind = "Role"         -> CreateRole(d)
    [] d.kind = "Category"     -> CreateCategory(d)
    [] d.kind = "Brand"        -> CreateBrand(d)
    [] d.kind = "Unit"         -> CreateUnit(d)
    [] d.kind = "Product"      -> CreateProduct(d)
    [] d.kind = "Customer"     -> CreateCustomer(r, d)
    [] d.kind = "Supplier"     -> CreateSupplier(r, d)
    [] d.kind = "Account"      -> CreateAccount(d)
    [] d.kind = "Cashbox"      -> CreateCashbox(d)
    [] d.kind = "Expense"      -> CreateExpense(r, d)
    [] d.kind = "JournalEntry" -> CreateJournalEntry(d)
    [] d.kind = "Login"        -> Login(r, d)
    [] d.kind = "Refresh"      -> Refresh(r, d)
    [] d.kind = "Logout"       -> Logout(d)

\* POST /companies, POST /users and the routes of /auth are open; every other one
\* wants a user with its permission.  No service gives a user a role, so these are
\* users that were there from the start.
Open == {"Company", "User", "Login", "Refresh", "Logout"}
Permitted(d) == d.kind \in Open \/ Staffed # {}

\* The controllers compare the company of the DTO with the user's, all but the one
\* of POST /users/roles.
OwnCompany(d) == d.kind \in Open \cup {"Role"} \/ d.tenant \in Staffed

\* A client refreshes or logs out with a token it was given.  The user who logs in
\* is read when the request arrives; one who is not there is refused at once.
Sendable(d) == /\ d.kind \in {"Refresh", "Logout"} => Has(d.token)
               /\ d.kind = "Login" => Has(d.user)

Arrive(r) ==
  \E d \in Dto : /\ Permitted(d) /\ OwnCompany(d) /\ Sendable(d)
                /\ Receive(r, d, Script(r, d))

AtRest == (\A r \in Request : status[r] \in Ended) /\ UNCHANGED vars

Next == (\E r \in Request : Arrive(r) \/ Execute(r) \/ Interrupted(r)) \/ AtRest

Spec == TablesInit /\ [][Next]_vars

-----------------------------------------------------------------------------
TypeOK == TablesTypeOK

\* A row refers to rows of its own company, whatever ids the DTO named: the
\* services look for each of them with the tenant of the request.  Permissions
\* and barcodes belong to no company.  The exception is createJournalEntry, which
\* takes the user who made the entry as given.
ReferencesInTenant ==
  \A link \in links :
    \/ link[1].tenant = link[2].tenant
    \/ link[1].table = "ProductBarcode" \/ link[2].table = "Permission"
    \/ link[1].table = "JournalEntry" /\ link[2].table = "User"

\* What the acceptance criteria say: every operation verifies that all its relations
\* are of the same company before it writes.  createJournalEntry does not look for
\* the user that it stores in `createdById`; only the foreign key is checked.
EveryReferenceInTenant ==
  \A link \in links :
    \/ link[1].tenant = link[2].tenant
    \/ link[1].table = "ProductBarcode" \/ link[2].table = "Permission"

\* createUser makes the first user of a company and no other: beside the user that
\* a registration made there is none, unless another registration inserted its
\* user after one of the two had counted none.
OneFirstUserUnlessOvertaken ==
  \A row1, row2 \in rows :
    /\ row1.key.table = "User" /\ row2.key.table = "User"
    /\ row1.key.tenant = row2.key.tenant
    /\ row1.by \notin overtaken \cup {Null} /\ row2.by \notin overtaken
    => row1 = row2

\* What comes with a new company or branch under a code the DTO does not name.
DefaultsOf(d) ==
  CASE d.kind = "Company" -> {Key("Branch", d.tenant, Main),
                              Key("Warehouse", d.tenant, DefaultCode(Main))}
    [] d.kind = "Branch"  -> {Key("Warehouse", d.tenant, DefaultCode(d.code))}
    [] OTHER              -> {}

\* The default branch or warehouse could not be created: its code was taken by
\* a row that another request inserted, or that was there before.
DefaultTaken(r) == \E row \in rows : row.by # r /\ row.key \in DefaultsOf(dto[r])

\* The request presents a token that belongs to no device.
Deviceless(r) == dto[r].kind = "Refresh" /\ Referred(dto[r].token, "Device") = {}

\* A request that is answered with an error has inserted no row and revoked no token:
\* its checks come before its first write, and the loser of a race for a unique key
\* wrote nothing else.  The exceptions are a new company and a new branch whose
\* default code another request took, which stay, incomplete; and the token without
\* a device that refresh revokes before it finds that its user has none either.
UnsuccessfulLeavesNothing ==
  \A r \in Request : status[r] \in {"refused", "failed"} =>
    /\ (\E row \in rows : row.by = r) => status[r] = "failed" /\ DefaultTaken(r)
    /\ (\E entry \in revoked : entry.by = r) => status[r] = "refused" /\ Deviceless(r)

\* A refresh token is spent once, by a refresh or by a logout, unless two of them
\* read it before either revoked it.
TokenSpentOnceUnlessOvertaken ==
  \A entry1, entry2 \in revoked :
    entry1.key = entry2.key /\ entry1.by \notin overtaken /\ entry2.by \notin overtaken
      => entry1.by = entry2.by

\* The requests that made the journal entries of a company; those that were there
\* when the model starts are left aside.
EntriesOf(tenant) ==
  {row.by : row \in {row \in rows : row.key.table = "JournalEntry" /\ row.key.tenant = tenant}}
    \ {Null}

\* The sum over all entries of debit less credit.
TrialBalance(tenant) ==
  SumFunction([r \in EntriesOf(tenant) |->
                 TotalDebit(dto[r].lines) - TotalCredit(dto[r].lines)])

\* Each entry may be out by the tolerance, in either direction: the books of a
\* company are out by no more than the tolerance for each entry.
TrialBalanceWithinTolerance ==
  \A tenant \in Tenant :
    LET bound == Tolerance * Cardinality(EntriesOf(tenant))
    IN  TrialBalance(tenant) \in (-bound)..bound
=============================================================================
