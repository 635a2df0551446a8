------------------------------ MODULE RowStore ------------------------------
(***************************************************************************)
(* The balance rows of the database and the statements the services send   *)
(* to them.  PostgreSQL itself is not in the repository: this module models *)
(* what the services rely on when they call Prisma without an isolation    *)
(* level, that is READ COMMITTED with row locks.                           *)
(*                                                                         *)
(* A row is a StockBalance, or the `balance` column of a Customer, a       *)
(* Supplier or a Cashbox.  Beside each balance the module keeps the sum of *)
(* the movements and party transactions that explain it.                   *)
(***************************************************************************)
EXTENDS Integers

CONSTANTS
  Request,      \* HTTP requests in flight, each in its own transaction
  Warehouse, Product, Customer, Supplier, Cashbox,
  Null,         \* what findUnique and findFirst answer when there is no row
  Opening       \* the balance of each row when the model starts

\* StockBalance is keyed by @@unique([warehouseId, productId]).
StockRow == Warehouse \X Product
Row      == StockRow \cup Customer \cup Supplier \cup Cashbox
Balance  == Int \cup {Null}

ASSUME RowStoreAssumption ==
  /\ Null \notin Int \cup Request \cup Row
  /\ Opening \in [Row -> Balance]
  /\ \A row \in Row \ StockRow : Opening[row] # Null
  /\ (Customer \cup Supplier) \cap (StockRow \cup Cashbox) = {}
  /\ Customer \cap Supplier = {} /\ StockRow \cap Cashbox = {}

VARIABLES
  table,    \* the committed balance of each row, Null when the row does not exist
  draft,    \* the uncommitted balance its lock holder left, else the committed one
  holder,   \* the request whose open transaction holds the row's lock, or Null
  ledger,   \* the sum of the committed movements (transactions) of the row
  posted,   \* the sum of those its lock holder inserted and has not committed
  tainted,  \* history: locked rows set from a value that was no longer current
  stale,    \* history: rows on which such a value was committed
  owed      \* history: committed balance changes whose movement is not inserted

storeVars == <<table, draft, holder, ledger, posted, tainted, stale, owed>>

\* `balanceRecord ? balanceRecord.quantity : 0`
Qty(balance) == IF balance = Null THEN 0 ELSE balance

-----------------------------------------------------------------------------
\* A SELECT of request r: its own uncommitted value, else the last committed.
Seen(r, row) == IF holder[row] = r THEN draft[row] ELSE table[row]

\* An INSERT, UPDATE or ON CONFLICT waits until no other transaction has the row.
Available(r, row) == holder[row] \in {Null, r}

\* In its transaction r leaves `balance` in the row and inserts a movement of
\* `amount` that explains the change.
Write(r, row, balance, amount) ==
  /\ Available(r, row)
  /\ draft'  = [draft EXCEPT ![row] = balance]
  /\ holder' = [holder EXCEPT ![row] = r]
  /\ posted' = [posted EXCEPT ![row] = @ + amount]
  /\ UNCHANGED <<table, ledger, stale, owed>>

\* `update({data: {quantity: newQty}})`, or `create` when nothing was found:
\* an absolute value computed from the `old` one that an earlier SELECT gave.
\* The insert of a row that exists by now breaks the unique key.
UniqueViolation(r, row, old) ==
  /\ old = Null
  /\ Available(r, row)
  /\ Seen(r, row) # Null

SetFromRead(r, row, old, amount) ==
  /\ ~UniqueViolation(r, row, old)
  /\ Write(r, row, Qty(old) + amount, amount)
  /\ tainted' = IF Seen(r, row) = old THEN tainted ELSE tainted \cup {row}

\* `{increment: amount}`, or an upsert with it: evaluated on the locked row.
Increment(r, row, amount) ==
  /\ Write(r, row, Qty(Seen(r, row)) + amount, amount)
  /\ UNCHANGED tainted

Held(r) == {row \in Row : holder[row] = r}

Unlock(r) ==
  /\ holder'  = [row \in Row |-> IF row \in Held(r) THEN Null ELSE holder[row]]
  /\ posted'  = [row \in Row |-> IF row \in Held(r) THEN 0 ELSE posted[row]]
  /\ tainted' = tainted \ Held(r)
  /\ UNCHANGED owed

\* The callback of $transaction returned: COMMIT.
CommitRows(r) ==
  /\ table'  = [row \in Row |-> IF row \in Held(r) THEN draft[row] ELSE table[row]]
  /\ ledger' = [row \in Row |-> IF row \in Held(r) THEN ledger[row] + posted[row]
                                                   ELSE ledger[row]]
  /\ stale'  = stale \cup (tainted \cap Held(r))
  /\ UNCHANGED draft
  /\ Unlock(r)

\* It threw, timed out or lost its connection: ROLLBACK.
RollbackRows(r) ==
  /\ draft' = [row \in Row |-> IF row \in Held(r) THEN table[row] ELSE draft[row]]
  /\ UNCHANGED <<table, ledger, stale>>
  /\ Unlock(r)

\* SetFromRead outside a transaction: the statement commits by itself, and the
\* movement that explains it is still to come.
Autocommit(r, row, old, amount) ==
  /\ holder[row] = Null
  /\ ~UniqueViolation(r, row, old)
  /\ table' = [table EXCEPT ![row] = Qty(old) + amount]
  /\ draft' = [draft EXCEPT ![row] = Qty(old) + amount]
  /\ owed'  = [owed EXCEPT ![row] = @ + amount]
  /\ stale' = IF table[row] = old THEN stale ELSE stale \cup {row}
  /\ UNCHANGED <<holder, ledger, posted, tainted>>

InsertMovement(row, amount) ==
  /\ ledger' = [ledger EXCEPT ![row] = @ + amount]
  /\ owed'   = [owed EXCEPT ![row] = @ - amount]
  /\ UNCHANGED <<table, draft, holder, posted, tainted, stale>>

-----------------------------------------------------------------------------
StoreInit ==
  /\ table   = Opening
  /\ draft   = Opening
  /\ holder  = [row \in Row |-> Null]
  /\ ledger  = [row \in Row |-> Qty(Opening[row])]
  /\ posted  = [row \in Row |-> 0]
  /\ tainted = {}
  /\ stale   = {}
  /\ owed    = [row \in Row |-> 0]

\* A statement of request r.
Statement(r) ==
  \/ CommitRows(r)
  \/ RollbackRows(r)
  \/ \E row \in Row, amount \in Int :
       \/ Increment(r, row, amount)
       \/ InsertMovement(row, amount)
       \/ \E old \in Balance : \/ SetFromRead(r, row, old, amount)
                               \/ Autocommit(r, row, old, amount)

StoreNext == \E r \in Request : Statement(r)

StoreTypeOK ==
  /\ table   \in [Row -> Balance]
  /\ draft   \in [Row -> Balance]
  /\ holder  \in [Row -> Request \cup {Null}]
  /\ ledger  \in [Row -> Int]
  /\ posted  \in [Row -> Int]
  /\ tainted \in SUBSET Row
  /\ stale   \in SUBSET Row
  /\ owed    \in [Row -> Int]

\* A row that nobody has locked carries no uncommitted value or movement.
FreeRows ==
  \A row \in Row : holder[row] = Null =>
    draft[row] = table[row] /\ posted[row] = 0 /\ row \notin tainted

\* The uncommitted change of a locked row is the sum of its uncommitted
\* movements, unless it was computed from a stale read.
HeldRows ==
  \A row \in Row : holder[row] # Null /\ row \notin tainted =>
    Qty(draft[row]) = Qty(table[row]) + posted[row]

\* A balance differs from the sum of its movements (and of changes whose
\* movement is still to come) only on a row where some transaction committed a
\* value computed from a balance that another had replaced since it was read.
\* No interleaving of increments, conditional decrements, row locks, rollbacks
\* and deadlock victims makes them drift in any other way.
DriftOnlyFromStaleOverwrite ==
  \A row \in Row : row \notin stale => Qty(table[row]) = ledger[row] + owed[row]

StoreInv == StoreTypeOK /\ FreeRows /\ HeldRows /\ DriftOnlyFromStaleOverwrite
=============================================================================
