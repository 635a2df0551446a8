------------------------------- MODULE Tables -------------------------------
(***************************************************************************)
(* The tables that are filled by single statements, outside any            *)
(* transaction: companies and their branches, users, the catalogue, the    *)
(* chart of accounts, sessions.  A handler is the sequence of statements   *)
(* it sends to the database; between two of them other handlers run.       *)
(*                                                                         *)
(* A row is named by its unique key: the table, the company it belongs to  *)
(* and its code within both.  The rows of these tables are never deleted,  *)
(* nor moved to another key, by any service.                               *)
(***************************************************************************)
EXTENDS Integers, Sequences

CONSTANTS
  Request,   \* HTTP requests in flight
  Tenant,    \* companies
  Code,      \* codes, names, SKUs, barcodes, e-mails, document numbers
  Null,      \* no tenant: the key is unique over all companies
  Dto,       \* what the requests may carry
  Seeded,    \* the keys of the rows that exist when the model starts
  SeededLinks \* the foreign keys that they hold

Table == {"Company", "Branch", "Warehouse", "User", "Role", "Permission",
          "Category", "Brand", "Unit", "Product", "ProductBarcode", "Customer",
          "Supplier", "Account", "Cashbox", "Expense", "JournalEntry", "Device",
          "RefreshToken"}

Key(table, tenant, code) == [table |-> table, tenant |-> tenant, code |-> code]

\* `WH-${code}`
DefaultCode(code) == <<"WH", code>>

\* A row without a code of its own is named by the request that inserts it.
AnyCode == Code \cup {DefaultCode(code) : code \in Code} \cup Request
AnyKey  == [table : Table, tenant : Tenant \cup {Null}, code : AnyCode]

\* What an id that is looked for in a table can lead to.
KeyOf(table) == [table : {table}, tenant : Tenant, code : AnyCode]

ASSUME TablesAssumption ==
  /\ Seeded \subseteq AnyKey
  /\ SeededLinks \subseteq Seeded \X Seeded
  /\ \A link \in SeededLinks : link[1].tenant = link[2].tenant
  /\ \A r \in Request : /\ r \notin Code \cup {DefaultCode(code) : code \in Code}
                       /\ \A key \in Seeded : key.code # r
  /\ Null \notin Tenant \cup Request \cup AnyKey
  /\ \A dto \in Dto : dto.tenant \in Tenant

VARIABLES
  rows,      \* the rows, each with the request that inserted it
  links,     \* the foreign keys they hold: pairs of keys
  found,     \* the row that a request has looked up for its next insert
  revoked,   \* the refresh tokens with `revokedAt`, each with who revoked it
  dto,       \* what a request carries, Null before it arrives
  script,    \* the statements of its handler
  at,        \* the one it has come to
  status,    \* whether it still runs, or how it ended
  overtaken  \* history: requests whose check another made untrue before they acted on it

tableVars == <<rows, links, revoked, overtaken, found>>
vars      == <<tableVars, dto, script, at, status>>

Has(key) == \E row \in rows : row.key = key

-----------------------------------------------------------------------------
\* The statements.  `key` is the row they ask for or write, `refs` other rows.
Statement(op, key, refs) == [op |-> op, key |-> key, refs |-> refs]

Absent(key)          == Statement("absent", key, {})    \* if (existing) throw
Empty(table, tenant) == Statement("empty", Key(table, tenant, Null), {})
Present(refs)        == Statement("present", Null, refs) \* if (!found) throw
Find(key)            == Statement("find", key, {})       \* found: no insert follows
Valid(key)           == Statement("valid", key, {})      \* a token that still serves
Live(key)            == Statement("live", key, {})       \* the same, without an error
Insert(key, refs)    == Statement("insert", key, refs)
TryInsert(key, refs) == Statement("tryInsert", key, refs) \* .catch(() => {})
Revoke(key)          == Statement("revoke", key, {})
Update(key, refs)    == Statement("update", key, refs)  \* of a row that was found
\* The first row of a table that refers to `refs`; if there is none, throw.
Pick(table, tenant, refs) == Statement("pick", Key(table, tenant, Null), refs)
Refuse               == Statement("refuse", Null, {})

Operator == {"absent", "empty", "present", "find", "valid", "live", "insert",
             "tryInsert", "revoke", "update", "pick", "refuse"}

\* A condition on the DTO alone: `if (!condition) throw`.
Require(condition) == IF condition THEN <<>> ELSE <<Refuse>>

\* `if (dto.x) { find it or throw }`, for a reference given as a set of at most one.
IfGiven(refs) == IF refs = {} THEN <<>> ELSE <<Present(refs)>>

-----------------------------------------------------------------------------
Running(r) == status[r] = "running"
Here(r)    == script[r][at[r]]
AtOp(r, op) == Running(r) /\ Here(r).op = op

End(r, outcome) ==
  /\ status' = [status EXCEPT ![r] = outcome]
  /\ at'     = [at EXCEPT ![r] = 0]
  /\ UNCHANGED <<dto, script>>

\* On to the statement n further, or the answer after the last one.
Advance(r, n) ==
  IF at[r] + n \in DOMAIN script[r]
  THEN at' = [at EXCEPT ![r] = @ + n] /\ UNCHANGED <<dto, script, status>>
  ELSE End(r, "done")

\* The requests that have passed the check s, and not yet done what it was for.
Trusting(s, op) ==
  {r \in Request : /\ Running(r)
                   /\ \E i \in 1..(at[r] - 1) : script[r][i] = s
                   /\ \E j \in at[r]..Len(script[r]) : script[r][j].op = op}

\* A request arrives; its handler will send these statements.
Receive(r, d, statements) ==
  /\ status[r] = "idle"
  /\ dto'    = [dto EXCEPT ![r] = d]
  /\ script' = [script EXCEPT ![r] = statements]
  /\ at'     = [at EXCEPT ![r] = 1]
  /\ status' = [status EXCEPT ![r] = "running"]
  /\ UNCHANGED tableVars

\* A check throws, or lets the handler go on.
Check(r, passes) ==
  /\ IF passes THEN Advance(r, 1) ELSE End(r, "refused")
  /\ UNCHANGED tableVars

CheckAbsent(r) == AtOp(r, "absent") /\ Check(r, ~Has(Here(r).key))

CheckEmpty(r) ==
  /\ AtOp(r, "empty")
  /\ Check(r, ~\E row \in rows : /\ row.key.table  = Here(r).key.table
                                 /\ row.key.tenant = Here(r).key.tenant)

\* `findFirst({where: {id, tenantId}})`; the permissions belong to no company.
CheckPresent(r) ==
  /\ AtOp(r, "present")
  /\ Check(r, \A key \in Here(r).refs :
                Has(key) /\ key.tenant \in {dto[r].tenant, Null})

CheckInput(r) == AtOp(r, "refuse") /\ Check(r, FALSE)

Revoked(token) == \E entry \in revoked : entry.key = token

\* A token that is unknown, revoked, of another company or has expired is refused.
CheckToken(r) ==
  /\ AtOp(r, "valid")
  /\ LET token == Here(r).key
     IN  \/ Check(r, /\ Has(token) /\ ~Revoked(token)
                     /\ token.tenant = dto[r].tenant)
         \/ Check(r, FALSE)

\* A condition that skips the next statement instead of throwing.
Skip(r, next) ==
  /\ Advance(r, IF next THEN 1 ELSE 2)
  /\ UNCHANGED tableVars

FindRow(r) ==
  \/ AtOp(r, "find") /\ Skip(r, ~Has(Here(r).key))
  \/ /\ AtOp(r, "live")
     /\ LET token == Here(r).key
        IN  Skip(r, /\ Has(token) /\ ~Revoked(token)
                    /\ token.tenant = dto[r].tenant)

-----------------------------------------------------------------------------
\* What the new row refers to, with the row that was looked up for it.
Refs(r) == Here(r).refs \cup found[r]

\* A primary or unique key is free, and every foreign key leads to a row.
Insertable(r) == ~Has(Here(r).key) /\ \A ref \in Refs(r) : Has(ref)

AddRow(r) ==
  LET key == Here(r).key
  IN  /\ rows'  = rows \cup {[key |-> key, by |-> r]}
      /\ links' = links \cup {<<key, ref>> : ref \in Refs(r)}
      /\ overtaken' = overtaken \cup (Trusting(Empty(key.table, key.tenant), "insert") \ {r})
      /\ UNCHANGED <<revoked, found>>

InsertRow(r) ==
  /\ AtOp(r, "insert")
  /\ IF Insertable(r)
     THEN AddRow(r) /\ Advance(r, 1)
     ELSE UNCHANGED tableVars /\ End(r, "failed")

\* Whatever error the insert meets is swallowed.
TryInsertRow(r) ==
  /\ AtOp(r, "tryInsert")
  /\ \/ Insertable(r) /\ AddRow(r)
     \/ UNCHANGED tableVars
  /\ Advance(r, 1)

\* An unconditional update: the token may have been revoked since it was read.
RevokeToken(r) ==
  /\ AtOp(r, "revoke")
  /\ LET token == Here(r).key
     IN  /\ revoked'   = revoked \cup {[key |-> token, by |-> r]}
         /\ overtaken' = overtaken \cup
              ((Trusting(Valid(token), "revoke") \cup Trusting(Live(token), "revoke")) \ {r})
  /\ UNCHANGED <<rows, links, found>>
  /\ Advance(r, 1)

\* The row comes to refer to other rows of the tables of `refs` than before, unless
\* the request inserted the row itself and has nothing to update.
UpdateRow(r) ==
  /\ AtOp(r, "update")
  /\ LET key   == Here(r).key
         refs  == Here(r).refs
         stale == {link \in links : /\ link[1] = key
                                    /\ \E ref \in refs : link[2].table = ref.table}
     IN  links' = IF [key |-> key, by |-> r] \in rows THEN links
                  ELSE (links \ stale) \cup {<<key, ref>> : ref \in refs}
  /\ UNCHANGED <<rows, revoked, overtaken, found>>
  /\ Advance(r, 1)

\* A row that was made inactive by hand is passed over: the lookup may fail though
\* there is a row.
PickRow(r) ==
  /\ AtOp(r, "pick")
  /\ \/ UNCHANGED found /\ End(r, "refused")
     \/ \E row \in rows :
          /\ row.key.table = Here(r).key.table /\ row.key.tenant = Here(r).key.tenant
          /\ \A ref \in Here(r).refs : <<row.key, ref>> \in links
          /\ found' = [found EXCEPT ![r] = {row.key}]
          /\ Advance(r, 1)
  /\ UNCHANGED <<rows, links, revoked, overtaken>>

\* A crash, a timeout or a lost connection: what was committed stays.
Interrupted(r) ==
  /\ Running(r)
  /\ UNCHANGED tableVars
  /\ End(r, "interrupted")

Execute(r) ==
  \/ CheckAbsent(r) \/ CheckEmpty(r) \/ CheckPresent(r) \/ CheckInput(r)
  \/ CheckToken(r) \/ FindRow(r) \/ InsertRow(r) \/ TryInsertRow(r) \/ RevokeToken(r)
  \/ UpdateRow(r) \/ PickRow(r)

TablesInit ==
  /\ rows      = {[key |-> key, by |-> Null] : key \in Seeded}
  /\ links     = SeededLinks
  /\ revoked   = {}
  /\ found     = [r \in Request |-> {}]
  /\ dto       = [r \in Request |-> Null]
  /\ script    = [r \in Request |-> <<>>]
  /\ at        = [r \in Request |-> 0]
  /\ status    = [r \in Request |-> "idle"]
  /\ overtaken = {}

Ended == {"done", "refused", "failed", "interrupted"}

TablesTypeOK ==
  /\ rows \subseteq [key : AnyKey, by : Request \cup {Null}]
  /\ links \subseteq AnyKey \X AnyKey
  /\ revoked \subseteq [key : AnyKey, by : Request]
  /\ overtaken \subseteq Request
  /\ found \in [Request -> SUBSET AnyKey]
  /\ dto \in [Request -> Dto \cup {Null}]
  /\ status \in [Request -> {"idle", "running"} \cup Ended]
  /\ at \in [Request -> Nat]
  /\ \A r \in Request : Running(r) => at[r] \in DOMAIN script[r] /\ dto[r] \in Dto
=============================================================================
