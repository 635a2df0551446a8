--------------------------- MODULE RegistryProofs ---------------------------
(* Proofs about Registry.  What the handlers of all services have in common   *)
(* is stated of the sequence of statements that each of them sends (it is     *)
(* WellFormed) and proved once for each kind of request; the invariant says   *)
(* of a handler only how far it has come in such a sequence, so that a step   *)
(* need not be looked at for each service again.                              *)
EXTENDS Registry, SumProofs, SequenceTheorems

-----------------------------------------------------------------------------
\* The statements that may refuse, and those that write.
Checks == {"absent", "empty", "present", "valid", "refuse"}
Writes == {"insert", "tryInsert", "revoke", "update"}

StatementKey == AnyKey \cup {Null} \cup [table : Table, tenant : Tenant, code : {Null}]
AnyStatement == [op : Operator, key : StatementKey, refs : SUBSET AnyKey]

\* A statement that may refuse, but writes nothing.
IsCheck(s) == s.op \in Checks /\ (s.op = "empty" => s = Empty(s.key.table, s.key.tenant))
                              /\ (s.op = "valid" => s = Valid(s.key))
CheckStatement == {s \in AnyStatement : IsCheck(s)}

\* Statements, whose keys are those of rows wherever they are written.
Typed(s) ==
  /\ s \in Seq(AnyStatement)
  /\ s # <<>>
  /\ \A i \in DOMAIN s :
       /\ s[i].op \in Writes => s[i].key \in AnyKey
       /\ s[i].op = "empty" => s[i] = Empty(s[i].key.table, s[i].key.tenant)
       /\ s[i].op = "valid" => s[i] = Valid(s[i].key)
       /\ s[i].op = "live"  => s[i] = Live(s[i].key)

\* No check that can refuse comes after a write.
ChecksFirst(s) ==
  \A i, j \in DOMAIN s : i < j /\ s[j].op \in Checks => s[i].op \in Checks

\* A condition skips one statement, which writes what the condition asks for.
Skippable(s) ==
  \A i \in DOMAIN s :
    /\ s[i].op = "find" => /\ i + 1 \in DOMAIN s
                           /\ s[i + 1].op = "insert" /\ s[i + 1].key = s[i].key
    /\ s[i].op = "live" => /\ i + 1 = Len(s)
                           /\ s[i + 1].op = "revoke" /\ s[i + 1].key = s[i].key

\* A reference of another company cannot get past the checks: a row of the same
\* company was looked for.
OwnOrChecked(d, s, i, ref) ==
  \/ ref.tenant = d.tenant
  \/ ref.table = "Permission"
  \/ s[i].key.table = "JournalEntry" /\ ref.table = "User"
  \/ /\ ref.tenant \in Tenant
     /\ \E j \in 1..(i - 1) : s[j].op = "present" /\ \E key \in s[j].refs : key.tenant = ref.tenant
  \/ \E j \in 1..(i - 1) : s[j].op = "valid" /\ s[j].key.tenant = ref.tenant

\* A row goes into the company of the request, and what it refers to is of that
\* company or was looked for.  Only the last insert may fail unnoticed.
InsertsOwn(d, s) ==
  \A i \in DOMAIN s :
    /\ s[i].op = "tryInsert" => s[i].key.table = "ProductBarcode" /\ i = Len(s)
    /\ s[i].op = "insert" => /\ s[i].key.tenant = d.tenant
                             /\ \A ref \in s[i].refs : OwnOrChecked(d, s, i, ref)

\* A user is inserted after the users have been counted, and it is the last insert.
CountsUsers(d, s) ==
  /\ \A i \in DOMAIN s : s[i].op = "insert" /\ s[i].key.table = "User" =>
       \E j \in 1..(i - 1) : s[j] = Empty("User", d.tenant)
  /\ \A i, j \in DOMAIN s : i < j /\ s[i].op = "empty" /\ s[j].op = "insert" => j = Len(s)

\* A token is revoked right after it was read, and a handler revokes one.
RevokesChecked(s) ==
  \A i \in DOMAIN s : s[i].op = "revoke" =>
    /\ i - 1 \in DOMAIN s /\ s[i - 1].op \in {"valid", "live"} /\ s[i - 1].key = s[i].key
    /\ \A j \in DOMAIN s : s[j].op = "revoke" => j = i

\* What an insert after the first write needs is there, and its key is the
\* default one of a new company or branch or has not been used before.
LaterInserts(r, d, s) ==
  \A i, j \in DOMAIN s : i < j /\ s[i].op \in Writes /\ s[j].op = "insert" =>
    /\ \A ref \in s[j].refs :
         \/ d.kind = "Refresh"
         \/ \E k \in 1..(j - 1) : \/ s[k].op = "present" /\ ref \in s[k].refs
                                  \/ s[k].op = "insert" /\ ref = s[k].key
    /\ s[i].op # "tryInsert"
    /\ s[i].op = "insert" => s[i].key # s[j].key
    /\ s[j].key = Key("RefreshToken", d.tenant, r) \/ s[j].key \in DefaultsOf(d)
    /\ s[i].op = "revoke" => s[j].key = Key("RefreshToken", d.tenant, r)

\* An update gives a device of the company what was looked for; only a refresh picks
\* a row, of the company, before it inserts any.
UpdatesAndPicks(d, s) ==
  \A i \in DOMAIN s :
    /\ s[i].op = "update" =>
         /\ s[i].key.table = "Device" /\ s[i].key.tenant = d.tenant
         /\ \A ref \in s[i].refs : ref.tenant \in Tenant
         /\ \E j \in 1..(i - 1) : s[j].op = "present" /\ s[i].refs \subseteq s[j].refs
    /\ s[i].op = "pick" =>
         /\ d.kind = "Refresh" /\ s[i].key.tenant = d.tenant
         /\ \A j \in 1..(i - 1) : s[j].op \notin {"insert", "tryInsert"}

\* A new refresh token has a key that no other request can use.
TokensFresh(r, s) ==
  \A i \in DOMAIN s :
    s[i].op = "insert" /\ s[i].key.table = "RefreshToken" => s[i].key.code = r

\* A journal entry balances, or its handler does not get that far.
EntriesChecked(d, s) ==
  \A i \in DOMAIN s : s[i].op = "insert" /\ s[i].key.table = "JournalEntry" =>
    /\ d \in JournalEntryDto
    /\ Balanced(d.lines) \/ \E j \in 1..(i - 1) : s[j].op = "refuse"

\* What is used of the statements s that the handler of r sends for the DTO d.
WellFormed(r, d, s) ==
  /\ Typed(s)
  /\ ChecksFirst(s)
  /\ Skippable(s)
  /\ InsertsOwn(d, s)
  /\ CountsUsers(d, s)
  /\ RevokesChecked(s)
  /\ LaterInserts(r, d, s)
  /\ TokensFresh(r, s)
  /\ EntriesChecked(d, s)
  /\ UpdatesAndPicks(d, s)

-----------------------------------------------------------------------------
\* A sequence and one more element.
LEMMA Snoc ==
  ASSUME NEW S, NEW s \in Seq(S), NEW x \in S
  PROVE  LET t == s \o <<x>>
         IN  /\ t \in Seq(S) /\ t # <<>>
             /\ Len(t) = Len(s) + 1 /\ Len(s) \in Nat
             /\ DOMAIN s = 1..Len(s) /\ DOMAIN t = 1..(Len(s) + 1)
             /\ \A i \in 1..Len(s) : t[i] = s[i]
             /\ t[Len(s) + 1] = x
OBVIOUS

\* Two sequences one after the other.
LEMMA Concat ==
  ASSUME NEW S, NEW s \in Seq(S), NEW t \in Seq(S)
  PROVE  /\ s \o t \in Seq(S)
         /\ DOMAIN s = 1..Len(s) /\ DOMAIN t = 1..Len(t)
         /\ DOMAIN (s \o t) = 1..(Len(s) + Len(t))
         /\ \A i \in DOMAIN s : (s \o t)[i] = s[i]
         /\ \A i \in DOMAIN t : (s \o t)[Len(s) + i] = t[i]
         /\ \A i \in DOMAIN (s \o t) : i \in DOMAIN s \/ i - Len(s) \in DOMAIN t
         /\ Len(s) \in Nat /\ Len(t) \in Nat
OBVIOUS

\* A sequence of two.
LEMMA Pair ==
  ASSUME NEW S, NEW a \in S, NEW b \in S
  PROVE  /\ <<a>> \o <<b>> = <<a, b>>
         /\ <<a, b>> \in Seq(S) /\ DOMAIN <<a, b>> = 1..2 /\ <<a, b>>[2] = b
<1>1. <<a>> \o <<b>> \in Seq(S) /\ <<a, b>> \in Seq(S)
  OBVIOUS
<1>2. Len(<<a>> \o <<b>>) = 2 /\ Len(<<a, b>>) = 2
  OBVIOUS
<1>3. (<<a>> \o <<b>>)[1] = a /\ (<<a>> \o <<b>>)[2] = b
  OBVIOUS
<1>4. \A i \in 1..2 : (<<a>> \o <<b>>)[i] = <<a, b>>[i]
  BY <1>3
<1>5. <<a>> \o <<b>> = <<a, b>>
  BY <1>1, <1>2, <1>4, SeqEqual
<1>6. DOMAIN <<a, b>> = 1..2 /\ <<a, b>>[2] = b
  OBVIOUS
<1> QED BY <1>1, <1>5, <1>6

\* The references that a sequence of checks has looked for.
Looked(s, ref) == \E i \in DOMAIN s : s[i].op = "present" /\ ref \in s[i].refs

\* Checks after checks are checks, and what either part looked for was looked for.
LEMMA LookedConcat ==
  ASSUME NEW s \in Seq(CheckStatement), NEW t \in Seq(CheckStatement), NEW ref
  PROVE  /\ s \o t \in Seq(CheckStatement)
         /\ Looked(s, ref) => Looked(s \o t, ref)
         /\ Looked(t, ref) => Looked(s \o t, ref)
<1>1. s \o t \in Seq(CheckStatement)
  BY Concat
<1>2. ASSUME Looked(s, ref) PROVE Looked(s \o t, ref)
  <2>1. PICK i \in DOMAIN s : s[i].op = "present" /\ ref \in s[i].refs
    BY <1>2 DEF Looked
  <2>2. i \in DOMAIN (s \o t) /\ (s \o t)[i] = s[i]
    BY Concat, <2>1
  <2> QED BY <2>1, <2>2 DEF Looked
<1>3. ASSUME Looked(t, ref) PROVE Looked(s \o t, ref)
  <2>1. PICK i \in DOMAIN t : t[i].op = "present" /\ ref \in t[i].refs
    BY <1>3 DEF Looked
  <2>2. Len(s) + i \in DOMAIN (s \o t) /\ (s \o t)[Len(s) + i] = t[i]
    BY Concat, <2>1
  <2> QED BY <2>1, <2>2 DEF Looked
<1> QED BY <1>1, <1>2, <1>3

\* The statements that a handler begins with are checks.
LEMMA StatementChecks ==
  /\ \A key \in AnyKey : Absent(key) \in CheckStatement
  /\ \A table \in Table, tenant \in Tenant : Empty(table, tenant) \in CheckStatement
  /\ \A refs \in SUBSET AnyKey : /\ Present(refs) \in CheckStatement
                                 /\ Present(refs).op = "present" /\ Present(refs).refs = refs
  /\ Refuse \in CheckStatement /\ Refuse.op = "refuse"
<1> USE DEF CheckStatement, IsCheck, AnyStatement, Checks, Operator, StatementKey, Statement
<1>1. \A key \in AnyKey : Absent(key) \in CheckStatement
  BY DEF Absent
<1>2. \A table \in Table, tenant \in Tenant : Empty(table, tenant) \in CheckStatement
  BY DEF Empty, Key
<1>3. \A refs \in SUBSET AnyKey : /\ Present(refs) \in CheckStatement
                                  /\ Present(refs).op = "present" /\ Present(refs).refs = refs
  BY DEF Present
<1>4. Refuse \in CheckStatement /\ Refuse.op = "refuse"
  BY DEF Refuse
<1> QED BY <1>1, <1>2, <1>3, <1>4

\* The same of the sequences a handler is put together from: a reference that it
\* asks for, given or not, has been looked for.
LEMMA Checking ==
  /\ \A key \in AnyKey : <<Absent(key)>> \in Seq(CheckStatement)
  /\ \A table \in Table, tenant \in Tenant :
       <<Empty(table, tenant)>> \in Seq(CheckStatement)
  /\ \A refs \in SUBSET AnyKey :
       /\ <<Present(refs)>> \in Seq(CheckStatement)
       /\ \A ref \in refs : Looked(<<Present(refs)>>, ref)
       /\ IfGiven(refs) \in Seq(CheckStatement)
       /\ \A ref \in refs : Looked(IfGiven(refs), ref)
<1>5. \A refs \in SUBSET AnyKey : \A ref \in refs : Looked(<<Present(refs)>>, ref)
  <2> SUFFICES ASSUME NEW refs \in SUBSET AnyKey, NEW ref \in refs
               PROVE  Looked(<<Present(refs)>>, ref)
    OBVIOUS
  <2>1. 1 \in DOMAIN <<Present(refs)>> /\ <<Present(refs)>>[1] = Present(refs)
    OBVIOUS
  <2> QED BY <2>1, StatementChecks DEF Looked
<1>6. \A refs \in SUBSET AnyKey : <<Present(refs)>> \in Seq(CheckStatement)
  BY StatementChecks
<1>7. \A refs \in SUBSET AnyKey : /\ IfGiven(refs) \in Seq(CheckStatement)
                                  /\ \A ref \in refs : Looked(IfGiven(refs), ref)
  BY <1>5, <1>6 DEF IfGiven
<1> QED BY <1>5, <1>6, <1>7, StatementChecks

\* A condition on the DTO is a check.
LEMMA RequireChecks ==
  ASSUME NEW condition
  PROVE  Require(condition) \in Seq(CheckStatement)
<1>1. CASE condition
  BY <1>1 DEF Require
<1>2. CASE ~condition
  BY <1>2, StatementChecks DEF Require
<1> QED BY <1>1, <1>2

\* The key of a row, and its parts.
LEMMA KeyTyped ==
  ASSUME NEW table \in Table, NEW tenant \in Tenant \cup {Null}, NEW code \in AnyCode
  PROVE  /\ Key(table, tenant, code) \in AnyKey
         /\ Key(table, tenant, code).table = table
         /\ Key(table, tenant, code).tenant = tenant
         /\ Key(table, tenant, code).code = code
BY DEF Key, AnyKey

\* The ids of a DTO name rows of their table.
LEMMA KeysOf ==
  /\ \A table \in Table : KeyOf(table) \subseteq AnyKey
  /\ \A table \in Table : \A key \in KeyOf(table) : key.table = table /\ key.tenant \in Tenant
  /\ Permission \subseteq AnyKey
  /\ \A key \in Permission : key.table = "Permission"
BY DEF KeyOf, Permission, AnyKey, Table

\* The row of a company is its own.
LEMMA CompanyTyped ==
  ASSUME NEW tenant \in Tenant
  PROVE  Company(tenant) \in AnyKey /\ Company(tenant).tenant = tenant
BY TenancyAssumption, KeyTyped DEF Company, Table, AnyCode

\* The parts of an insert.
LEMMA InsertFields ==
  ASSUME NEW key \in AnyKey, NEW refs \in SUBSET AnyKey
  PROVE  /\ Insert(key, refs) \in AnyStatement
         /\ Insert(key, refs).op = "insert"
         /\ Insert(key, refs).key = key
         /\ Insert(key, refs).refs = refs
         /\ TryInsert(key, refs) \in AnyStatement
         /\ TryInsert(key, refs).op = "tryInsert"
         /\ TryInsert(key, refs).key = key
         /\ TryInsert(key, refs).refs = refs
BY DEF Insert, TryInsert, Statement, AnyStatement, Operator, StatementKey

\* A check is a statement that writes nothing and skips nothing.
LEMMA CheckFields ==
  ASSUME NEW s \in CheckStatement
  PROVE  /\ s \in AnyStatement
         /\ s.op \in Checks
         /\ s.op \notin Writes \cup {"find", "live", "pick"}
         /\ s.op = "empty" => s = Empty(s.key.table, s.key.tenant)
         /\ s.op = "valid" => s = Valid(s.key)
BY DEF CheckStatement, IsCheck, Checks, Writes

-----------------------------------------------------------------------------
\* Most handlers: checks, and then one insert.
LEMMA GuardedInsert ==
  ASSUME NEW r \in Request, NEW d, d.tenant \in Tenant, NEW pre \in Seq(CheckStatement),
         NEW key \in AnyKey, key.tenant = d.tenant, NEW refs \in SUBSET AnyKey,
         \A ref \in refs :
           \/ ref.tenant = d.tenant \/ ref.table = "Permission"
           \/ key.table = "JournalEntry" /\ ref.table = "User"
           \/ ref.tenant \in Tenant /\ Looked(pre, ref),
         key.table = "User" => \E i \in DOMAIN pre : pre[i] = Empty("User", d.tenant),
         key.table # "RefreshToken",
         key.table = "JournalEntry" =>
           /\ d \in JournalEntryDto
           /\ Balanced(d.lines) \/ \E i \in DOMAIN pre : pre[i].op = "refuse"
  PROVE  WellFormed(r, d, pre \o <<Insert(key, refs)>>)
<1> DEFINE x == Insert(key, refs)
           s == pre \o <<x>>
           n == Len(pre) + 1
<1>1. /\ x \in AnyStatement /\ x.op = "insert" /\ x.key = key /\ x.refs = refs
  BY InsertFields
<1>2. pre \in Seq(AnyStatement)
  BY CheckFields
<1> HIDE DEF x
<1>3. /\ s \in Seq(AnyStatement) /\ s # <<>>
      /\ Len(s) = n /\ Len(pre) \in Nat
      /\ DOMAIN pre = 1..Len(pre) /\ DOMAIN s = 1..n
      /\ \A i \in 1..Len(pre) : s[i] = pre[i] /\ pre[i] \in CheckStatement
      /\ s[n] = x
  BY <1>1, <1>2, Snoc
<1> HIDE DEF s
<1>4. \A i \in DOMAIN s : i = n \/ (i \in DOMAIN pre /\ i < n)
  BY <1>3
<1>5. \A i \in DOMAIN pre :
        /\ i \in DOMAIN s /\ s[i] = pre[i] /\ i \in 1..(n - 1)
        /\ s[i].op \in Checks
        /\ s[i].op \notin Writes \cup {"find", "live", "pick"}
        /\ s[i].op = "empty" => s[i] = Empty(s[i].key.table, s[i].key.tenant)
        /\ s[i].op = "valid" => s[i] = Valid(s[i].key)
  BY <1>3, CheckFields
<1>6. Typed(s)
  BY <1>1, <1>3, <1>4, <1>5 DEF Typed, Writes
<1>7. ChecksFirst(s)
  BY <1>1, <1>3, <1>4, <1>5 DEF ChecksFirst, Checks
<1>8. Skippable(s)
  BY <1>1, <1>3, <1>4, <1>5 DEF Skippable
<1>9. InsertsOwn(d, s)
  <2>1. \A ref \in refs : OwnOrChecked(d, s, n, ref)
    BY <1>1, <1>3, <1>5 DEF OwnOrChecked, Looked
  <2> QED BY <1>1, <1>3, <1>4, <1>5, <2>1 DEF InsertsOwn, Writes
<1>10. CountsUsers(d, s)
  BY <1>1, <1>3, <1>4, <1>5 DEF CountsUsers, Writes
<1>11. RevokesChecked(s)
  BY <1>1, <1>3, <1>4, <1>5 DEF RevokesChecked, Writes
<1>12. LaterInserts(r, d, s)
  BY <1>1, <1>3, <1>4, <1>5 DEF LaterInserts, Writes
<1>13. TokensFresh(r, s)
  BY <1>1, <1>3, <1>4, <1>5 DEF TokensFresh, Writes
<1>14. EntriesChecked(d, s)
  BY <1>1, <1>3, <1>4, <1>5 DEF EntriesChecked, Writes
<1>15. UpdatesAndPicks(d, s)
  BY <1>1, <1>3, <1>4, <1>5 DEF UpdatesAndPicks, Writes
<1> QED BY <1>6, <1>7, <1>8, <1>9, <1>10, <1>11, <1>12, <1>13, <1>14, <1>15
        DEF WellFormed, s, x

\* A product with a barcode: one more insert, whose failure does not matter.
LEMMA BarcodeAfter ==
  ASSUME NEW r \in Request, NEW d, NEW s, WellFormed(r, d, s),
         \A i \in DOMAIN s : /\ s[i].op \in Checks \cup {"insert"}
                             /\ s[i].op # "empty",
         NEW key \in AnyKey, key.table = "ProductBarcode", NEW refs \in SUBSET AnyKey
  PROVE  WellFormed(r, d, s \o <<TryInsert(key, refs)>>)
<1> DEFINE x == TryInsert(key, refs)
           t == s \o <<x>>
           n == Len(s) + 1
<1>1. x \in AnyStatement /\ x.op = "tryInsert" /\ x.key = key /\ x.refs = refs
  BY InsertFields
<1>2. s \in Seq(AnyStatement)
  BY DEF WellFormed, Typed
<1> HIDE DEF x
<1>3. /\ t \in Seq(AnyStatement) /\ t # <<>>
      /\ Len(t) = n /\ Len(s) \in Nat
      /\ DOMAIN s = 1..Len(s) /\ DOMAIN t = 1..n
      /\ \A i \in 1..Len(s) : t[i] = s[i]
      /\ t[n] = x
  BY <1>1, <1>2, Snoc
<1> HIDE DEF t
<1>4. \A i \in DOMAIN t : i = n \/ (i \in DOMAIN s /\ i < n /\ t[i] = s[i])
  BY <1>3
<1>5. \A i \in DOMAIN s :
        /\ s[i].op \notin {"tryInsert", "revoke", "update", "pick", "find", "live", "empty"}
        /\ i \in 1..(n - 1) /\ t[i] = s[i]
        /\ \A j \in 1..(i - 1) : j \in DOMAIN s
  BY <1>3 DEF Checks
<1>6. Typed(t)
  BY <1>1, <1>3, <1>4, <1>5 DEF WellFormed, Typed, Writes
<1>7. ChecksFirst(t)
  BY <1>1, <1>3, <1>4, <1>5 DEF WellFormed, ChecksFirst, Checks
<1>8. Skippable(t)
  BY <1>1, <1>3, <1>4, <1>5 DEF Skippable
<1>9. InsertsOwn(d, t)
  <2>1. \A i \in DOMAIN s : s[i].op = "insert" =>
          /\ s[i].key.tenant = d.tenant
          /\ \A ref \in s[i].refs : OwnOrChecked(d, s, i, ref)
    BY DEF WellFormed, InsertsOwn
  <2>2. \A i \in DOMAIN s : \A ref : OwnOrChecked(d, s, i, ref) => OwnOrChecked(d, t, i, ref)
    BY <1>5 DEF OwnOrChecked
  <2>3. \A i \in DOMAIN t : t[i].op = "insert" => i \in DOMAIN s /\ t[i] = s[i]
    BY <1>1, <1>3, <1>4
  <2>4. \A i \in DOMAIN t : t[i].op = "tryInsert" => i = n
    BY <1>4, <1>5
  <2> QED BY <1>1, <1>3, <2>1, <2>2, <2>3, <2>4 DEF InsertsOwn
<1>10. CountsUsers(d, t)
  BY <1>1, <1>3, <1>4, <1>5 DEF WellFormed, CountsUsers
<1>11. RevokesChecked(t)
  BY <1>1, <1>3, <1>4, <1>5 DEF WellFormed, RevokesChecked
<1>12. LaterInserts(r, d, t)
  <2> SUFFICES ASSUME NEW i \in DOMAIN t, NEW j \in DOMAIN t, i < j,
                      t[i].op \in Writes, t[j].op = "insert"
               PROVE  /\ \A ref \in t[j].refs :
                           \/ d.kind = "Refresh"
                           \/ \E k \in 1..(j - 1) : \/ t[k].op = "present" /\ ref \in t[k].refs
                                                    \/ t[k].op = "insert" /\ ref = t[k].key
                      /\ t[i].op # "tryInsert"
                      /\ t[i].op = "insert" => t[i].key # t[j].key
                      /\ \/ t[j].key = Key("RefreshToken", d.tenant, r)
                         \/ t[j].key \in DefaultsOf(d)
                      /\ t[i].op = "revoke" => t[j].key = Key("RefreshToken", d.tenant, r)
    BY DEF LaterInserts
  <2>1. j \in DOMAIN s /\ i \in DOMAIN s /\ t[i] = s[i] /\ t[j] = s[j]
    BY <1>1, <1>3, <1>4
  <2>2. \A k \in 1..(j - 1) : t[k] = s[k]
    BY <2>1, <1>5
  <2> QED BY <2>1, <2>2 DEF WellFormed, LaterInserts
<1>13. TokensFresh(r, t)
  BY <1>1, <1>3, <1>4 DEF WellFormed, TokensFresh
<1>14. EntriesChecked(d, t)
  BY <1>1, <1>3, <1>4, <1>5 DEF WellFormed, EntriesChecked
<1>15. UpdatesAndPicks(d, t)
  BY <1>1, <1>3, <1>4, <1>5 DEF UpdatesAndPicks
<1> QED BY <1>6, <1>7, <1>8, <1>9, <1>10, <1>11, <1>12, <1>13, <1>14, <1>15
        DEF WellFormed, t, x

-----------------------------------------------------------------------------
\* The statements of every handler.
LEMMA CompanyFormed ==
  ASSUME NEW r \in Request, NEW d \in CompanyDto
  PROVE  WellFormed(r, d, CreateCompany(d))
<1> DEFINE company == Company(d.tenant)
           branch  == Key("Branch", d.tenant, Main)
           store   == Key("Warehouse", d.tenant, DefaultCode(Main))
           x1 == Absent(company)
           x2 == Insert(company, {})
           x3 == Insert(branch, {company})
           x4 == Insert(store, {company, branch})
           s  == <<x1, x2, x3, x4>>
<1>1. d.tenant \in Tenant /\ d.kind = "Company"
  BY DEF CompanyDto
<1>2. /\ company \in AnyKey /\ company.tenant = d.tenant /\ company.table = "Company"
      /\ branch \in AnyKey /\ branch.tenant = d.tenant /\ branch.table = "Branch"
      /\ store \in AnyKey /\ store.tenant = d.tenant /\ store.table = "Warehouse"
  BY <1>1, TenancyAssumption, KeyTyped DEF Company, Table, AnyCode
<1>0. {branch, store} \subseteq DefaultsOf(d)
  BY <1>1 DEF DefaultsOf
<1> HIDE DEF company, branch, store
<1>3. /\ x1 \in AnyStatement /\ x1.op = "absent"
      /\ x2 \in AnyStatement /\ x2.op = "insert" /\ x2.key = company /\ x2.refs = {}
      /\ x3 \in AnyStatement /\ x3.op = "insert" /\ x3.key = branch /\ x3.refs = {company}
      /\ x4 \in AnyStatement /\ x4.op = "insert" /\ x4.key = store /\ x4.refs = {company, branch}
  BY <1>2, InsertFields DEF Absent, Statement, AnyStatement, Operator, StatementKey
<1> HIDE DEF x1, x2, x3, x4
<1>4. /\ s \in Seq(AnyStatement) /\ s # <<>> /\ Len(s) = 4 /\ DOMAIN s = 1..4
      /\ s[1] = x1 /\ s[2] = x2 /\ s[3] = x3 /\ s[4] = x4
  BY <1>3
<1>5. \A i \in DOMAIN s : i \in {1, 2, 3, 4}
  BY <1>4
<1> HIDE DEF s
<1>6. Typed(s) /\ ChecksFirst(s) /\ Skippable(s)
  BY <1>2, <1>3, <1>4, <1>5 DEF Typed, ChecksFirst, Skippable, Checks, Writes
<1>7. InsertsOwn(d, s)
  BY <1>2, <1>3, <1>4, <1>5 DEF InsertsOwn, OwnOrChecked
<1>8. /\ CountsUsers(d, s) /\ RevokesChecked(s) /\ TokensFresh(r, s) /\ EntriesChecked(d, s)
      /\ UpdatesAndPicks(d, s)
  BY <1>2, <1>3, <1>4, <1>5
     DEF CountsUsers, RevokesChecked, TokensFresh, EntriesChecked, UpdatesAndPicks
<1>9. LaterInserts(r, d, s)
  <2>1. \A ref \in {company, branch} : \E k \in {2, 3} :
          s[k].op = "insert" /\ ref = s[k].key
    BY <1>3, <1>4
  <2>2. 2 \in 1..(3 - 1) /\ 2 \in 1..(4 - 1) /\ 3 \in 1..(4 - 1)
    OBVIOUS
  <2> QED BY <1>0, <1>1, <1>2, <1>3, <1>4, <1>5, <2>1, <2>2 DEF LaterInserts, Writes
<1> QED BY <1>6, <1>7, <1>8, <1>9
        DEF WellFormed, CreateCompany, s, x1, x2, x3, x4, company, branch, store

\* CompanyService.createBranch: the default warehouse refers to the branch.
LEMMA BranchFormed ==
  ASSUME NEW r \in Request, NEW d \in BranchDto
  PROVE  WellFormed(r, d, CreateBranch(d))
<1> DEFINE company == Company(d.tenant)
           branch  == Key("Branch", d.tenant, d.code)
           store   == Key("Warehouse", d.tenant, DefaultCode(d.code))
           x1 == Present({company})
           x2 == Absent(branch)
           x3 == Insert(branch, {company})
           x4 == Insert(store, {company, branch})
           s  == <<x1, x2, x3, x4>>
<1>1. d.tenant \in Tenant /\ d.kind = "Branch" /\ d.code \in Code
  BY DEF BranchDto
<1>2. /\ company \in AnyKey /\ company.tenant = d.tenant /\ company.table = "Company"
      /\ branch \in AnyKey /\ branch.tenant = d.tenant /\ branch.table = "Branch"
      /\ store \in AnyKey /\ store.tenant = d.tenant /\ store.table = "Warehouse"
  BY <1>1, TenancyAssumption, KeyTyped DEF Company, Table, AnyCode
<1>0. {store} \subseteq DefaultsOf(d)
  BY <1>1 DEF DefaultsOf
<1> HIDE DEF company, branch, store
<1>3. /\ x1 \in AnyStatement /\ x1.op = "present" /\ x1.refs = {company}
      /\ x2 \in AnyStatement /\ x2.op = "absent"
      /\ x3 \in AnyStatement /\ x3.op = "insert" /\ x3.key = branch /\ x3.refs = {company}
      /\ x4 \in AnyStatement /\ x4.op = "insert" /\ x4.key = store /\ x4.refs = {company, branch}
  BY <1>2, InsertFields DEF Absent, Present, Statement, AnyStatement, Operator, StatementKey
<1> HIDE DEF x1, x2, x3, x4
<1>4. /\ s \in Seq(AnyStatement) /\ s # <<>> /\ Len(s) = 4 /\ DOMAIN s = 1..4
      /\ s[1] = x1 /\ s[2] = x2 /\ s[3] = x3 /\ s[4] = x4
  BY <1>3
<1>5. \A i \in DOMAIN s : i \in {1, 2, 3, 4}
  BY <1>4
<1> HIDE DEF s
<1>6. Typed(s) /\ ChecksFirst(s) /\ Skippable(s)
  BY <1>2, <1>3, <1>4, <1>5 DEF Typed, ChecksFirst, Skippable, Checks, Writes
<1>7. InsertsOwn(d, s)
  BY <1>2, <1>3, <1>4, <1>5 DEF InsertsOwn, OwnOrChecked
<1>8. /\ CountsUsers(d, s) /\ RevokesChecked(s) /\ TokensFresh(r, s) /\ EntriesChecked(d, s)
      /\ UpdatesAndPicks(d, s)
  BY <1>2, <1>3, <1>4, <1>5
     DEF CountsUsers, RevokesChecked, TokensFresh, EntriesChecked, UpdatesAndPicks
<1>9. LaterInserts(r, d, s)
  <2>1. \A ref \in {company, branch} : \/ s[1].op = "present" /\ ref \in s[1].refs
                                       \/ s[3].op = "insert" /\ ref = s[3].key
    BY <1>3, <1>4
  <2>2. 1 \in 1..(4 - 1) /\ 3 \in 1..(4 - 1)
    OBVIOUS
  <2> QED BY <1>0, <1>1, <1>2, <1>3, <1>4, <1>5, <2>1, <2>2 DEF LaterInserts, Writes
<1> QED BY <1>6, <1>7, <1>8, <1>9
        DEF WellFormed, CreateBranch, s, x1, x2, x3, x4, company, branch, store

\* InventoryService.createWarehouse: the branch, if there is one, was looked for.
LEMMA WarehouseFormed ==
  ASSUME NEW r \in Request, NEW d \in WarehouseDto
  PROVE  WellFormed(r, d, CreateWarehouse(d))
<1>1. d.tenant \in Tenant /\ d.code \in AnyCode /\ d.branch \subseteq KeyOf("Branch")
  BY DEF WarehouseDto
<1>2. d.branch \in SUBSET AnyKey /\ \A ref \in d.branch : ref.tenant \in Tenant
  BY <1>1, KeysOf DEF Table
<1> DEFINE pre  == IfGiven(d.branch)
           key  == Key("Warehouse", d.tenant, d.code)
           refs == {Company(d.tenant)} \cup d.branch
<1>3. pre \in Seq(CheckStatement) /\ \A ref \in d.branch : Looked(pre, ref)
  BY <1>2, Checking
<1>4. key \in AnyKey /\ key.tenant = d.tenant /\ key.table = "Warehouse"
  BY <1>1, KeyTyped DEF Table
<1>5. refs \in SUBSET AnyKey
  BY <1>1, <1>2, CompanyTyped
<1>6. \A ref \in refs : ref.tenant = d.tenant \/ (ref.tenant \in Tenant /\ Looked(pre, ref))
  BY <1>1, <1>2, <1>3, CompanyTyped
<1> HIDE DEF pre, key, refs
<1>7. WellFormed(r, d, pre \o <<Insert(key, refs)>>)
  BY <1>1, <1>3, <1>4, <1>5, <1>6, GuardedInsert
<1> QED BY <1>7 DEF CreateWarehouse, pre, key, refs

\* UsersService.createUser: the users are counted before the first insert.
LEMMA UserFormed ==
  ASSUME NEW r \in Request, NEW d \in UserDto
  PROVE  WellFormed(r, d, CreateUser(r, d))
<1>1. /\ d.tenant \in Tenant /\ d.email \in Code \cup {Null}
      /\ d.branch \subseteq KeyOf("Branch")
  BY DEF UserDto
<1>2. d.branch \in SUBSET AnyKey /\ \A ref \in d.branch : ref.tenant \in Tenant
  BY <1>1, KeysOf DEF Table
<1> DEFINE key  == UserKey(r, d)
           pre1 == <<Present({Company(d.tenant)}), Empty("User", d.tenant)>>
           pre2 == IfGiven(d.branch)
           pre3 == IF d.email = Null THEN <<>> ELSE <<Absent(key)>>
           p2   == pre1 \o pre2
           pre  == p2 \o pre3
           refs == {Company(d.tenant)} \cup d.branch
<1>3. key \in AnyKey /\ key.tenant = d.tenant /\ key.table = "User"
  BY <1>1, KeyTyped DEF UserKey, Table, AnyCode
<1>4. refs \in SUBSET AnyKey
  BY <1>1, <1>2, CompanyTyped
<1> HIDE DEF key
<1>5. /\ pre1 \in Seq(CheckStatement)
      /\ 2 \in DOMAIN pre1 /\ pre1[2] = Empty("User", d.tenant)
  <2>1. {Company(d.tenant)} \in SUBSET AnyKey
    BY <1>1, CompanyTyped
  <2>2. "User" \in Table
    BY DEF Table
  <2>3. /\ Present({Company(d.tenant)}) \in CheckStatement
        /\ Empty("User", d.tenant) \in CheckStatement
    BY <1>1, <2>1, <2>2, StatementChecks
  <2> QED BY <2>3, Pair
<1>6. pre2 \in Seq(CheckStatement) /\ \A ref \in d.branch : Looked(pre2, ref)
  BY <1>2, Checking
<1>7. pre3 \in Seq(CheckStatement)
  BY <1>3, Checking
<1> HIDE DEF pre1, pre2, pre3
<1>9. /\ p2 \in Seq(CheckStatement)
      /\ 2 \in DOMAIN p2 /\ p2[2] = pre1[2]
      /\ \A ref \in d.branch : Looked(p2, ref)
  BY <1>5, <1>6, Concat, LookedConcat
<1> HIDE DEF p2
<1>10. /\ pre \in Seq(CheckStatement)
       /\ 2 \in DOMAIN pre /\ pre[2] = p2[2]
       /\ \A ref \in d.branch : Looked(pre, ref)
  BY <1>7, <1>9, Concat, LookedConcat
<1>11. \A ref \in refs : ref.tenant = d.tenant \/ (ref.tenant \in Tenant /\ Looked(pre, ref))
  BY <1>1, <1>2, <1>10, CompanyTyped
<1> HIDE DEF pre, refs
<1>12. WellFormed(r, d, pre \o <<Insert(key, refs)>>)
  BY <1>1, <1>3, <1>4, <1>5, <1>9, <1>10, <1>11, GuardedInsert
<1> QED BY <1>12 DEF CreateUser, pre, p2, pre1, pre2, pre3, key, refs

\* UsersService.createRole: the permissions belong to no company.
LEMMA RoleFormed ==
  ASSUME NEW r \in Request, NEW d \in RoleDto
  PROVE  WellFormed(r, d, CreateRole(d))
<1>1. d.tenant \in Tenant /\ d.name \in Code /\ d.permissions \subseteq Permission
  BY DEF RoleDto
<1>2. d.permissions \in SUBSET AnyKey /\ \A ref \in d.permissions : ref.table = "Permission"
  BY <1>1, KeysOf
<1> DEFINE key  == Key("Role", d.tenant, d.name)
           pre1 == <<Present({Company(d.tenant)}), Absent(key)>>
           pre2 == IfGiven(d.permissions)
           pre  == pre1 \o pre2
           refs == {Company(d.tenant)} \cup d.permissions
<1>3. key \in AnyKey /\ key.tenant = d.tenant /\ key.table = "Role"
  BY <1>1, KeyTyped DEF Table, AnyCode
<1>4. refs \in SUBSET AnyKey
  BY <1>1, <1>2, CompanyTyped
<1> HIDE DEF key
<1>5. pre1 \in Seq(CheckStatement)
  <2>1. {Company(d.tenant)} \in SUBSET AnyKey
    BY <1>1, CompanyTyped
  <2>2. Present({Company(d.tenant)}) \in CheckStatement /\ Absent(key) \in CheckStatement
    BY <1>3, <2>1, StatementChecks
  <2> QED BY <2>2, Pair
<1>6. pre2 \in Seq(CheckStatement)
  BY <1>2, Checking
<1> HIDE DEF pre1, pre2
<1>7. pre \in Seq(CheckStatement)
  BY <1>5, <1>6, Concat
<1>8. \A ref \in refs : ref.tenant = d.tenant \/ ref.table = "Permission"
  BY <1>1, <1>2, CompanyTyped
<1> HIDE DEF pre, refs
<1>9. WellFormed(r, d, pre \o <<Insert(key, refs)>>)
  BY <1>1, <1>3, <1>4, <1>7, <1>8, GuardedInsert
<1> QED BY <1>9 DEF CreateRole, pre, pre1, pre2, key, refs

\* createCategory, createBrand, createUnit and createCashbox.
LEMMA CheckThenInsertFormed ==
  ASSUME NEW r \in Request, NEW d, d.tenant \in Tenant, NEW code \in Code,
         NEW table \in {"Category", "Brand", "Unit", "Cashbox"}
  PROVE  WellFormed(r, d, CheckThenInsert(Key(table, d.tenant, code)))
<1> DEFINE key  == Key(table, d.tenant, code)
           pre  == <<Absent(key)>>
           refs == {Company(d.tenant)}
<1>1. key \in AnyKey /\ key.tenant = d.tenant /\ key.table = table
  BY KeyTyped DEF Table, AnyCode
<1> HIDE DEF key
<1>2. pre \in Seq(CheckStatement) /\ Absent(key) \in AnyStatement
  BY <1>1, Checking, StatementChecks, CheckFields
<1>3. refs \in SUBSET AnyKey /\ \A ref \in refs : ref.tenant = d.tenant
  BY CompanyTyped
<1> HIDE DEF refs
<1>4. pre \o <<Insert(key, refs)>> = <<Absent(key), Insert(key, refs)>>
  BY <1>1, <1>2, <1>3, InsertFields, Pair
<1> HIDE DEF pre
<1>5. WellFormed(r, d, pre \o <<Insert(key, refs)>>)
  BY <1>1, <1>2, <1>3, GuardedInsert
<1> QED BY <1>1, <1>4, <1>5 DEF CheckThenInsert, key, refs

\* ProductsService.createProduct, with and without a barcode: what the product
\* refers to was looked for.
LEMMA ProductFormed ==
  ASSUME NEW r \in Request, NEW d \in ProductDto
  PROVE  WellFormed(r, d, CreateProduct(d))
<1>1. /\ d.tenant \in Tenant /\ d.sku \in Code /\ d.barcode \in Code \cup {Null}
      /\ d.category \subseteq KeyOf("Category") /\ d.brand \subseteq KeyOf("Brand")
      /\ d.unit \subseteq KeyOf("Unit")
  BY DEF ProductDto
<1>2. /\ d.category \in SUBSET AnyKey /\ d.brand \in SUBSET AnyKey /\ d.unit \in SUBSET AnyKey
      /\ \A ref \in d.category \cup d.brand \cup d.unit : ref.tenant \in Tenant
  BY <1>1, KeysOf DEF Table
<1> DEFINE key  == Key("Product", d.tenant, d.sku)
           pre1 == <<Absent(key)>>
           pre2 == pre1 \o IfGiven(d.category)
           pre3 == pre2 \o IfGiven(d.brand)
           pre  == pre3 \o IfGiven(d.unit)
           refs == {Company(d.tenant)} \cup d.category \cup d.brand \cup d.unit
           s    == pre \o <<Insert(key, refs)>>
<1>3. key \in AnyKey /\ key.tenant = d.tenant /\ key.table = "Product"
  BY <1>1, KeyTyped DEF Table, AnyCode
<1>4. refs \in SUBSET AnyKey
  BY <1>1, <1>2, CompanyTyped
<1> HIDE DEF key
<1> DEFINE Simple(t) == \A i \in DOMAIN t : t[i].op \in {"absent", "present"}
<1>5. pre1 \in Seq(CheckStatement) /\ Simple(pre1)
  <2>1. DOMAIN pre1 = {1} /\ pre1[1].op = "absent"
    BY DEF Absent, Statement
  <2> QED BY <1>3, <2>1, Checking
<1>6. \A set \in SUBSET AnyKey : IfGiven(set) \in Seq(CheckStatement) /\ Simple(IfGiven(set))
  <2> SUFFICES ASSUME NEW set \in SUBSET AnyKey
               PROVE  IfGiven(set) \in Seq(CheckStatement) /\ Simple(IfGiven(set))
    OBVIOUS
  <2>1. Simple(<<>>)
    OBVIOUS
  <2>2. Simple(<<Present(set)>>)
    BY DEF Present, Statement
  <2> QED BY <2>1, <2>2, Checking DEF IfGiven
<1> HIDE DEF pre1
<1>7. \A t, u \in Seq(CheckStatement) : Simple(t) /\ Simple(u) => Simple(t \o u)
  <2> SUFFICES ASSUME NEW t \in Seq(CheckStatement), NEW u \in Seq(CheckStatement),
                      Simple(t), Simple(u), NEW i \in DOMAIN (t \o u)
               PROVE  (t \o u)[i].op \in {"absent", "present"}
    OBVIOUS
  <2>1. CASE i \in DOMAIN t
    BY <2>1, Concat
  <2>2. CASE i - Len(t) \in DOMAIN u
    <3>1. (t \o u)[Len(t) + (i - Len(t))] = u[i - Len(t)]
      BY <2>2, Concat
    <3>2. Len(t) + (i - Len(t)) = i
      BY Concat
    <3> QED BY <2>2, <3>1, <3>2
  <2> QED BY <2>1, <2>2, Concat
<1> HIDE DEF Simple
<1>8. /\ pre2 \in Seq(CheckStatement) /\ Simple(pre2)
      /\ \A ref \in d.category : Looked(pre2, ref)
  BY <1>2, <1>5, <1>6, <1>7, Checking, LookedConcat
<1> HIDE DEF pre2
<1>9. /\ pre3 \in Seq(CheckStatement) /\ Simple(pre3)
      /\ \A ref \in d.category \cup d.brand : Looked(pre3, ref)
  BY <1>2, <1>6, <1>7, <1>8, Checking, LookedConcat
<1> HIDE DEF pre3
<1>10. /\ pre \in Seq(CheckStatement) /\ Simple(pre)
       /\ \A ref \in d.category \cup d.brand \cup d.unit : Looked(pre, ref)
  BY <1>2, <1>6, <1>7, <1>9, Checking, LookedConcat
<1> HIDE DEF pre
<1>11. \A ref \in refs : ref.tenant = d.tenant \/ (ref.tenant \in Tenant /\ Looked(pre, ref))
  BY <1>1, <1>2, <1>10, CompanyTyped
<1> HIDE DEF refs
<1>12. WellFormed(r, d, s)
  BY <1>1, <1>3, <1>4, <1>10, <1>11, GuardedInsert
<1>13. \A i \in DOMAIN s : s[i].op \in Checks \cup {"insert"} /\ s[i].op # "empty"
  <2>1. /\ Insert(key, refs) \in AnyStatement /\ Insert(key, refs).op = "insert"
    BY <1>3, <1>4, InsertFields
  <2>2. pre \in Seq(AnyStatement)
    BY <1>10, CheckFields
  <2>3. /\ DOMAIN s = 1..(Len(pre) + 1) /\ s[Len(pre) + 1].op = "insert"
        /\ DOMAIN pre = 1..Len(pre) /\ Len(pre) \in Nat
        /\ \A i \in DOMAIN pre : s[i] = pre[i]
    BY <2>1, <2>2, Snoc
  <2>4. \A i \in DOMAIN s : i \in DOMAIN pre \/ i = Len(pre) + 1
    BY <2>3
  <2> QED BY <1>10, <2>3, <2>4 DEF Simple, Checks
<1>14. CASE d.barcode = Null
  <2>1. s \in Seq(AnyStatement)
    BY <1>12 DEF WellFormed, Typed
  <2>2. s \o <<>> = s
    BY <2>1, ConcatEmptySeq
  <2> QED BY <1>12, <1>14, <2>2 DEF CreateProduct, pre, pre1, pre2, pre3, key, refs
<1>15. CASE d.barcode # Null
  <2> DEFINE barcode == BarcodeKey(d.barcode)
  <2>1. barcode \in AnyKey /\ barcode.table = "ProductBarcode"
    <3>1. "ProductBarcode" \in Table /\ d.barcode \in AnyCode
      BY <1>1, <1>15 DEF Table, AnyCode
    <3> QED BY <3>1, KeyTyped DEF BarcodeKey
  <2>2. {key} \in SUBSET AnyKey
    BY <1>3
  <2> HIDE DEF barcode, s
  <2>3. WellFormed(r, d, s \o <<TryInsert(barcode, {key})>>)
    BY <1>12, <1>13, <2>1, <2>2, BarcodeAfter
  <2> QED BY <1>15, <2>3 DEF CreateProduct, pre, pre1, pre2, pre3, key, refs, s, barcode
<1> QED BY <1>14, <1>15

\* SalesService.createCustomer, PurchasesService.createSupplier: one insert, without
\* a check.
LEMMA PartyFormed ==
  ASSUME NEW r \in Request, NEW d, d.tenant \in Tenant, NEW code \in AnyCode,
         NEW table \in {"Customer", "Supplier"}
  PROVE  WellFormed(r, d, <<Insert(Key(table, d.tenant, code), {Company(d.tenant)})>>)
<1> DEFINE key  == Key(table, d.tenant, code)
           refs == {Company(d.tenant)}
<1>1. key \in AnyKey /\ key.tenant = d.tenant /\ key.table = table
  BY KeyTyped DEF Table
<1> HIDE DEF key
<1>2. refs \in SUBSET AnyKey /\ \A ref \in refs : ref.tenant = d.tenant
  BY CompanyTyped
<1> HIDE DEF refs
<1>3. <<>> \in Seq(CheckStatement)
  OBVIOUS
<1>4. <<Insert(key, refs)>> \in Seq(AnyStatement)
  BY <1>1, <1>2, InsertFields
<1>5. WellFormed(r, d, <<>> \o <<Insert(key, refs)>>)
  BY <1>1, <1>2, <1>3, GuardedInsert
<1>6. <<>> \o <<Insert(key, refs)>> = <<Insert(key, refs)>>
  BY <1>4, ConcatEmptySeq
<1> QED BY <1>5, <1>6 DEF key, refs

\* AccountingService.createAccount: the parent was looked for.
LEMMA AccountFormed ==
  ASSUME NEW r \in Request, NEW d \in AccountDto
  PROVE  WellFormed(r, d, CreateAccount(d))
<1>1. d.tenant \in Tenant /\ d.code \in Code /\ d.parent \subseteq KeyOf("Account")
  BY DEF AccountDto
<1>2. d.parent \in SUBSET AnyKey /\ \A ref \in d.parent : ref.tenant \in Tenant
  BY <1>1, KeysOf DEF Table
<1> DEFINE key  == Key("Account", d.tenant, d.code)
           pre1 == <<Absent(key)>>
           pre  == pre1 \o IfGiven(d.parent)
           refs == {Company(d.tenant)} \cup d.parent
<1>3. key \in AnyKey /\ key.tenant = d.tenant /\ key.table = "Account"
  BY <1>1, KeyTyped DEF Table, AnyCode
<1>4. refs \in SUBSET AnyKey
  BY <1>1, <1>2, CompanyTyped
<1> HIDE DEF key
<1>5. pre1 \in Seq(CheckStatement)
  BY <1>3, Checking
<1> HIDE DEF pre1
<1>6. pre \in Seq(CheckStatement) /\ \A ref \in d.parent : Looked(pre, ref)
  BY <1>2, <1>5, Checking, LookedConcat
<1>7. \A ref \in refs : ref.tenant = d.tenant \/ (ref.tenant \in Tenant /\ Looked(pre, ref))
  BY <1>1, <1>2, <1>6, CompanyTyped
<1> HIDE DEF pre, refs
<1>8. WellFormed(r, d, pre \o <<Insert(key, refs)>>)
  BY <1>1, <1>3, <1>4, <1>6, <1>7, GuardedInsert
<1> QED BY <1>8 DEF CreateAccount, pre, pre1, key, refs

\* AccountingService.createExpense: the amount is checked, and the user looked for.
LEMMA ExpenseFormed ==
  ASSUME NEW r \in Request, NEW d \in ExpenseDto
  PROVE  WellFormed(r, d, CreateExpense(r, d))
<1>1. d.tenant \in Tenant /\ d.user \subseteq KeyOf("User")
  BY DEF ExpenseDto
<1>2. d.user \in SUBSET AnyKey /\ \A ref \in d.user : ref.tenant \in Tenant
  BY <1>1, KeysOf DEF Table
<1> DEFINE key  == Key("Expense", d.tenant, r)
           pre1 == Require(d.amount > 0)
           pre  == pre1 \o IfGiven(d.user)
           refs == {Company(d.tenant)} \cup d.user
<1>3. key \in AnyKey /\ key.tenant = d.tenant /\ key.table = "Expense"
  BY <1>1, KeyTyped DEF Table, AnyCode
<1>4. refs \in SUBSET AnyKey
  BY <1>1, <1>2, CompanyTyped
<1> HIDE DEF key
<1>5. pre1 \in Seq(CheckStatement)
  BY RequireChecks
<1> HIDE DEF pre1
<1>6. pre \in Seq(CheckStatement) /\ \A ref \in d.user : Looked(pre, ref)
  BY <1>2, <1>5, Checking, LookedConcat
<1>7. \A ref \in refs : ref.tenant = d.tenant \/ (ref.tenant \in Tenant /\ Looked(pre, ref))
  BY <1>1, <1>2, <1>6, CompanyTyped
<1> HIDE DEF pre, refs
<1>8. WellFormed(r, d, pre \o <<Insert(key, refs)>>)
  BY <1>1, <1>3, <1>4, <1>6, <1>7, GuardedInsert
<1> QED BY <1>8 DEF CreateExpense, pre, pre1, key, refs

\* AccountingService.createJournalEntry: an entry out of balance is refused, and
\* so is one with an unknown account; the user is not looked for.
LEMMA JournalEntryFormed ==
  ASSUME NEW r \in Request, NEW d \in JournalEntryDto
  PROVE  WellFormed(r, d, CreateJournalEntry(d))
<1> DEFINE accounts == {d.lines[i].account : i \in DOMAIN d.lines}
           sound == (\A i \in DOMAIN d.lines : OneSided(d.lines[i])) /\ Balanced(d.lines)
           key  == Key("JournalEntry", d.tenant, d.number)
           pre1 == Require(Len(d.lines) >= 2)
           pre2 == <<Present(accounts)>>
           pre3 == Require(sound)
           p2   == pre1 \o pre2
           pre  == p2 \o pre3
           refs == {Company(d.tenant)} \cup accounts \cup d.user
<1>1. /\ d.tenant \in Tenant /\ d.number \in Code /\ d.user \subseteq KeyOf("User")
      /\ d.lines \in Seq(JournalLine)
  BY DEF JournalEntryDto
<1>2. /\ accounts \in SUBSET AnyKey /\ \A ref \in accounts : ref.tenant \in Tenant
      /\ d.user \in SUBSET AnyKey /\ \A ref \in d.user : ref.table = "User"
  <2>1. \A i \in DOMAIN d.lines : d.lines[i].account \in KeyOf("Account")
    <3>1. d.lines \in [DOMAIN d.lines -> JournalLine]
      BY <1>1, LenProperties
    <3>2. \A line \in JournalLine : line.account \in KeyOf("Account")
      BY DEF JournalLine
    <3> QED BY <3>1, <3>2
  <2>2. accounts \subseteq KeyOf("Account")
    BY <2>1
  <2>3. "Account" \in Table /\ "User" \in Table
    BY DEF Table
  <2> HIDE DEF accounts
  <2> QED BY <1>1, <2>2, <2>3, KeysOf
<1>3. key \in AnyKey /\ key.tenant = d.tenant /\ key.table = "JournalEntry"
  BY <1>1, KeyTyped DEF Table, AnyCode
<1> HIDE DEF accounts, key
<1>4. refs \in SUBSET AnyKey
  BY <1>1, <1>2, CompanyTyped
<1>5. pre1 \in Seq(CheckStatement)
  BY RequireChecks
<1>6. pre2 \in Seq(CheckStatement) /\ \A ref \in accounts : Looked(pre2, ref)
  BY <1>2, Checking
<1>7. /\ pre3 \in Seq(CheckStatement)
      /\ Balanced(d.lines) \/ (1 \in DOMAIN pre3 /\ pre3[1].op = "refuse")
  <2>2. CASE sound
    BY <2>2, RequireChecks
  <2>3. CASE ~sound
    <3>1. pre3 = <<Refuse>>
      BY <2>3 DEF Require
    <3>2. 1 \in DOMAIN <<Refuse>> /\ <<Refuse>>[1] = Refuse
      OBVIOUS
    <3> HIDE DEF pre3
    <3> QED BY <3>1, <3>2, RequireChecks, StatementChecks DEF pre3
  <2> QED BY <2>2, <2>3
<1> HIDE DEF pre1, pre2, pre3
<1>8. p2 \in Seq(CheckStatement) /\ \A ref \in accounts : Looked(p2, ref)
  BY <1>5, <1>6, LookedConcat
<1> HIDE DEF p2
<1>9. pre \in Seq(CheckStatement) /\ \A ref \in accounts : Looked(pre, ref)
  BY <1>7, <1>8, LookedConcat
<1>10. Balanced(d.lines) \/ \E i \in DOMAIN pre : pre[i].op = "refuse"
  <2>1. 1 \in DOMAIN pre3 => Len(p2) + 1 \in DOMAIN pre /\ pre[Len(p2) + 1] = pre3[1]
    BY <1>7, <1>8, Concat
  <2> QED BY <1>7, <2>1
<1>11. \A ref \in refs : \/ ref.tenant = d.tenant \/ ref.table = "User"
                         \/ ref.tenant \in Tenant /\ Looked(pre, ref)
  BY <1>1, <1>2, <1>9, CompanyTyped
<1> HIDE DEF pre, refs
<1>12. WellFormed(r, d, pre \o <<Insert(key, refs)>>)
  BY <1>1, <1>3, <1>4, <1>9, <1>10, <1>11, GuardedInsert
<1> QED BY <1>12 DEF CreateJournalEntry, pre, p2, pre1, pre2, pre3, key, refs, accounts

\* AuthService.login: the device is inserted unless it is found, gets the user if it
\* is, and the token comes after it.
LEMMA LoginFormed ==
  ASSUME NEW r \in Request, NEW d \in LoginDto,
         Referred(d.user, "Branch") \subseteq AnyKey,
         \A ref \in Referred(d.user, "Branch") : ref.tenant = d.user.tenant
  PROVE  WellFormed(r, d, Login(r, d))
<1> DEFINE device == Key("Device", d.tenant, d.device)
           token  == Key("RefreshToken", d.tenant, r)
           owners == {Company(d.tenant), d.user} \cup Referred(d.user, "Branch")
           x1 == Present({d.user})
           x2 == Find(device)
           x3 == Insert(device, owners)
           x4 == Update(device, {d.user})
           x5 == Insert(token, {d.user, device})
           s  == <<x1, x2, x3, x4>> \o <<x5>>
<1>1. d.tenant \in Tenant /\ d.kind = "Login" /\ d.user \in KeyOf("User") /\ d.device \in Code
  BY DEF LoginDto
<1>2. /\ device \in AnyKey /\ device.tenant = d.tenant /\ device.table = "Device"
      /\ token \in AnyKey /\ token.tenant = d.tenant /\ token.table = "RefreshToken"
      /\ token.code = r
      /\ d.user \in AnyKey /\ d.user.tenant \in Tenant
      /\ Company(d.tenant) \in AnyKey /\ Company(d.tenant).tenant = d.tenant
  BY <1>1, KeyTyped, KeysOf, CompanyTyped DEF Table, AnyCode
<1>3. /\ owners \subseteq AnyKey
      /\ \A ref \in owners : ref.tenant \in {d.tenant, d.user.tenant}
  BY <1>2
<1> HIDE DEF device, owners
<1>4. /\ x1 \in AnyStatement /\ x1.op = "present" /\ x1.refs = {d.user}
      /\ x2 \in AnyStatement /\ x2.op = "find" /\ x2.key = device
      /\ x3 \in AnyStatement /\ x3.op = "insert" /\ x3.key = device /\ x3.refs = owners
      /\ x4 \in AnyStatement /\ x4.op = "update" /\ x4.key = device /\ x4.refs = {d.user}
      /\ x5 \in AnyStatement /\ x5.op = "insert" /\ x5.key = token
                             /\ x5.refs = {d.user, device}
  BY <1>2, <1>3, InsertFields
     DEF Present, Find, Update, Statement, AnyStatement, Operator, StatementKey
<1> HIDE DEF x1, x2, x3, x4, x5
<1>5. /\ s \in Seq(AnyStatement) /\ s # <<>> /\ Len(s) = 5 /\ DOMAIN s = 1..5
      /\ s[1] = x1 /\ s[2] = x2 /\ s[3] = x3 /\ s[4] = x4 /\ s[5] = x5
  BY <1>4
<1>6. \A i \in DOMAIN s : i \in {1, 2, 3, 4, 5}
  BY <1>5
<1> HIDE DEF s
<1>7. Typed(s) /\ ChecksFirst(s)
  BY <1>2, <1>4, <1>5, <1>6 DEF Typed, ChecksFirst, Checks, Writes
<1>8. Skippable(s)
  BY <1>2, <1>4, <1>5, <1>6 DEF Skippable
<1>9. InsertsOwn(d, s)
  <2>1. 1 \in 1..(5 - 1) /\ 1 \in 1..(3 - 1)
    OBVIOUS
  <2>2. \A ref \in {d.user, device} : OwnOrChecked(d, s, 5, ref)
    BY <1>2, <1>4, <1>5, <2>1 DEF OwnOrChecked
  <2>3. \A ref \in owners : OwnOrChecked(d, s, 3, ref)
    BY <1>1, <1>2, <1>3, <1>4, <1>5, <2>1 DEF OwnOrChecked
  <2> QED BY <1>2, <1>4, <1>5, <1>6, <2>2, <2>3 DEF InsertsOwn
<1>10. CountsUsers(d, s) /\ RevokesChecked(s) /\ TokensFresh(r, s) /\ EntriesChecked(d, s)
  BY <1>2, <1>4, <1>5, <1>6 DEF CountsUsers, RevokesChecked, TokensFresh, EntriesChecked
<1>11. LaterInserts(r, d, s)
  <2>1. \A ref \in {d.user, device} : \/ s[1].op = "present" /\ ref \in s[1].refs
                                      \/ s[3].op = "insert" /\ ref = s[3].key
    BY <1>4, <1>5
  <2>2. 1 \in 1..(5 - 1) /\ 3 \in 1..(5 - 1)
    OBVIOUS
  <2>3. \A i, j \in DOMAIN s : i < j /\ s[i].op \in Writes /\ s[j].op = "insert" =>
          i \in {3, 4} /\ j = 5
    BY <1>4, <1>5, <1>6 DEF Writes
  <2> HIDE DEF token
  <2>4. s[5].key = Key("RefreshToken", d.tenant, r)
    BY <1>4, <1>5 DEF token
  <2> QED BY <1>2, <1>4, <1>5, <2>1, <2>2, <2>3, <2>4 DEF LaterInserts
<1>12. UpdatesAndPicks(d, s)
  <2>1. 1 \in 1..(4 - 1)
    OBVIOUS
  <2> QED BY <1>2, <1>4, <1>5, <1>6, <2>1 DEF UpdatesAndPicks
<1> QED BY <1>7, <1>8, <1>9, <1>10, <1>11, <1>12
        DEF WellFormed, Login, IssueToken, s, x1, x2, x3, x4, x5, device, token, owners

\* AuthService.refresh: the new token belongs to whom the old one does; a device is
\* looked for if the old one has none.
LEMMA RefreshFormed ==
  ASSUME NEW r \in Request, NEW d \in RefreshDto,
         HoldersOf(d.token) \subseteq AnyKey,
         \A ref \in HoldersOf(d.token) : ref.tenant = d.token.tenant
  PROVE  /\ WellFormed(r, d, Refresh(r, d))
         /\ \A i \in DOMAIN Refresh(r, d) :
              /\ Refresh(r, d)[i].op = "insert" =>
                   Refresh(r, d)[i].refs = HoldersOf(d.token)
              /\ Refresh(r, d)[i].op = "pick" => Referred(d.token, "Device") = {}
<1> DEFINE token == Key("RefreshToken", d.tenant, r)
           holders == HoldersOf(d.token)
           users == Referred(d.token, "User")
           x1 == Valid(d.token)
           x2 == Revoke(d.token)
           x3 == Pick("Device", d.tenant, users)
           x4 == Insert(token, holders)
           given == Referred(d.token, "Device") # {}
           s  == IF given THEN <<x1, x2>> \o <<>> \o <<x4>> ELSE <<x1, x2>> \o <<x3>> \o <<x4>>
           n  == IF given THEN 3 ELSE 4
<1>1. d.tenant \in Tenant /\ d.kind = "Refresh" /\ d.token \in KeyOf("RefreshToken")
  BY DEF RefreshDto
<1>2. /\ token \in AnyKey /\ token.tenant = d.tenant /\ token.table = "RefreshToken"
      /\ token.code = r
      /\ d.token \in AnyKey
  BY <1>1, KeyTyped, KeysOf DEF Table, AnyCode
<1>3. /\ x1 \in AnyStatement /\ x1.op = "valid" /\ x1 = Valid(x1.key) /\ x1.key = d.token
      /\ x2 \in AnyStatement /\ x2.op = "revoke" /\ x2.key = d.token
      /\ x4 \in AnyStatement /\ x4.op = "insert" /\ x4.key = token /\ x4.refs = holders
  BY <1>2, InsertFields DEF Valid, Revoke, Statement, AnyStatement, Operator, StatementKey
<1>4. x3 \in AnyStatement /\ x3.op = "pick" /\ x3.key.tenant = d.tenant
  <2>1. users \subseteq AnyKey
    BY DEF HoldersOf
  <2> QED BY <1>1, <2>1
          DEF Pick, Key, Statement, AnyStatement, Operator, StatementKey, Table
<1> HIDE DEF x1, x2, x3, x4, given
<1>5. /\ s \in Seq(AnyStatement) /\ s # <<>> /\ Len(s) = n /\ DOMAIN s = 1..n
      /\ s[1] = x1 /\ s[2] = x2 /\ s[n] = x4
      /\ ~given => s[3] = x3
  <2>1. CASE given
    BY <1>3, <2>1
  <2>2. CASE ~given
    BY <1>3, <1>4, <2>2
  <2> QED BY <2>1, <2>2
<1>6. /\ n \in {3, 4} /\ (n = 4 <=> ~given)
      /\ \A i \in DOMAIN s : i \in {1, 2, n} \/ (i = 3 /\ n = 4)
      /\ n = 4 => s[3] = x3
  BY <1>5
<1> HIDE DEF s, n
<1>7. Typed(s) /\ ChecksFirst(s) /\ Skippable(s)
  BY <1>2, <1>3, <1>4, <1>5, <1>6 DEF Typed, ChecksFirst, Skippable, Checks, Writes
<1>8. InsertsOwn(d, s)
  <2>1. 1 \in 1..(n - 1)
    BY <1>6
  <2>2. \A ref \in holders : OwnOrChecked(d, s, n, ref)
    BY <1>3, <1>5, <2>1 DEF OwnOrChecked
  <2> QED BY <1>2, <1>3, <1>4, <1>5, <1>6, <2>2 DEF InsertsOwn
<1>9. CountsUsers(d, s) /\ TokensFresh(r, s) /\ EntriesChecked(d, s)
  BY <1>2, <1>3, <1>4, <1>5, <1>6 DEF CountsUsers, TokensFresh, EntriesChecked
<1>10. RevokesChecked(s)
  <2>1. 2 - 1 = 1
    OBVIOUS
  <2> QED BY <1>3, <1>4, <1>5, <1>6, <2>1 DEF RevokesChecked
<1>11. LaterInserts(r, d, s)
  <2>1. \A i, j \in DOMAIN s : i < j /\ s[i].op \in Writes /\ s[j].op = "insert" =>
          i = 2 /\ j = n
    BY <1>3, <1>4, <1>5, <1>6 DEF Writes
  <2> HIDE DEF token
  <2>2. s[n].key = Key("RefreshToken", d.tenant, r)
    BY <1>3, <1>5 DEF token
  <2> QED BY <1>1, <1>3, <1>5, <2>1, <2>2 DEF LaterInserts
<1>12. UpdatesAndPicks(d, s)
  <2>1. \A i \in DOMAIN s : s[i].op = "pick" => i = 3
    BY <1>3, <1>4, <1>5, <1>6
  <2>2. \A j \in 1..(3 - 1) : s[j].op \notin {"insert", "tryInsert"}
    BY <1>3, <1>5
  <2>3. \A i \in DOMAIN s : /\ s[i].op # "update"
                            /\ s[i].op = "pick" => s[i].key.tenant = d.tenant
    BY <1>3, <1>4, <1>5, <1>6
  <2> QED BY <1>1, <2>1, <2>2, <2>3 DEF UpdatesAndPicks
<1>13. \A i \in DOMAIN s : /\ s[i].op = "insert" => s[i].refs = holders
                           /\ s[i].op = "pick" => ~given
  BY <1>3, <1>4, <1>5, <1>6
<1>14. s = Refresh(r, d)
  BY DEF Refresh, DeviceOf, IssueToken, s, x1, x2, x3, x4, token, given
<1>15. WellFormed(r, d, s)
  BY <1>7, <1>8, <1>9, <1>10, <1>11, <1>12 DEF WellFormed
<1> QED BY <1>13, <1>14, <1>15 DEF given

\* AuthService.logout: the token is revoked if it still serves.
LEMMA LogoutFormed ==
  ASSUME NEW r \in Request, NEW d \in LogoutDto
  PROVE  WellFormed(r, d, Logout(d))
<1> DEFINE x1 == Live(d.token)
           x2 == Revoke(d.token)
           s  == <<x1, x2>>
<1>1. d.token \in AnyKey
  BY KeysOf DEF LogoutDto, Table
<1>2. /\ x1 \in AnyStatement /\ x1.op = "live" /\ x1 = Live(x1.key) /\ x1.key = d.token
      /\ x2 \in AnyStatement /\ x2.op = "revoke" /\ x2.key = d.token
  BY <1>1 DEF Live, Revoke, Statement, AnyStatement, Operator, StatementKey
<1> HIDE DEF x1, x2
<1>3. /\ s \in Seq(AnyStatement) /\ s # <<>> /\ Len(s) = 2 /\ DOMAIN s = 1..2
      /\ s[1] = x1 /\ s[2] = x2
  BY <1>2
<1>4. \A i \in DOMAIN s : i \in {1, 2}
  BY <1>3
<1> HIDE DEF s
<1>5. Typed(s) /\ ChecksFirst(s)
  BY <1>1, <1>2, <1>3, <1>4 DEF Typed, ChecksFirst, Checks, Writes
<1>6. Skippable(s)
  <2>1. 1 + 1 = 2
    OBVIOUS
  <2> QED BY <1>2, <1>3, <1>4, <2>1 DEF Skippable
<1>7. /\ InsertsOwn(d, s) /\ CountsUsers(d, s) /\ TokensFresh(r, s) /\ EntriesChecked(d, s)
      /\ UpdatesAndPicks(d, s)
  BY <1>2, <1>3, <1>4
     DEF InsertsOwn, CountsUsers, TokensFresh, EntriesChecked, UpdatesAndPicks
<1>8. RevokesChecked(s)
  <2>1. 2 - 1 = 1
    OBVIOUS
  <2> QED BY <1>2, <1>3, <1>4, <2>1 DEF RevokesChecked
<1>9. LaterInserts(r, d, s)
  BY <1>2, <1>3, <1>4 DEF LaterInserts
<1> QED BY <1>5, <1>6, <1>7, <1>8, <1>9 DEF WellFormed, Logout, s, x1, x2

-----------------------------------------------------------------------------
\* The kind of a DTO tells what it carries.
LEMMA DtoKinds ==
  ASSUME NEW d \in Dto
  PROVE  /\ d.tenant \in Tenant
         /\ \/ d \in CompanyDto /\ d.kind = "Company"
            \/ d \in BranchDto /\ d.kind = "Branch"
            \/ d \in WarehouseDto /\ d.kind = "Warehouse"
            \/ d \in UserDto /\ d.kind = "User"
            \/ d \in RoleDto /\ d.kind = "Role"
            \/ d \in CategoryDto /\ d.kind = "Category"
            \/ d \in BrandDto /\ d.kind = "Brand"
            \/ d \in UnitDto /\ d.kind = "Unit"
            \/ d \in ProductDto /\ d.kind = "Product"
            \/ d \in CustomerDto /\ d.kind = "Customer"
            \/ d \in SupplierDto /\ d.kind = "Supplier"
            \/ d \in AccountDto /\ d.kind = "Account"
            \/ d \in CashboxDto /\ d.kind = "Cashbox"
            \/ d \in ExpenseDto /\ d.kind = "Expense"
            \/ d \in JournalEntryDto /\ d.kind = "JournalEntry"
            \/ d \in LoginDto /\ d.kind = "Login"
            \/ d \in RefreshDto /\ d.kind = "Refresh"
            \/ d \in LogoutDto /\ d.kind = "Logout"
<1>1. /\ d \in CompanyDto => d.kind = "Company"
      /\ d \in BranchDto => d.kind = "Branch"
      /\ d \in WarehouseDto => d.kind = "Warehouse"
      /\ d \in UserDto => d.kind = "User"
      /\ d \in RoleDto => d.kind = "Role"
  BY DEF CompanyDto, BranchDto, WarehouseDto, UserDto, RoleDto
<1>2. /\ d \in CategoryDto => d.kind = "Category"
      /\ d \in BrandDto => d.kind = "Brand"
      /\ d \in UnitDto => d.kind = "Unit"
      /\ d \in ProductDto => d.kind = "Product"
      /\ d \in CustomerDto => d.kind = "Customer"
      /\ d \in SupplierDto => d.kind = "Supplier"
  BY DEF CategoryDto, BrandDto, UnitDto, ProductDto, CustomerDto, SupplierDto
<1>3. /\ d \in AccountDto => d.kind = "Account"
      /\ d \in CashboxDto => d.kind = "Cashbox"
      /\ d \in ExpenseDto => d.kind = "Expense"
      /\ d \in JournalEntryDto => d.kind = "JournalEntry"
      /\ d \in LoginDto => d.kind = "Login"
      /\ d \in RefreshDto => d.kind = "Refresh"
      /\ d \in LogoutDto => d.kind = "Logout"
  BY DEF AccountDto, CashboxDto, ExpenseDto, JournalEntryDto, LoginDto, RefreshDto, LogoutDto
<1>4. d.tenant \in Tenant
  BY TablesAssumption
<1> QED BY <1>1, <1>2, <1>3, <1>4, RegistryAssumption

\* Whatever arrives, its handler sends a well-formed sequence of statements.
LEMMA ScriptFormed ==
  ASSUME NEW r \in Request, NEW d \in Dto,
         links \subseteq AnyKey \X AnyKey, ReferencesInTenant
  PROVE  /\ WellFormed(r, d, Script(r, d))
         /\ d.kind = "Refresh" =>
              /\ d.token.table = "RefreshToken"
              /\ \A i \in DOMAIN Script(r, d) :
                   /\ Script(r, d)[i].op = "insert" =>
                        Script(r, d)[i].refs = HoldersOf(d.token)
                   /\ Script(r, d)[i].op = "pick" => Referred(d.token, "Device") = {}
<1>1. CASE d \in CompanyDto /\ d.kind = "Company"
  BY <1>1, CompanyFormed DEF Script
<1>2. CASE d \in BranchDto /\ d.kind = "Branch"
  BY <1>2, BranchFormed DEF Script
<1>3. CASE d \in WarehouseDto /\ d.kind = "Warehouse"
  BY <1>3, WarehouseFormed DEF Script
<1>4. CASE d \in UserDto /\ d.kind = "User"
  BY <1>4, UserFormed DEF Script
<1>5. CASE d \in RoleDto /\ d.kind = "Role"
  BY <1>5, RoleFormed DEF Script
<1>6. CASE d \in CategoryDto /\ d.kind = "Category"
  <2>1. d.name \in Code /\ d.tenant \in Tenant
    BY <1>6 DEF CategoryDto
  <2> QED BY <1>6, <2>1, CheckThenInsertFormed DEF Script, CreateCategory
<1>7. CASE d \in BrandDto /\ d.kind = "Brand"
  <2>1. d.name \in Code /\ d.tenant \in Tenant
    BY <1>7 DEF BrandDto
  <2> QED BY <1>7, <2>1, CheckThenInsertFormed DEF Script, CreateBrand
<1>8. CASE d \in UnitDto /\ d.kind = "Unit"
  <2>1. d.code \in Code /\ d.tenant \in Tenant
    BY <1>8 DEF UnitDto
  <2> QED BY <1>8, <2>1, CheckThenInsertFormed DEF Script, CreateUnit
<1>9. CASE d \in ProductDto /\ d.kind = "Product"
  BY <1>9, ProductFormed DEF Script
<1>10. CASE d \in CustomerDto /\ d.kind = "Customer"
  <2> DEFINE code == IF d.id = Null THEN r ELSE d.id
  <2>1. code \in AnyCode /\ d.tenant \in Tenant
    BY <1>10 DEF CustomerDto, AnyCode
  <2> HIDE DEF code
  <2>2. WellFormed(r, d, <<Insert(Key("Customer", d.tenant, code), {Company(d.tenant)})>>)
    BY <2>1, PartyFormed
  <2> QED BY <1>10, <2>2 DEF Script, CreateCustomer, code
<1>11. CASE d \in SupplierDto /\ d.kind = "Supplier"
  <2>1. r \in AnyCode /\ d.tenant \in Tenant
    BY <1>11 DEF SupplierDto, AnyCode
  <2> QED BY <1>11, <2>1, PartyFormed DEF Script, CreateSupplier
<1>12. CASE d \in AccountDto /\ d.kind = "Account"
  BY <1>12, AccountFormed DEF Script
<1>13. CASE d \in CashboxDto /\ d.kind = "Cashbox"
  <2>1. d.code \in Code /\ d.tenant \in Tenant
    BY <1>13 DEF CashboxDto
  <2> QED BY <1>13, <2>1, CheckThenInsertFormed DEF Script, CreateCashbox
<1>14. CASE d \in ExpenseDto /\ d.kind = "Expense"
  BY <1>14, ExpenseFormed DEF Script
<1>15. CASE d \in JournalEntryDto /\ d.kind = "JournalEntry"
  BY <1>15, JournalEntryFormed DEF Script
<1>16. CASE d \in LoginDto /\ d.kind = "Login"
  <2>1. d.user.table = "User"
    BY <1>16 DEF LoginDto, KeyOf
  <2>2. Referred(d.user, "Branch") \subseteq AnyKey
    BY DEF Referred
  <2>3. \A ref \in Referred(d.user, "Branch") : ref.tenant = d.user.tenant
    BY <2>1 DEF Referred, ReferencesInTenant
  <2>4. Script(r, d) = Login(r, d)
    BY <1>16 DEF Script
  <2> QED BY <1>16, <2>2, <2>3, <2>4, LoginFormed
<1>17. CASE d \in RefreshDto /\ d.kind = "Refresh"
  <2>1. HoldersOf(d.token) \subseteq AnyKey
    BY DEF HoldersOf, Referred
  <2>2. d.token.table = "RefreshToken"
    BY <1>17 DEF RefreshDto, KeyOf
  <2>3. \A ref \in HoldersOf(d.token) : ref.tenant = d.token.tenant
    BY <2>2 DEF HoldersOf, Referred, ReferencesInTenant
  <2>4. Script(r, d) = Refresh(r, d)
    BY <1>17 DEF Script
  <2> QED BY <1>17, <2>1, <2>2, <2>3, <2>4, RefreshFormed
<1>18. CASE d \in LogoutDto /\ d.kind = "Logout"
  BY <1>18, LogoutFormed DEF Script
<1> QED BY DtoKinds, <1>1, <1>2, <1>3, <1>4, <1>5, <1>6, <1>7, <1>8, <1>9, <1>10,
           <1>11, <1>12, <1>13, <1>14, <1>15, <1>16, <1>17, <1>18

-----------------------------------------------------------------------------
\* The inductive invariant.
Arrived == {r \in Request : status[r] # "idle"}

\* The statements of a handler that it has left behind.
Before(r) == 1..(at[r] - 1)

\* What a count of zero says.
NoneIn(key) == \A row \in rows : ~(row.key.table = key.table /\ row.key.tenant = key.tenant)

\* The statements a handler sends are well-formed.
Formed ==
  /\ DOMAIN script = Request
  /\ \A r \in Request : Running(r) => WellFormed(r, dto[r], script[r])

\* What a handler that has come this far can rely on for good.
PassedAt(r, i) ==
  LET s == script[r][i]
  IN  /\ s.op = "present" => \A ref \in s.refs :
                               Has(ref) /\ ref.tenant \in {dto[r].tenant, Null}
      /\ s.op = "valid"  => s.key.tenant = dto[r].tenant
      /\ s.op = "insert" => Has(s.key)
      /\ s.op # "refuse"

\* The part of the invariant about what handlers have left behind.
Passed == \A r \in Request : Running(r) => \A i \in Before(r) : PassedAt(r, i)

\* What it can rely on as long as nobody has overtaken it.
StillTrueAt(r, i, j) ==
  /\ script[r][i].op = "empty" /\ script[r][j].op = "insert" => NoneIn(script[r][i].key)
  /\ script[r][i].op \in {"valid", "live"} /\ script[r][j].op = "revoke" =>
       ~Revoked(script[r][i].key)

\* The part of the invariant about what handlers trust in.
StillTrue ==
  \A r \in Request : Running(r) /\ r \notin overtaken =>
    \A i \in Before(r), j \in at[r]..Len(script[r]) : StillTrueAt(r, i, j)

\* Where the rows of a request come from.
RowsWritten ==
  \A row \in rows : row.by # Null =>
    /\ row.by \in Arrived
    /\ Running(row.by) => \E i \in Before(row.by) :
         /\ script[row.by][i].op \in {"insert", "tryInsert"}
         /\ script[row.by][i].key = row.key

\* Where the revoked tokens come from.
TokensRevoked ==
  \A entry \in revoked :
    /\ entry.by \in Arrived
    /\ Running(entry.by) => \E i \in Before(entry.by) : script[entry.by][i].op = "revoke"

\* Foreign keys hold, also those that a refresh copies from the token it replaces.
Linked == \A link \in links : Has(link[2])

\* The user and device of the token that a refresh replaces are there.
HoldersThere ==
  \A r \in Request : Running(r) /\ dto[r].kind = "Refresh" =>
    \A i \in DOMAIN script[r] : script[r][i].op = "insert" =>
      \A ref \in script[r][i].refs : Has(ref)

\* A refresh token named by a request was inserted by it.
OwnTokens ==
  \A row \in rows :
    row.key.table = "RefreshToken" /\ row.key.code \in Request => row.by = row.key.code

\* A journal entry passed the check of its balance.
EntriesBalanced ==
  \A row \in rows : row.key.table = "JournalEntry" /\ row.by # Null =>
    dto[row.by] \in JournalEntryDto /\ Balanced(dto[row.by].lines)

\* What a refresh has looked up for its new token is there, in its company.
FoundThere ==
  \A r \in Request :
    /\ status[r] = "idle" => found[r] = {}
    /\ Running(r) => \A key \in found[r] : Has(key) /\ key.tenant = dto[r].tenant

\* The token that a refresh presents is there.
TokenKnown ==
  \A r \in Arrived : dto[r].kind = "Refresh" =>
    dto[r].token.table = "RefreshToken" /\ Has(dto[r].token)

\* A device is looked for only if the token that is presented has none.
PicksDeviceless ==
  \A r \in Request : Running(r) =>
    \A i \in DOMAIN script[r] : script[r][i].op = "pick" => Deviceless(r)

\* All of it, with the properties themselves.
RegistryInv ==
  /\ TypeOK
  /\ IsFiniteSet(Arrived)
  /\ Formed
  /\ Passed
  /\ StillTrue
  /\ RowsWritten
  /\ TokensRevoked
  /\ Linked
  /\ HoldersThere
  /\ OwnTokens
  /\ EntriesBalanced
  /\ FoundThere
  /\ TokenKnown
  /\ PicksDeviceless
  /\ ReferencesInTenant
  /\ OneFirstUserUnlessOvertaken
  /\ UnsuccessfulLeavesNothing
  /\ TokenSpentOnceUnlessOvertaken

-----------------------------------------------------------------------------
\* The steps of a handler, by what they do to the tables: one more row, one more
\* revoked token, or neither.
Met(r) ==
  LET s == Here(r)
  IN  /\ s.op \notin {"insert", "refuse"}
      /\ s.op = "present" => \A ref \in s.refs :
                               Has(ref) /\ ref.tenant \in {dto[r].tenant, Null}
      /\ s.op = "valid" => s.key.tenant = dto[r].tenant
      /\ s.op = "empty" => NoneIn(s.key)
      /\ s.op \in {"valid", "live"} => ~Revoked(s.key)

\* The only references that change are those of the row that is updated.
LinksUpdated(r) ==
  \/ links' = links
  \/ /\ Here(r).op = "update"
     /\ \A link \in links' : link \in links \/ \E ref \in Here(r).refs : link = <<Here(r).key, ref>>
     /\ \A link \in links : link \in links' \/ link[1] = Here(r).key

\* What is looked up is a row of the company.
FoundBy(r) ==
  \/ found' = found
  \/ /\ Here(r).op = "pick"
     /\ \E row \in rows : /\ row.key.tenant = Here(r).key.tenant
                          /\ found' = [found EXCEPT ![r] = {row.key}]

\* No row is inserted and no token revoked: the handler goes on, skips a statement
\* or ends.
Quiet(r) ==
  /\ Running(r)
  /\ UNCHANGED <<rows, revoked, overtaken>>
  /\ LinksUpdated(r)
  /\ FoundBy(r)
  /\ \/ Advance(r, 1) /\ Met(r)
     \/ Advance(r, 2) /\ (Here(r).op = "find" => Has(Here(r).key))
                      /\ Here(r).op \in {"find", "live"}
     \/ End(r, "refused") /\ Here(r).op \in Checks \cup {"pick"}
     \/ End(r, "failed") /\ Here(r).op = "insert" /\ ~Insertable(r)
     \/ End(r, "interrupted")

\* A row is inserted.
Adds(r) ==
  /\ Running(r)
  /\ Here(r).op \in {"insert", "tryInsert"}
  /\ Insertable(r)
  /\ AddRow(r)
  /\ Advance(r, 1)

\* Every statement of a handler, and its interruption, is one of the three.
LEMMA Steps ==
  ASSUME NEW r \in Request, Execute(r) \/ Interrupted(r)
  PROVE  Quiet(r) \/ Adds(r) \/ RevokeToken(r)
<1> USE DEF AtOp, LinksUpdated, FoundBy, tableVars
<1>1. CASE CheckAbsent(r)
  BY <1>1 DEF CheckAbsent, Check, Quiet, Met, Checks
<1>2. CASE CheckEmpty(r)
  BY <1>2 DEF CheckEmpty, Check, Quiet, Met, Checks, NoneIn
<1>3. CASE CheckPresent(r)
  BY <1>3 DEF CheckPresent, Check, Quiet, Met, Checks
<1>4. CASE CheckInput(r)
  BY <1>4 DEF CheckInput, Check, Quiet, Met, Checks
<1>5. CASE CheckToken(r)
  BY <1>5 DEF CheckToken, Check, Quiet, Met, Checks
<1>6. CASE FindRow(r)
  <2>1. CASE AtOp(r, "find") /\ Skip(r, ~Has(Here(r).key))
    BY <2>1 DEF Skip, Quiet, Met
  <2>2. CASE /\ AtOp(r, "live")
             /\ Skip(r, /\ Has(Here(r).key) /\ ~Revoked(Here(r).key)
                        /\ Here(r).key.tenant = dto[r].tenant)
    BY <2>2 DEF Skip, Quiet, Met
  <2> QED BY <1>6, <2>1, <2>2 DEF FindRow
<1>7. CASE InsertRow(r)
  BY <1>7 DEF InsertRow, Quiet, Adds
<1>8. CASE TryInsertRow(r)
  BY <1>8 DEF TryInsertRow, Quiet, Met, Adds
<1>9. CASE RevokeToken(r)
  BY <1>9
<1>10. CASE Interrupted(r)
  BY <1>10 DEF Interrupted, Quiet
<1>11. CASE UpdateRow(r)
  <2>1. Running(r) /\ Here(r).op = "update" /\ Advance(r, 1) /\ Met(r)
    BY <1>11 DEF UpdateRow, Met
  <2>2. UNCHANGED <<rows, revoked, overtaken, found>> /\ LinksUpdated(r)
    BY <1>11 DEF UpdateRow
  <2> QED BY <2>1, <2>2 DEF Quiet
<1>12. CASE PickRow(r)
  <2>1. Running(r) /\ Here(r).op = "pick" /\ Met(r)
    BY <1>12 DEF PickRow, Met
  <2>2. UNCHANGED <<rows, links, revoked, overtaken>> /\ FoundBy(r)
    BY <1>12 DEF PickRow
  <2>3. End(r, "refused") \/ Advance(r, 1)
    BY <1>12 DEF PickRow
  <2> QED BY <2>1, <2>2, <2>3 DEF Quiet
<1> QED BY <1>1, <1>2, <1>3, <1>4, <1>5, <1>6, <1>7, <1>8, <1>9, <1>10, <1>11, <1>12
        DEF Execute

\* What the steps have in common: the handler of r goes n statements further, or
\* ends; the others stay where they are, and nothing is taken from the tables.
Moved(r, n) ==
  /\ dto' = dto /\ script' = script
  /\ rows \subseteq rows' /\ revoked \subseteq revoked' /\ overtaken \subseteq overtaken'
  /\ \A q \in Request : q # r => status'[q] = status[q] /\ at'[q] = at[q]
  /\ status' \in [Request -> {"idle", "running"} \cup Ended]
  /\ at' \in [Request -> Nat]
  /\ status'[r] \in {"running"} \cup Ended
  /\ status'[r] = "running" => at'[r] = at[r] + n /\ at'[r] \in DOMAIN script[r]

\* Going on moves the handler.
LEMMA AdvanceMoves ==
  ASSUME TypeOK, NEW r \in Request, Running(r), NEW n \in {1, 2}, Advance(r, n),
         rows \subseteq rows', revoked \subseteq revoked', overtaken \subseteq overtaken'
  PROVE  Moved(r, n) /\ status'[r] \in {"running", "done"}
<1> USE DEF TypeOK, TablesTypeOK, Running
<1>1. CASE at[r] + n \in DOMAIN script[r]
  BY <1>1 DEF Advance, Moved
<1>2. CASE ~(at[r] + n \in DOMAIN script[r])
  BY <1>2 DEF Advance, End, Moved, Ended
<1> QED BY <1>1, <1>2

\* A step that changes no table moves the handler, past a condition that was met
\* or past the statement it skips, or ends it.
LEMMA QuietMoves ==
  ASSUME TypeOK, NEW r \in Request, Quiet(r)
  PROVE  \/ Moved(r, 1) /\ Met(r) /\ status'[r] \in {"running", "done"}
         \/ /\ Moved(r, 2) /\ status'[r] \in {"running", "done"}
            /\ Here(r).op \in {"find", "live"} /\ (Here(r).op = "find" => Has(Here(r).key))
         \/ /\ Moved(r, 1) /\ status'[r] # "running"
            /\ \/ status'[r] = "refused" /\ Here(r).op \in Checks \cup {"pick"}
               \/ status'[r] = "failed" /\ Here(r).op = "insert" /\ ~Insertable(r)
               \/ status'[r] = "interrupted"
<1>1. rows \subseteq rows' /\ revoked \subseteq revoked' /\ overtaken \subseteq overtaken'
  BY DEF Quiet
<1>2. ASSUME NEW outcome \in Ended, End(r, outcome)
      PROVE  Moved(r, 1) /\ status'[r] = outcome /\ status'[r] # "running"
  BY <1>1, <1>2 DEF Moved, End, TypeOK, TablesTypeOK, Ended
<1>3. Running(r)
  BY DEF Quiet
<1> QED BY <1>1, <1>2, <1>3, AdvanceMoves DEF Quiet, Ended

\* The insert of a row moves the handler by one statement.
LEMMA AddsMoves ==
  ASSUME TypeOK, NEW r \in Request, Adds(r)
  PROVE  Moved(r, 1) /\ status'[r] \in {"running", "done"}
<1>1. rows \subseteq rows' /\ revoked \subseteq revoked' /\ overtaken \subseteq overtaken'
  BY DEF Adds, AddRow
<1> QED BY <1>1, AdvanceMoves DEF Adds

\* So does the revocation of a token.
LEMMA RevokeMoves ==
  ASSUME TypeOK, NEW r \in Request, RevokeToken(r)
  PROVE  Moved(r, 1) /\ status'[r] \in {"running", "done"} /\ Running(r)
<1>1. rows \subseteq rows' /\ revoked \subseteq revoked' /\ overtaken \subseteq overtaken'
  BY DEF RevokeToken
<1> QED BY <1>1, AdvanceMoves DEF RevokeToken, AtOp

\* The statements of a handler do not change.
LEMMA FormedKept ==
  ASSUME Formed, NEW r \in Request, Running(r), NEW n \in {1, 2}, Moved(r, n)
  PROVE  Formed'
BY DEF Formed, Moved, Running

\* No other request arrives while a handler moves.
LEMMA ArrivedKept ==
  ASSUME TypeOK, NEW r \in Request, Running(r), NEW n \in {1, 2}, Moved(r, n)
  PROVE  Arrived' = Arrived
<1>1. \A q \in Request : (status'[q] # "idle") = (status[q] # "idle")
  BY DEF Moved, Running, Ended
<1> QED BY <1>1 DEF Arrived

\* A row that is there stays there.
LEMMA HasKept ==
  ASSUME rows \subseteq rows', NEW key, Has(key)
  PROVE  Has(key)'
BY DEF Has

\* A handler that is still running has left behind what it had, and r one or two
\* statements more.
LEMMA BeforeMoved ==
  ASSUME TypeOK, NEW r \in Request, Running(r), NEW n \in {1, 2}, Moved(r, n),
         NEW q \in Request, Running(q)'
  PROVE  /\ Running(q)
         /\ Before(q) \subseteq Before(q)'
         /\ \A i \in Before(q)' : \/ i \in Before(q)
                                  \/ q = r /\ i = at[r]
                                  \/ q = r /\ n = 2 /\ i = at[r] + 1
         /\ q # r => Before(q)' = Before(q) /\ at'[q] = at[q]
         /\ at[q] <= at'[q]
         /\ at[q] \in Nat /\ at'[q] \in Nat
<1>1. at[q] \in Nat /\ at'[q] \in Nat
  BY DEF TypeOK, TablesTypeOK, Moved
<1>2. CASE q = r
  <2>1. at'[r] = at[r] + n
    BY <1>2 DEF Moved, Running
  <2> QED BY <1>1, <1>2, <2>1 DEF Before, Running
<1>3. CASE q # r
  BY <1>1, <1>3 DEF Before, Running, Moved
<1> QED BY <1>2, <1>3

\* What a handler left behind stays behind it: only what it moved past is new.
LEMMA PassedKept ==
  ASSUME TypeOK, Passed, NEW r \in Request, Running(r), NEW n \in {1, 2}, Moved(r, n),
         Running(r)' => \A i \in {at[r], at[r] + n - 1} : PassedAt(r, i)'
  PROVE  Passed'
<1> SUFFICES ASSUME NEW q \in Request, Running(q)', NEW i \in Before(q)'
             PROVE  PassedAt(q, i)'
  BY DEF Passed
<1>1. CASE i \in Before(q)
  <2>1. PassedAt(q, i)
    BY <1>1, BeforeMoved DEF Passed
  <2>2. dto' = dto /\ script' = script /\ rows \subseteq rows'
    BY DEF Moved
  <2> QED BY <2>1, <2>2 DEF PassedAt, Has
<1>2. CASE q = r /\ i \in {at[r], at[r] + n - 1}
  BY <1>2
<1>3. i \in Before(q) \/ (q = r /\ i \in {at[r], at[r] + n - 1})
  <2>1. at[r] \in Nat
    BY DEF TypeOK, TablesTypeOK
  <2>2. n = 2 => at[r] + n - 1 = at[r] + 1
    BY <2>1
  <2> QED BY <2>2, BeforeMoved
<1> QED BY <1>1, <1>2, <1>3

\* What is known of a handler that runs and of the statement it has come to.
LEMMA HereFacts ==
  ASSUME TypeOK, Formed, NEW r \in Request, Running(r)
  PROVE  /\ WellFormed(r, dto[r], script[r])
         /\ at[r] \in DOMAIN script[r] /\ Here(r) = script[r][at[r]]
         /\ DOMAIN script[r] = 1..Len(script[r]) /\ Len(script[r]) \in Nat /\ at[r] \in Nat
         /\ Before(r) \subseteq DOMAIN script[r]
         /\ \A i \in Before(r) : i < at[r] /\ i \in Nat
         /\ \A i \in DOMAIN script[r] : i < at[r] => i \in Before(r)
         /\ Here(r) \in AnyStatement
         /\ dto[r] \in Dto /\ dto[r].tenant \in Tenant
<1>1. WellFormed(r, dto[r], script[r])
  BY DEF Formed
<1>2. script[r] \in Seq(AnyStatement)
  BY <1>1 DEF WellFormed, Typed
<1>3. at[r] \in DOMAIN script[r] /\ dto[r] \in Dto /\ at[r] \in Nat
  BY DEF TypeOK, TablesTypeOK
<1>4. DOMAIN script[r] = 1..Len(script[r]) /\ Len(script[r]) \in Nat
  BY <1>2, LenProperties
<1>5. script[r][at[r]] \in AnyStatement
  BY <1>2, <1>3
<1>6. /\ Before(r) \subseteq DOMAIN script[r]
      /\ \A i \in Before(r) : i < at[r] /\ i \in Nat
      /\ \A i \in DOMAIN script[r] : i < at[r] => i \in Before(r)
  BY <1>3, <1>4 DEF Before
<1> QED BY <1>1, <1>3, <1>4, <1>5, <1>6, DtoKinds DEF Here

\* The rows that were there still come from where they came from.
LEMMA RowsWrittenKept ==
  ASSUME TypeOK, RowsWritten, NEW r \in Request, Running(r), NEW n \in {1, 2}, Moved(r, n),
         NEW row \in rows, row.by # Null
  PROVE  /\ row.by \in Arrived'
         /\ Running(row.by)' => \E i \in Before(row.by)' :
              /\ script[row.by][i].op \in {"insert", "tryInsert"}
              /\ script[row.by][i].key = row.key
<1>1. row.by \in Arrived /\ row.by \in Request
  BY DEF RowsWritten, Arrived
<1>2. ASSUME Running(row.by)'
      PROVE  Running(row.by) /\ Before(row.by) \subseteq Before(row.by)'
  <2>1. ASSUME NEW q \in Request, Running(q)'
        PROVE  Running(q) /\ Before(q) \subseteq Before(q)'
    BY <2>1, BeforeMoved
  <2> QED BY <1>1, <1>2, <2>1
<1> QED BY <1>1, <1>2, ArrivedKept DEF RowsWritten

\* So do the revoked tokens.
LEMMA TokensRevokedKept ==
  ASSUME TypeOK, TokensRevoked, NEW r \in Request, Running(r), NEW n \in {1, 2}, Moved(r, n),
         NEW entry \in revoked
  PROVE  /\ entry.by \in Arrived'
         /\ Running(entry.by)' =>
              \E i \in Before(entry.by)' : script[entry.by][i].op = "revoke"
<1>1. entry.by \in Arrived /\ entry.by \in Request
  BY DEF TokensRevoked, Arrived
<1>2. ASSUME Running(entry.by)'
      PROVE  Running(entry.by) /\ Before(entry.by) \subseteq Before(entry.by)'
  <2>1. ASSUME NEW q \in Request, Running(q)'
        PROVE  Running(q) /\ Before(q) \subseteq Before(q)'
    BY <2>1, BeforeMoved
  <2> QED BY <1>1, <1>2, <2>1
<1> QED BY <1>1, <1>2, ArrivedKept DEF TokensRevoked

\* The rows that a refresh will refer to stay there.
LEMMA HoldersKept ==
  ASSUME TypeOK, HoldersThere, NEW r \in Request, Running(r), NEW n \in {1, 2}, Moved(r, n)
  PROVE  HoldersThere'
<1> SUFFICES ASSUME NEW q \in Request, Running(q)', dto'[q].kind = "Refresh",
                    NEW i \in DOMAIN script'[q], script'[q][i].op = "insert",
                    NEW ref \in script'[q][i].refs
             PROVE  Has(ref)'
  BY DEF HoldersThere
<1>1. Running(q) /\ dto' = dto /\ script' = script /\ rows \subseteq rows'
  BY BeforeMoved DEF Moved
<1>2. Has(ref)
  BY <1>1 DEF HoldersThere
<1> QED BY <1>1, <1>2, HasKept

\* What a check found out stays true for the requests that no one overtakes, if
\* the tables stay as they are or the step leaves a mark on those it overtakes.
LEMMA StillTrueQuiet ==
  ASSUME TypeOK, Formed, StillTrue, NEW r \in Request, Running(r), NEW n \in {1, 2},
         Moved(r, n), UNCHANGED <<rows, revoked, overtaken>>,
         status'[r] = "running" => \/ n = 1 /\ Met(r)
                                   \/ n = 2 /\ Here(r).op \in {"find", "live"}
  PROVE  StillTrue'
<1> SUFFICES ASSUME NEW q \in Request, Running(q)', q \notin overtaken',
                    NEW i \in Before(q)', NEW j \in (at'[q])..Len(script'[q])
             PROVE  StillTrueAt(q, i, j)'
  BY DEF StillTrue
<1>1. /\ dto' = dto /\ script' = script /\ rows' = rows /\ revoked' = revoked
      /\ overtaken' = overtaken
  BY DEF Moved
<1>2. /\ Running(q) /\ at[q] \in Nat /\ at'[q] \in Nat /\ at[q] <= at'[q]
  BY BeforeMoved
<1>3. j \in at[q]..Len(script[q])
  BY <1>1, <1>2
<1>4. StillTrueAt(q, i, j) => StillTrueAt(q, i, j)'
  BY <1>1 DEF StillTrueAt, NoneIn, Revoked
<1>5. CASE i \in Before(q)
  BY <1>1, <1>2, <1>3, <1>4, <1>5 DEF StillTrue
<1>6. CASE q = r /\ i = at[r] /\ n = 1
  <2>1. Met(r) /\ Here(r) = script[r][i]
    BY <1>2, <1>6, HereFacts DEF Running
  <2> QED BY <1>4, <1>6, <2>1 DEF StillTrueAt, Met
<1>7. CASE q = r /\ n = 2 /\ (i = at[r] \/ i = at[r] + 1)
  <2>1. WellFormed(r, dto[r], script[r]) /\ Here(r) = script[r][at[r]] /\ at[r] \in DOMAIN script[r]
    BY <1>2, <1>7, HereFacts
  <2>2. Here(r).op \in {"find", "live"}
    BY <1>7 DEF Running
  <2>3. /\ script[r][at[r] + 1].op \in {"insert", "revoke"}
        /\ Here(r).op = "live" => at[r] + 1 = Len(script[r])
    BY <2>1, <2>2 DEF WellFormed, Skippable
  <2>4. at'[r] = at[r] + 2 /\ at'[r] \in DOMAIN script[r]
    BY <1>7 DEF Moved, Running
  <2>5. Here(r).op # "live"
    <3>1. at[r] + 2 <= Len(script[r]) /\ Len(script[r]) \in Nat /\ at[r] \in Nat
      BY <1>2, <1>7, <2>4, HereFacts
    <3> QED BY <2>3, <3>1
  <2> QED BY <1>4, <1>7, <2>1, <2>2, <2>3, <2>5 DEF StillTrueAt
<1> QED BY <1>5, <1>6, <1>7, BeforeMoved

\* A request that has ended, and how it left the tables.
LeavesNothing(r) ==
  /\ (\E row \in rows : row.by = r) => status[r] = "failed" /\ DefaultTaken(r)
  /\ (\E entry \in revoked : entry.by = r) => status[r] = "refused" /\ Deviceless(r)

\* No step gives a token another device.
TokenLinksKept ==
  \A key : key.table = "RefreshToken" /\ Has(key) =>
    Referred(key, "Device")' = Referred(key, "Device")

\* What the requests have looked up, and what is known of the tokens they present,
\* stays so when a handler moves.
LEMMA LookedUpKept ==
  ASSUME TypeOK, Formed, FoundThere, TokenKnown, PicksDeviceless, NEW r \in Request,
         Running(r), NEW n \in {1, 2}, Moved(r, n), FoundBy(r), TokenLinksKept
  PROVE  /\ FoundThere' /\ TokenKnown' /\ PicksDeviceless'
         /\ found' \in [Request -> SUBSET AnyKey]
<1>1. /\ dto' = dto /\ script' = script /\ rows \subseteq rows'
      /\ \A q \in Request : status'[q] = "idle" => status[q] = "idle" /\ q # r
      /\ \A q \in Request : Running(q)' => Running(q)
  BY DEF Moved, Running, Ended
<1>2. found \in [Request -> SUBSET AnyKey] /\ rows \subseteq [key : AnyKey, by : Request \cup {Null}]
  BY DEF TypeOK, TablesTypeOK
<1>3. found' \in [Request -> SUBSET AnyKey]
  BY <1>2 DEF FoundBy
<1>4. \A q \in Request : q # r => found'[q] = found[q]
  BY <1>2 DEF FoundBy
<1>5. \A key : Has(key) => Has(key)'
  BY <1>1 DEF Has
<1>6. ASSUME NEW q \in Request, Running(q)', NEW key \in found'[q]
      PROVE  Has(key) /\ key.tenant = dto[q].tenant
  <2>1. CASE key \in found[q]
    BY <1>1, <1>6, <2>1 DEF FoundThere
  <2>2. CASE key \notin found[q]
    <3>1. q = r /\ Here(r).op = "pick"
      BY <1>4, <1>6, <2>2 DEF FoundBy
    <3>2. PICK row \in rows : row.key.tenant = Here(r).key.tenant /\ key = row.key
      BY <1>2, <1>6, <2>2, <3>1 DEF FoundBy
    <3>3. Here(r).key.tenant = dto[r].tenant
      BY <3>1, HereFacts DEF WellFormed, UpdatesAndPicks
    <3> QED BY <3>1, <3>2, <3>3 DEF Has
  <2> QED BY <2>1, <2>2
<1>7. FoundThere'
  BY <1>1, <1>4, <1>5, <1>6 DEF FoundThere
<1>8. TokenKnown'
  BY <1>1, <1>5, ArrivedKept DEF TokenKnown
<1>9. PicksDeviceless'
  <2> SUFFICES ASSUME NEW q \in Request, Running(q)',
                      NEW i \in DOMAIN script[q], script[q][i].op = "pick"
               PROVE  Deviceless(q)'
    BY <1>1 DEF PicksDeviceless
  <2>1. Running(q) /\ q \in Arrived /\ Deviceless(q)
    BY <1>1 DEF PicksDeviceless, Arrived, Running
  <2> QED BY <1>1, <2>1 DEF Deviceless, TokenKnown, TokenLinksKept
<1> QED BY <1>3, <1>7, <1>8, <1>9

\* A step leaves the other requests that ended without success as they were.
LEMMA UnsuccessfulOthers ==
  ASSUME TypeOK, UnsuccessfulLeavesNothing, TokenKnown, TokenLinksKept,
         NEW r \in Request, NEW n \in {1, 2}, Moved(r, n),
         \A row \in rows' : row \in rows \/ row.by = r,
         \A entry \in revoked' : entry \in revoked \/ entry.by = r,
         NEW q \in Request, q # r, status'[q] \in {"refused", "failed"}
  PROVE  LeavesNothing(q)'
<1>1. status'[q] = status[q] /\ dto' = dto /\ rows \subseteq rows'
  BY DEF Moved
<1>2. LeavesNothing(q)
  BY <1>1 DEF UnsuccessfulLeavesNothing, LeavesNothing
<1>3. DefaultTaken(q) => DefaultTaken(q)'
  BY <1>1 DEF DefaultTaken
<1>4. Deviceless(q) => Deviceless(q)'
  <2>1. q \in Arrived
    BY <1>1 DEF Arrived
  <2> QED BY <1>1, <2>1 DEF Deviceless, TokenKnown, TokenLinksKept
<1> QED BY <1>1, <1>2, <1>3, <1>4 DEF LeavesNothing

\* A check that fails has no write before it.
LEMMA RefusedLeavesNothing ==
  ASSUME TypeOK, Formed, RowsWritten, TokensRevoked, NEW r \in Request, Running(r),
         Here(r).op \in Checks
  PROVE  (\A row \in rows : row.by # r) /\ (\A entry \in revoked : entry.by # r)
<1>1. \A i \in Before(r) : script[r][i].op \in Checks
  BY HereFacts DEF WellFormed, ChecksFirst
<1>2. r # Null
  BY TablesAssumption
<1> QED BY <1>1, <1>2 DEF RowsWritten, TokensRevoked, Checks

\* A refresh that finds no device has inserted no row.
LEMMA PickLeavesRows ==
  ASSUME TypeOK, Formed, RowsWritten, PicksDeviceless, NEW r \in Request, Running(r),
         Here(r).op = "pick"
  PROVE  (\A row \in rows : row.by # r) /\ Deviceless(r)
<1>1. \A i \in Before(r) : script[r][i].op \notin {"insert", "tryInsert"}
  BY HereFacts DEF WellFormed, UpdatesAndPicks, Before
<1>2. r # Null
  BY TablesAssumption
<1>3. Deviceless(r)
  BY HereFacts DEF PicksDeviceless
<1> QED BY <1>1, <1>2, <1>3 DEF RowsWritten

\* An insert that fails is the first write, or the default row of a company or
\* branch whose key another request has taken.
LEMMA FailedLeavesDefault ==
  ASSUME TypeOK, Formed, Passed, RowsWritten, TokensRevoked, HoldersThere, OwnTokens,
         FoundThere, NEW r \in Request, Running(r), Here(r).op = "insert", ~Insertable(r)
  PROVE  /\ (\A row \in rows : row.by # r) \/ DefaultTaken(r)
         /\ \A entry \in revoked : entry.by # r
<1>1. r # Null
  BY TablesAssumption
<1>2. CASE \A i \in Before(r) : script[r][i].op \notin Writes
  BY <1>1, <1>2 DEF RowsWritten, TokensRevoked, Writes
<1>3. CASE \E i \in Before(r) : script[r][i].op \in Writes
  <2> DEFINE s == script[r]
             n == at[r]
  <2>1. PICK i \in Before(r) : s[i].op \in Writes
    BY <1>3
  <2>2. /\ WellFormed(r, dto[r], s) /\ n \in DOMAIN s /\ Here(r) = s[n] /\ n \in Nat
        /\ i \in DOMAIN s /\ i < n
        /\ \A k \in 1..(n - 1) : k \in Before(r) /\ k \in DOMAIN s /\ k < n
    BY HereFacts DEF Before
  <2>3. /\ \A ref \in s[n].refs :
             \/ dto[r].kind = "Refresh"
             \/ \E k \in 1..(n - 1) : \/ s[k].op = "present" /\ ref \in s[k].refs
                                      \/ s[k].op = "insert" /\ ref = s[k].key
        /\ \/ s[n].key = Key("RefreshToken", dto[r].tenant, r)
           \/ s[n].key \in DefaultsOf(dto[r])
    BY <2>1, <2>2 DEF WellFormed, LaterInserts
  <2>4. \A k \in Before(r) : s[k].op \in {"insert", "tryInsert"} => s[k].key # s[n].key
    BY <2>2 DEF WellFormed, LaterInserts, Writes, Before
  <2>5. \A ref \in s[n].refs \cup found[r] : Has(ref)
    <3> SUFFICES ASSUME NEW ref \in s[n].refs PROVE Has(ref)
      BY DEF FoundThere
    <3>1. CASE dto[r].kind = "Refresh"
      BY <2>2, <3>1 DEF HoldersThere
    <3>2. CASE \E k \in 1..(n - 1) : \/ s[k].op = "present" /\ ref \in s[k].refs
                                     \/ s[k].op = "insert" /\ ref = s[k].key
      BY <2>2, <3>2 DEF Passed, PassedAt
    <3> QED BY <2>3, <3>1, <3>2
  <2>6. PICK row \in rows : row.key = s[n].key
    BY <2>2, <2>5 DEF Insertable, Refs, Has
  <2>7. row.by # r
    BY <1>1, <2>4, <2>6 DEF RowsWritten
  <2>8. s[n].key # Key("RefreshToken", dto[r].tenant, r)
    <3>1. /\ Key("RefreshToken", dto[r].tenant, r).table = "RefreshToken"
          /\ Key("RefreshToken", dto[r].tenant, r).code = r
      BY DEF Key
    <3> QED BY <2>6, <2>7, <3>1 DEF OwnTokens
  <2>9. \A k \in Before(r) : s[k].op # "revoke"
    BY <2>2, <2>8 DEF WellFormed, LaterInserts, Writes, Before
  <2>10. \A entry \in revoked : entry.by # r
    BY <2>9 DEF TokensRevoked
  <2> QED BY <2>3, <2>6, <2>7, <2>8, <2>10 DEF DefaultTaken
<1> QED BY <1>2, <1>3

\* The references after such a step.
LEMMA QuietLinks ==
  ASSUME RegistryInv, NEW r \in Request, Quiet(r)
  PROVE  /\ links' \subseteq AnyKey \X AnyKey
         /\ Linked' /\ ReferencesInTenant' /\ TokenLinksKept
<1> USE DEF RegistryInv
<1>1. Running(r) /\ rows' = rows /\ LinksUpdated(r) /\ links \subseteq AnyKey \X AnyKey
  BY DEF Quiet, TypeOK, TablesTypeOK
<1>2. \A key : Has(key)' = Has(key)
  BY <1>1 DEF Has
<1>3. CASE links' = links
  BY <1>1, <1>2, <1>3 DEF Linked, ReferencesInTenant, TokenLinksKept, Referred
<1>4. CASE links' # links
  <2> DEFINE s == Here(r)
  <2>1. /\ s.op = "update"
        /\ \A link \in links' : link \in links \/ \E ref \in s.refs : link = <<s.key, ref>>
        /\ \A link \in links : link \in links' \/ link[1] = s.key
    BY <1>1, <1>4 DEF LinksUpdated
  <2>2. /\ WellFormed(r, dto[r], script[r]) /\ at[r] \in DOMAIN script[r]
        /\ s = script[r][at[r]] /\ s \in AnyStatement
    BY <1>1, HereFacts
  <2> HIDE DEF s
  <2>3. s.key \in AnyKey /\ s.refs \subseteq AnyKey
    BY <2>1, <2>2 DEF WellFormed, Typed, Writes, AnyStatement
  <2>4. /\ s.key.table = "Device" /\ s.key.tenant = dto[r].tenant
        /\ \A ref \in s.refs : ref.tenant \in Tenant
        /\ \E j \in 1..(at[r] - 1) :
             script[r][j].op = "present" /\ s.refs \subseteq script[r][j].refs
    BY <2>1, <2>2 DEF WellFormed, UpdatesAndPicks
  <2>5. Null \notin Tenant
    BY TablesAssumption
  <2>6. \A ref \in s.refs : Has(ref) /\ ref.tenant = s.key.tenant
    BY <1>1, <2>4, <2>5 DEF Passed, PassedAt, Before
  <2>7. links' \subseteq AnyKey \X AnyKey
    BY <1>1, <2>1, <2>3
  <2>8. ASSUME NEW link \in links'
        PROVE  /\ Has(link[2])
               /\ \/ link[1].tenant = link[2].tenant
                  \/ link[1].table = "ProductBarcode" \/ link[2].table = "Permission"
                  \/ link[1].table = "JournalEntry" /\ link[2].table = "User"
    <3>1. CASE link \in links
      BY <3>1 DEF Linked, ReferencesInTenant
    <3>2. CASE \E ref \in s.refs : link = <<s.key, ref>>
      BY <2>6, <3>2
    <3> QED BY <2>1, <2>8, <3>1, <3>2
  <2>9. Linked' /\ ReferencesInTenant'
    BY <1>2, <2>8 DEF Linked, ReferencesInTenant
  <2>10. TokenLinksKept
    <3> SUFFICES ASSUME NEW key, key.table = "RefreshToken"
                 PROVE  Referred(key, "Device")' = Referred(key, "Device")
      BY DEF TokenLinksKept
    <3>1. \A link : link[1] = key => (link \in links' <=> link \in links)
      <4>1. key # s.key
        BY <2>4
      <4>2. \A link \in links' : link[1] = key => link \in links
        BY <2>1, <4>1
      <4>3. \A link \in links : link[1] = key => link \in links'
        BY <2>1, <4>1
      <4> QED BY <4>2, <4>3
    <3> QED BY <3>1 DEF Referred
  <2> QED BY <2>7, <2>9, <2>10
<1> QED BY <1>3, <1>4

\* A handler that ends without success at a check, or at an insert that fails,
\* has left nothing behind, but for the default row another request took and the
\* token without a device.
LEMMA QuietUnsuccessful ==
  ASSUME RegistryInv, NEW r \in Request, Quiet(r)
  PROVE  UnsuccessfulLeavesNothing'
<1> USE DEF RegistryInv
<1>1. Running(r) /\ rows' = rows /\ revoked' = revoked
  BY DEF Quiet
<1>2. PICK n \in {1, 2} : Moved(r, n)
  BY QuietMoves
<1>3. TokenLinksKept
  BY QuietLinks
<1>4. ASSUME NEW q \in Request, q # r, status'[q] \in {"refused", "failed"}
      PROVE  LeavesNothing(q)'
  BY <1>1, <1>2, <1>3, <1>4, UnsuccessfulOthers
<1>5. ASSUME status'[r] \in {"refused", "failed"}
      PROVE  LeavesNothing(r)'
  <2>1. \/ status'[r] = "refused" /\ Here(r).op \in Checks
        \/ status'[r] = "refused" /\ Here(r).op = "pick"
        \/ status'[r] = "failed" /\ Here(r).op = "insert" /\ ~Insertable(r)
    BY <1>5, QuietMoves
  <2>2. dto' = dto
    BY <1>2 DEF Moved
  <2>3. CASE Here(r).op \in Checks
    BY <1>1, <2>3, RefusedLeavesNothing DEF LeavesNothing
  <2>4. CASE status'[r] = "refused" /\ Here(r).op = "pick"
    <3>1. (\A row \in rows : row.by # r) /\ Deviceless(r)
      BY <1>1, <2>4, PickLeavesRows
    <3>2. r \in Arrived
      BY <1>1 DEF Arrived, Running
    <3>3. Deviceless(r)'
      BY <1>3, <2>2, <3>1, <3>2 DEF Deviceless, TokenKnown, TokenLinksKept
    <3> QED BY <1>1, <2>4, <3>1, <3>3 DEF LeavesNothing
  <2>5. CASE status'[r] = "failed" /\ Here(r).op = "insert" /\ ~Insertable(r)
    <3>1. /\ (\A row \in rows : row.by # r) \/ DefaultTaken(r)
          /\ \A entry \in revoked : entry.by # r
      BY <1>1, <2>5, FailedLeavesDefault
    <3>2. DefaultTaken(r)' = DefaultTaken(r)
      BY <1>1, <2>2 DEF DefaultTaken
    <3> QED BY <1>1, <2>5, <3>1, <3>2 DEF LeavesNothing
  <2> QED BY <2>1, <2>3, <2>4, <2>5
<1> QED BY <1>4, <1>5 DEF UnsuccessfulLeavesNothing, LeavesNothing

\* The type invariant, when a handler moves and the tables are still typed.
LEMMA TypeMoved ==
  ASSUME TypeOK, NEW r \in Request, NEW n \in {1, 2}, Moved(r, n), Running(r),
         rows' \subseteq [key : AnyKey, by : Request \cup {Null}],
         links' \subseteq AnyKey \X AnyKey,
         revoked' \subseteq [key : AnyKey, by : Request],
         overtaken' \subseteq Request,
         found' \in [Request -> SUBSET AnyKey]
  PROVE  TypeOK'
<1>1. \A q \in Request : Running(q)' => at'[q] \in DOMAIN script'[q] /\ dto'[q] \in Dto
  BY DEF TypeOK, TablesTypeOK, Moved, Running
<1>2. dto' \in [Request -> Dto \cup {Null}]
  BY DEF TypeOK, TablesTypeOK, Moved
<1> QED BY <1>1, <1>2 DEF TypeOK, TablesTypeOK, Moved

\* A step that changes no table keeps the invariant.
LEMMA QuietStep ==
  ASSUME RegistryInv, NEW r \in Request, Quiet(r)
  PROVE  RegistryInv'
<1> USE DEF RegistryInv
<1>1. /\ Running(r) /\ FoundBy(r)
      /\ rows' = rows /\ revoked' = revoked /\ overtaken' = overtaken
      /\ UNCHANGED <<rows, revoked, overtaken>>
  BY DEF Quiet
<1>2. PICK n \in {1, 2} :
        /\ Moved(r, n)
        /\ status'[r] = "running" =>
             \/ n = 1 /\ Met(r)
             \/ n = 2 /\ Here(r).op \in {"find", "live"} /\ (Here(r).op = "find" => Has(Here(r).key))
  BY QuietMoves
<1>0. /\ links' \subseteq AnyKey \X AnyKey
      /\ Linked' /\ ReferencesInTenant' /\ TokenLinksKept
  BY QuietLinks
<1>14. /\ FoundThere' /\ TokenKnown' /\ PicksDeviceless'
       /\ found' \in [Request -> SUBSET AnyKey]
  BY <1>0, <1>1, <1>2, LookedUpKept
<1>3. TypeOK'
  BY <1>0, <1>1, <1>2, <1>14, TypeMoved DEF TypeOK, TablesTypeOK
<1>4. Formed' /\ HoldersThere' /\ Arrived' = Arrived
  BY <1>1, <1>2, FormedKept, HoldersKept, ArrivedKept
<1>5. Passed'
  <2>1. ASSUME status'[r] = "running" PROVE \A i \in {at[r], at[r] + n - 1} : PassedAt(r, i)'
    <3>1. dto' = dto /\ script' = script
      BY <1>2 DEF Moved
    <3>2. Here(r) = script[r][at[r]] /\ WellFormed(r, dto[r], script[r]) /\ at[r] \in DOMAIN script[r]
          /\ at[r] \in Nat
      BY <1>1, HereFacts
    <3>3. CASE n = 1 /\ Met(r)
      <4>1. PassedAt(r, at[r])
        BY <3>2, <3>3 DEF PassedAt, Met
      <4>2. \A i : PassedAt(r, i) => PassedAt(r, i)'
        BY <1>1, <3>1 DEF PassedAt, Has
      <4>3. at[r] + n - 1 = at[r]
        BY <3>2, <3>3
      <4> QED BY <4>1, <4>2, <4>3
    <3>4. CASE n = 2 /\ Here(r).op \in {"find", "live"} /\ (Here(r).op = "find" => Has(Here(r).key))
      <4>1. /\ script[r][at[r] + 1].op \in {"insert", "revoke"}
            /\ script[r][at[r] + 1].op = "insert" => Has(script[r][at[r] + 1].key)
        BY <3>2, <3>4 DEF WellFormed, Skippable
      <4>2. PassedAt(r, at[r]) /\ PassedAt(r, at[r] + 1)
        BY <3>2, <3>4, <4>1 DEF PassedAt
      <4>3. \A i : PassedAt(r, i) => PassedAt(r, i)'
        BY <1>1, <3>1 DEF PassedAt, Has
      <4>4. at[r] + n - 1 = at[r] + 1
        BY <3>2, <3>4
      <4> QED BY <4>2, <4>3, <4>4
    <3> QED BY <1>2, <2>1, <3>3, <3>4
  <2> QED BY <1>1, <1>2, <2>1, PassedKept DEF Running
<1>6. StillTrue'
  BY <1>1, <1>2, StillTrueQuiet
<1>7. RowsWritten'
  <2>1. script' = script
    BY <1>2 DEF Moved
  <2> QED BY <1>1, <1>2, <2>1, RowsWrittenKept DEF RowsWritten
<1>8. TokensRevoked'
  <2>1. script' = script
    BY <1>2 DEF Moved
  <2> QED BY <1>1, <1>2, <2>1, TokensRevokedKept DEF TokensRevoked
<1>9. OwnTokens'
  BY <1>1 DEF OwnTokens
<1>10. EntriesBalanced'
  <2>1. dto' = dto
    BY <1>2 DEF Moved
  <2> QED BY <1>1, <2>1 DEF EntriesBalanced
<1>11. OneFirstUserUnlessOvertaken' /\ TokenSpentOnceUnlessOvertaken'
  BY <1>1 DEF OneFirstUserUnlessOvertaken, TokenSpentOnceUnlessOvertaken
<1>12. UnsuccessfulLeavesNothing'
  BY QuietUnsuccessful
<1>13. IsFiniteSet(Arrived)'
  BY <1>4
<1> QED BY <1>0, <1>3, <1>4, <1>5, <1>6, <1>7, <1>8, <1>9, <1>10, <1>11, <1>12, <1>13, <1>14

-----------------------------------------------------------------------------
\* The step that inserts a row.
LEMMA AddedRow ==
  ASSUME RegistryInv, NEW r \in Request, Adds(r)
  PROVE  LET s == Here(r)
         IN  /\ Running(r) /\ s = script[r][at[r]] /\ s.op \in {"insert", "tryInsert"}
             /\ s.key \in AnyKey /\ s.refs \cup found[r] \subseteq AnyKey
             /\ rows' = rows \cup {[key |-> s.key, by |-> r]}
             /\ links' = links \cup {<<s.key, ref>> : ref \in s.refs \cup found[r]}
             /\ overtaken' = overtaken \cup
                  (Trusting(Empty(s.key.table, s.key.tenant), "insert") \ {r})
             /\ revoked' = revoked /\ found' = found
             /\ ~Has(s.key) /\ \A ref \in s.refs \cup found[r] : Has(ref)
             /\ WellFormed(r, dto[r], script[r]) /\ at[r] \in DOMAIN script[r]
             /\ Moved(r, 1) /\ status'[r] \in {"running", "done"}
             /\ dto' = dto /\ script' = script
<1> USE DEF RegistryInv
<1>1. /\ Running(r) /\ Here(r).op \in {"insert", "tryInsert"}
      /\ rows' = rows \cup {[key |-> Here(r).key, by |-> r]}
      /\ links' = links \cup {<<Here(r).key, ref>> : ref \in Here(r).refs \cup found[r]}
      /\ overtaken' = overtaken \cup
           (Trusting(Empty(Here(r).key.table, Here(r).key.tenant), "insert") \ {r})
      /\ revoked' = revoked /\ found' = found
      /\ ~Has(Here(r).key) /\ \A ref \in Here(r).refs \cup found[r] : Has(ref)
  BY DEF Adds, AddRow, Insertable, Refs
<1>2. /\ Here(r) = script[r][at[r]] /\ WellFormed(r, dto[r], script[r])
      /\ at[r] \in DOMAIN script[r] /\ Here(r) \in AnyStatement
  BY <1>1, HereFacts
<1>3. Here(r).key \in AnyKey
  BY <1>1, <1>2 DEF WellFormed, Typed, Writes
<1>4. Here(r).refs \cup found[r] \subseteq AnyKey
  BY <1>2 DEF AnyStatement, TypeOK, TablesTypeOK
<1>5. Moved(r, 1) /\ status'[r] \in {"running", "done"} /\ dto' = dto /\ script' = script
  BY AddsMoves DEF Moved
<1> QED BY <1>1, <1>2, <1>3, <1>4, <1>5

\* An insert overtakes the registrations that counted no user before it.
LEMMA AddStillTrue ==
  ASSUME RegistryInv, NEW r \in Request, Adds(r)
  PROVE  StillTrue'
<1> USE DEF RegistryInv
<1> DEFINE s == Here(r)
<1>1. /\ Running(r) /\ s = script[r][at[r]] /\ s.op \in {"insert", "tryInsert"}
      /\ rows' = rows \cup {[key |-> s.key, by |-> r]}
      /\ overtaken' = overtaken \cup
           (Trusting(Empty(s.key.table, s.key.tenant), "insert") \ {r})
      /\ revoked' = revoked
      /\ WellFormed(r, dto[r], script[r]) /\ at[r] \in DOMAIN script[r]
      /\ Moved(r, 1) /\ dto' = dto /\ script' = script
  BY AddedRow
<1> HIDE DEF s
<1> SUFFICES ASSUME NEW q \in Request, Running(q)', q \notin overtaken',
                    NEW i \in Before(q)', NEW j \in (at'[q])..Len(script'[q])
             PROVE  StillTrueAt(q, i, j)'
  BY DEF StillTrue
<1>2. /\ Running(q) /\ at[q] \in Nat /\ at'[q] \in Nat /\ at[q] <= at'[q]
      /\ i \in Before(q) \/ (q = r /\ i = at[r])
      /\ q \notin overtaken
  BY <1>1, BeforeMoved
<1>3. j \in at[q]..Len(script[q])
  BY <1>1, <1>2
<1>4. (Revoked(script[q][i].key))' = Revoked(script[q][i].key)
  BY <1>1 DEF Revoked
<1>5. /\ WellFormed(q, dto[q], script[q]) /\ DOMAIN script[q] = 1..Len(script[q])
      /\ i \in DOMAIN script[q] /\ j \in DOMAIN script[q] /\ Len(script[q]) \in Nat
      /\ at[q] \in DOMAIN script[q]
  BY <1>1, <1>2, <1>3, HereFacts
<1>6. CASE q = r
  <2>1. at'[r] = at[r] + 1
    BY <1>1, <1>6 DEF Moved, Running
  <2>2. i <= at[r] /\ at[r] < j
    BY <1>1, <1>2, <1>6, <2>1 DEF Before
  <2>3. ~(script[r][i].op = "empty" /\ script[r][j].op = "insert")
    <3> SUFFICES ASSUME script[r][i].op = "empty", script[r][j].op = "insert" PROVE FALSE
      OBVIOUS
    <3>1. i < at[r]
      <4>1. i # at[r]
        BY <1>1
      <4> QED BY <1>2, <1>6, <2>2, <4>1 DEF Before
    <3>2. at[r] = Len(script[r])
      BY <1>1, <1>5, <1>6, <3>1 DEF WellFormed, CountsUsers, InsertsOwn
    <3> QED BY <1>2, <1>3, <1>5, <1>6, <2>2, <3>2
  <2>4. i \in Before(r) \/ script[r][i].op \notin {"valid", "live"}
    BY <1>1, <1>2, <1>6
  <2>5. script[r][i].op \in {"valid", "live"} /\ script[r][j].op = "revoke" =>
          ~Revoked(script[r][i].key)
    BY <1>2, <1>3, <1>6, <2>4 DEF StillTrue, StillTrueAt
  <2> QED BY <1>1, <1>4, <1>6, <2>3, <2>5 DEF StillTrueAt
<1>7. CASE q # r
  <2>1. i \in Before(q) /\ StillTrueAt(q, i, j)
    BY <1>2, <1>3, <1>7 DEF StillTrue
  <2>2. ASSUME script[q][i].op = "empty", script[q][j].op = "insert"
        PROVE  NoneIn(script[q][i].key)'
    <3> DEFINE key == script[q][i].key
    <3>1. script[q][i] = Empty(key.table, key.tenant)
      BY <1>5, <2>2 DEF WellFormed, Typed
    <3>2. ~(s.key.table = key.table /\ s.key.tenant = key.tenant)
      <4> SUFFICES ASSUME s.key.table = key.table, s.key.tenant = key.tenant PROVE FALSE
        OBVIOUS
      <4>1. q \in Trusting(Empty(s.key.table, s.key.tenant), "insert")
        BY <1>2, <1>3, <2>1, <2>2, <3>1 DEF Trusting, Before
      <4> QED BY <1>1, <1>7, <4>1
    <3>3. NoneIn(key)
      BY <2>1, <2>2 DEF StillTrueAt
    <3> QED BY <1>1, <3>2, <3>3 DEF NoneIn
  <2> QED BY <1>1, <1>4, <2>1, <2>2 DEF StillTrueAt
<1> QED BY <1>6, <1>7

\* The references of a new row were looked for in its company, or its handler
\* took them from a row of the company, or looked one up there.
LEMMA AddReferences ==
  ASSUME RegistryInv, NEW r \in Request, Adds(r)
  PROVE  ReferencesInTenant'
<1> USE DEF RegistryInv
<1> DEFINE s == Here(r)
<1>1. /\ Running(r) /\ s = script[r][at[r]] /\ s.op \in {"insert", "tryInsert"}
      /\ links' = links \cup {<<s.key, ref>> : ref \in s.refs \cup found[r]}
      /\ WellFormed(r, dto[r], script[r]) /\ at[r] \in DOMAIN script[r]
  BY AddedRow
<1> HIDE DEF s
<1>2. ASSUME NEW ref \in s.refs \cup found[r]
      PROVE  \/ s.key.tenant = ref.tenant
             \/ s.key.table = "ProductBarcode" \/ ref.table = "Permission"
             \/ s.key.table = "JournalEntry" /\ ref.table = "User"
  <2>1. CASE s.op = "tryInsert"
    BY <1>1, <2>1 DEF WellFormed, InsertsOwn
  <2>2. CASE s.op = "insert" /\ ref \in found[r]
    BY <1>1, <2>2 DEF WellFormed, InsertsOwn, FoundThere
  <2>3. CASE s.op = "insert" /\ ref \in s.refs
    <3>1. s.key.tenant = dto[r].tenant /\ OwnOrChecked(dto[r], script[r], at[r], ref)
      BY <1>1, <2>3 DEF WellFormed, InsertsOwn
    <3>2. \A j \in 1..(at[r] - 1) : PassedAt(r, j)
      BY <1>1 DEF Passed, Before
    <3>3. Null \notin Tenant
      BY TablesAssumption
    <3> QED BY <1>1, <3>1, <3>2, <3>3 DEF OwnOrChecked, PassedAt
  <2> QED BY <1>1, <1>2, <2>1, <2>2, <2>3
<1>3. ASSUME NEW link \in links'
      PROVE  \/ link[1].tenant = link[2].tenant
             \/ link[1].table = "ProductBarcode" \/ link[2].table = "Permission"
             \/ link[1].table = "JournalEntry" /\ link[2].table = "User"
  <2>1. CASE link \in links
    BY <2>1 DEF ReferencesInTenant
  <2>2. CASE \E ref \in s.refs \cup found[r] : link = <<s.key, ref>>
    BY <1>2, <2>2
  <2> QED BY <1>1, <1>3, <2>1, <2>2
<1> QED BY <1>3 DEF ReferencesInTenant

\* A user whose registration nobody overtook is the first.
LEMMA AddOneFirstUser ==
  ASSUME RegistryInv, NEW r \in Request, Adds(r)
  PROVE  OneFirstUserUnlessOvertaken'
<1> USE DEF RegistryInv
<1> DEFINE s == Here(r)
           new == [key |-> s.key, by |-> r]
<1>1. /\ Running(r) /\ s = script[r][at[r]] /\ s.op \in {"insert", "tryInsert"}
      /\ rows' = rows \cup {new}
      /\ overtaken \subseteq overtaken'
      /\ WellFormed(r, dto[r], script[r]) /\ at[r] \in DOMAIN script[r]
  BY AddedRow
<1> HIDE DEF s
<1>2. ASSUME s.key.table = "User", r \notin overtaken'
      PROVE  \A row \in rows : ~(row.key.table = "User" /\ row.key.tenant = s.key.tenant)
  <2>1. s.op = "insert"
    BY <1>1, <1>2 DEF WellFormed, InsertsOwn
  <2>2. /\ s.key.tenant = dto[r].tenant
        /\ \E j \in 1..(at[r] - 1) : script[r][j] = Empty("User", dto[r].tenant)
    BY <1>1, <1>2, <2>1 DEF WellFormed, InsertsOwn, CountsUsers
  <2>3. PICK j \in 1..(at[r] - 1) : script[r][j] = Empty("User", dto[r].tenant)
    BY <2>2
  <2>4. /\ Empty("User", dto[r].tenant).op = "empty"
        /\ Empty("User", dto[r].tenant).key.table = "User"
        /\ Empty("User", dto[r].tenant).key.tenant = dto[r].tenant
    BY DEF Empty, Statement, Key
  <2>5. j \in Before(r) /\ at[r] \in at[r]..Len(script[r])
    BY <1>1, HereFacts DEF Before
  <2>6. NoneIn(script[r][j].key)
    BY <1>1, <1>2, <2>1, <2>3, <2>4, <2>5 DEF StillTrue, StillTrueAt
  <2> QED BY <2>2, <2>3, <2>4, <2>6 DEF NoneIn
<1>3. new.key = s.key /\ new.by = r
  OBVIOUS
<1> HIDE DEF new
<1> SUFFICES ASSUME NEW row1 \in rows', NEW row2 \in rows',
                    row1.key.table = "User", row2.key.table = "User",
                    row1.key.tenant = row2.key.tenant,
                    row1.by \notin overtaken' \cup {Null}, row2.by \notin overtaken'
             PROVE  row1 = row2
  BY DEF OneFirstUserUnlessOvertaken
<1>4. CASE row1 \in rows /\ row2 \in rows
  BY <1>1, <1>4 DEF OneFirstUserUnlessOvertaken
<1>5. CASE row1 = new /\ row2 \in rows
  BY <1>2, <1>3, <1>5
<1>6. CASE row1 \in rows /\ row2 = new
  BY <1>2, <1>3, <1>6
<1> QED BY <1>1, <1>4, <1>5, <1>6

\* A journal entry passed the check of its balance; a token has a key of its own.
LEMMA AddEntries ==
  ASSUME RegistryInv, NEW r \in Request, Adds(r)
  PROVE  EntriesBalanced' /\ OwnTokens'
<1> USE DEF RegistryInv
<1> DEFINE s == Here(r)
           new == [key |-> s.key, by |-> r]
<1>1. /\ Running(r) /\ s = script[r][at[r]] /\ s.op \in {"insert", "tryInsert"}
      /\ rows' = rows \cup {new}
      /\ WellFormed(r, dto[r], script[r]) /\ at[r] \in DOMAIN script[r]
      /\ dto' = dto
  BY AddedRow
<1>2. new.key = s.key /\ new.by = r
  OBVIOUS
<1> HIDE DEF s, new
<1>3. ASSUME s.key.table = "JournalEntry"
      PROVE  dto[r] \in JournalEntryDto /\ Balanced(dto[r].lines)
  <2>1. s.op = "insert"
    BY <1>1, <1>3 DEF WellFormed, InsertsOwn
  <2>2. /\ dto[r] \in JournalEntryDto
        /\ Balanced(dto[r].lines) \/ \E j \in 1..(at[r] - 1) : script[r][j].op = "refuse"
    BY <1>1, <1>3, <2>1 DEF WellFormed, EntriesChecked
  <2>3. \A j \in 1..(at[r] - 1) : script[r][j].op # "refuse"
    BY <1>1 DEF Passed, PassedAt, Before
  <2> QED BY <2>2, <2>3
<1>4. ASSUME s.key.table = "RefreshToken", s.key.code \in Request
      PROVE  s.key.code = r
  <2>1. s.op = "insert"
    BY <1>1, <1>4 DEF WellFormed, InsertsOwn
  <2> QED BY <1>1, <1>4, <2>1 DEF WellFormed, TokensFresh
<1>5. EntriesBalanced'
  BY <1>1, <1>2, <1>3 DEF EntriesBalanced
<1>6. OwnTokens'
  BY <1>1, <1>2, <1>4 DEF OwnTokens
<1> QED BY <1>5, <1>6

\* The insert of a row keeps the invariant.
LEMMA AddStep ==
  ASSUME RegistryInv, NEW r \in Request, Adds(r)
  PROVE  RegistryInv'
<1> USE DEF RegistryInv
<1> DEFINE s == Here(r)
           new == [key |-> s.key, by |-> r]
<1>1. /\ Running(r) /\ s = script[r][at[r]] /\ s.op \in {"insert", "tryInsert"}
      /\ s.key \in AnyKey /\ s.refs \cup found[r] \subseteq AnyKey
      /\ rows' = rows \cup {new}
      /\ links' = links \cup {<<s.key, ref>> : ref \in s.refs \cup found[r]}
      /\ overtaken' = overtaken \cup
           (Trusting(Empty(s.key.table, s.key.tenant), "insert") \ {r})
      /\ revoked' = revoked /\ found' = found
      /\ ~Has(s.key) /\ \A ref \in s.refs \cup found[r] : Has(ref)
      /\ at[r] \in DOMAIN script[r] /\ at[r] \in Nat
      /\ Moved(r, 1) /\ status'[r] \in {"running", "done"}
      /\ dto' = dto /\ script' = script
  BY AddedRow, HereFacts
<1>2. new.key = s.key /\ new.by = r /\ new \in [key : AnyKey, by : Request \cup {Null}]
  BY <1>1
<1> HIDE DEF s, new
<1>0. TokenLinksKept
  <2> SUFFICES ASSUME NEW key, Has(key) PROVE Referred(key, "Device")' = Referred(key, "Device")
    BY DEF TokenLinksKept
  <2>1. \A link : link[1] = key => (link \in links' <=> link \in links)
    BY <1>1
  <2> QED BY <2>1 DEF Referred
<1>14. /\ FoundThere' /\ TokenKnown' /\ PicksDeviceless'
       /\ found' \in [Request -> SUBSET AnyKey]
  <2>1. FoundBy(r)
    BY <1>1 DEF FoundBy
  <2> QED BY <1>0, <1>1, <2>1, LookedUpKept
<1>3. TypeOK'
  <2>1. Trusting(Empty(s.key.table, s.key.tenant), "insert") \subseteq Request
    BY DEF Trusting
  <2>2. overtaken' \subseteq Request
    BY <1>1, <2>1 DEF TypeOK, TablesTypeOK
  <2>3. links' \subseteq AnyKey \X AnyKey
    BY <1>1 DEF TypeOK, TablesTypeOK
  <2>4. /\ rows' \subseteq [key : AnyKey, by : Request \cup {Null}]
        /\ revoked' \subseteq [key : AnyKey, by : Request]
    BY <1>1, <1>2 DEF TypeOK, TablesTypeOK
  <2> QED BY <1>1, <2>2, <2>3, <2>4, <1>14, TypeMoved
<1>4. Formed' /\ HoldersThere' /\ Arrived' = Arrived
  BY <1>1, FormedKept, HoldersKept, ArrivedKept
<1>5. Passed'
  <2>1. \A i \in {at[r], at[r] + 1 - 1} : PassedAt(r, i)'
    <3>1. at[r] + 1 - 1 = at[r]
      BY <1>1
    <3>2. \E row \in rows' : row.key = script[r][at[r]].key
      BY <1>1, <1>2
    <3>3. \A i : i = at[r] => PassedAt(r, i)'
      BY <1>1, <3>2 DEF PassedAt, Has
    <3> QED BY <3>1, <3>3
  <2> QED BY <1>1, <2>1, PassedKept
<1>6. StillTrue' /\ ReferencesInTenant' /\ OneFirstUserUnlessOvertaken'
  BY AddStillTrue, AddReferences, AddOneFirstUser
<1>7. RowsWritten'
  <2>1. ASSUME Running(r)'
        PROVE  \E i \in Before(r)' : /\ script[r][i].op \in {"insert", "tryInsert"}
                                    /\ script[r][i].key = new.key
    <3>1. at'[r] = at[r] + 1
      BY <1>1, <2>1 DEF Moved, Running
    <3>2. at[r] \in Before(r)'
      BY <1>1, <3>1, HereFacts DEF Before
    <3> QED BY <1>1, <1>2, <3>2
  <2>2. r \in Arrived'
    BY <1>1, <1>4 DEF Arrived, Running
  <2>3. ASSUME NEW row \in rows', row.by # Null
        PROVE  /\ row.by \in Arrived'
               /\ Running(row.by)' => \E i \in Before(row.by)' :
                    /\ script[row.by][i].op \in {"insert", "tryInsert"}
                    /\ script[row.by][i].key = row.key
    <3>1. CASE row \in rows
      BY <1>1, <2>3, <3>1, RowsWrittenKept
    <3>2. CASE row = new
      BY <1>2, <2>1, <2>2, <3>2
    <3> QED BY <1>1, <2>3, <3>1, <3>2
  <2> QED BY <1>1, <2>3 DEF RowsWritten
<1>8. TokensRevoked'
  BY <1>1, TokensRevokedKept DEF TokensRevoked
<1>9. Linked'
  <2>1. \A link \in links' : Has(link[2])
    BY <1>1 DEF Linked
  <2>2. rows \subseteq rows'
    BY <1>1
  <2> QED BY <2>1, <2>2 DEF Linked, Has
<1>10. EntriesBalanced' /\ OwnTokens'
  BY AddEntries
<1>11. TokenSpentOnceUnlessOvertaken'
  BY <1>1 DEF TokenSpentOnceUnlessOvertaken
<1>12. UnsuccessfulLeavesNothing'
  <2>1. \A q \in Request : status'[q] \in {"refused", "failed"} => q # r
    BY <1>1
  <2>2. \A row \in rows' : row \in rows \/ row.by = r
    BY <1>1, <1>2
  <2>3. \A q \in Request : status'[q] \in {"refused", "failed"} => LeavesNothing(q)'
    BY <1>0, <1>1, <2>1, <2>2, UnsuccessfulOthers
  <2> QED BY <2>3 DEF UnsuccessfulLeavesNothing, LeavesNothing
<1>13. IsFiniteSet(Arrived)'
  BY <1>4
<1> QED BY <1>3, <1>4, <1>5, <1>6, <1>7, <1>8, <1>9, <1>10, <1>11, <1>12, <1>13, <1>14

-----------------------------------------------------------------------------
\* The step that revokes a token.
LEMMA RevokedToken ==
  ASSUME RegistryInv, NEW r \in Request, RevokeToken(r)
  PROVE  LET token == Here(r).key
         IN  /\ Running(r) /\ Here(r) = script[r][at[r]] /\ Here(r).op = "revoke"
             /\ token \in AnyKey
             /\ rows' = rows /\ links' = links /\ found' = found
             /\ revoked' = revoked \cup {[key |-> token, by |-> r]}
             /\ overtaken' = overtaken \cup
                  ((Trusting(Valid(token), "revoke") \cup Trusting(Live(token), "revoke")) \ {r})
             /\ WellFormed(r, dto[r], script[r]) /\ at[r] \in DOMAIN script[r]
             /\ at[r] \in Nat /\ DOMAIN script[r] = 1..Len(script[r]) /\ Len(script[r]) \in Nat
             /\ Moved(r, 1) /\ status'[r] \in {"running", "done"}
             /\ dto' = dto /\ script' = script
<1> USE DEF RegistryInv
<1>1. /\ Running(r) /\ Here(r).op = "revoke"
      /\ rows' = rows /\ links' = links /\ found' = found
      /\ revoked' = revoked \cup {[key |-> Here(r).key, by |-> r]}
      /\ overtaken' = overtaken \cup
           ((Trusting(Valid(Here(r).key), "revoke")
               \cup Trusting(Live(Here(r).key), "revoke")) \ {r})
  BY DEF RevokeToken, AtOp
<1>2. /\ Here(r) = script[r][at[r]] /\ WellFormed(r, dto[r], script[r])
      /\ at[r] \in DOMAIN script[r] /\ at[r] \in Nat
      /\ DOMAIN script[r] = 1..Len(script[r]) /\ Len(script[r]) \in Nat
  BY <1>1, HereFacts
<1>3. Here(r).key \in AnyKey
  BY <1>1, <1>2 DEF WellFormed, Typed, Writes
<1>4. Moved(r, 1) /\ status'[r] \in {"running", "done"} /\ dto' = dto /\ script' = script
  BY RevokeMoves DEF Moved
<1> QED BY <1>1, <1>2, <1>3, <1>4

\* A revocation overtakes those who read the token before it.
LEMMA RevokeStillTrue ==
  ASSUME RegistryInv, NEW r \in Request, RevokeToken(r)
  PROVE  StillTrue'
<1> USE DEF RegistryInv
<1> DEFINE token == Here(r).key
<1>1. /\ Running(r) /\ token = script[r][at[r]].key /\ script[r][at[r]].op = "revoke"
      /\ rows' = rows
      /\ revoked' = revoked \cup {[key |-> token, by |-> r]}
      /\ overtaken' = overtaken \cup
           ((Trusting(Valid(token), "revoke") \cup Trusting(Live(token), "revoke")) \ {r})
      /\ WellFormed(r, dto[r], script[r]) /\ at[r] \in DOMAIN script[r]
      /\ Moved(r, 1) /\ dto' = dto /\ script' = script
  BY RevokedToken
<1> HIDE DEF token
<1> SUFFICES ASSUME NEW q \in Request, Running(q)', q \notin overtaken',
                    NEW i \in Before(q)', NEW j \in (at'[q])..Len(script'[q])
             PROVE  StillTrueAt(q, i, j)'
  BY DEF StillTrue
<1>2. /\ Running(q) /\ at[q] \in Nat /\ at'[q] \in Nat /\ at[q] <= at'[q]
      /\ i \in Before(q) \/ (q = r /\ i = at[r])
      /\ q \notin overtaken
  BY <1>1, BeforeMoved
<1>3. j \in at[q]..Len(script[q])
  BY <1>1, <1>2
<1>4. NoneIn(script[q][i].key)' = NoneIn(script[q][i].key)
  BY <1>1 DEF NoneIn
<1>5. /\ WellFormed(q, dto[q], script[q]) /\ DOMAIN script[q] = 1..Len(script[q])
      /\ i \in DOMAIN script[q] /\ j \in DOMAIN script[q] /\ Len(script[q]) \in Nat
      /\ at[q] \in DOMAIN script[q]
  BY <1>1, <1>2, <1>3, HereFacts
<1>6. CASE q = r
  <2>1. at'[r] = at[r] + 1
    BY <1>1, <1>6 DEF Moved, Running
  <2>2. at[r] < j
    BY <1>2, <1>6, <2>1
  <2>3. script[r][j].op # "revoke"
    <3>1. j # at[r]
      BY <1>2, <1>6, <2>2
    <3> QED BY <1>1, <1>5, <1>6, <3>1 DEF WellFormed, RevokesChecked
  <2>4. i \in Before(r) \/ script[r][i].op # "empty"
    BY <1>1, <1>2, <1>6
  <2>5. script[r][i].op = "empty" /\ script[r][j].op = "insert" => NoneIn(script[r][i].key)
    BY <1>2, <1>3, <1>6, <2>4 DEF StillTrue, StillTrueAt
  <2> QED BY <1>1, <1>4, <1>6, <2>3, <2>5 DEF StillTrueAt
<1>7. CASE q # r
  <2>1. i \in Before(q) /\ StillTrueAt(q, i, j)
    BY <1>2, <1>3, <1>7 DEF StillTrue
  <2>2. ASSUME script[q][i].op \in {"valid", "live"}, script[q][j].op = "revoke"
        PROVE  ~Revoked(script[q][i].key)'
    <3> DEFINE key == script[q][i].key
    <3>1. script[q][i] = Valid(key) \/ script[q][i] = Live(key)
      BY <1>5, <2>2 DEF WellFormed, Typed
    <3>2. key # token
      <4> SUFFICES ASSUME key = token PROVE FALSE
        OBVIOUS
      <4>1. q \in Trusting(Valid(token), "revoke") \cup Trusting(Live(token), "revoke")
        BY <1>2, <1>3, <2>1, <2>2, <3>1 DEF Trusting, Before
      <4> QED BY <1>1, <1>7, <4>1
    <3>3. ~Revoked(key)
      BY <2>1, <2>2 DEF StillTrueAt
    <3> QED BY <1>1, <3>2, <3>3 DEF Revoked
  <2> QED BY <1>1, <1>4, <2>1, <2>2 DEF StillTrueAt
<1> QED BY <1>6, <1>7

\* A request that nobody overtook finds its token unspent when it revokes it.
LEMMA RevokeOnce ==
  ASSUME RegistryInv, NEW r \in Request, RevokeToken(r)
  PROVE  TokenSpentOnceUnlessOvertaken'
<1> USE DEF RegistryInv
<1> DEFINE token == Here(r).key
           new == [key |-> token, by |-> r]
<1>1. /\ Running(r) /\ token = script[r][at[r]].key /\ script[r][at[r]].op = "revoke"
      /\ revoked' = revoked \cup {new}
      /\ overtaken \subseteq overtaken'
      /\ WellFormed(r, dto[r], script[r]) /\ at[r] \in DOMAIN script[r]
      /\ at[r] \in Nat /\ DOMAIN script[r] = 1..Len(script[r]) /\ Len(script[r]) \in Nat
  BY RevokedToken
<1>2. new.key = token /\ new.by = r
  OBVIOUS
<1> HIDE DEF token, new
<1>3. ASSUME r \notin overtaken' PROVE ~Revoked(token)
  <2>1. /\ at[r] - 1 \in DOMAIN script[r] /\ script[r][at[r] - 1].op \in {"valid", "live"}
        /\ script[r][at[r] - 1].key = token
    BY <1>1 DEF WellFormed, RevokesChecked
  <2>2. at[r] - 1 \in Before(r) /\ at[r] \in at[r]..Len(script[r])
    BY <1>1, <2>1 DEF Before
  <2>3. StillTrueAt(r, at[r] - 1, at[r])
    BY <1>1, <1>3, <2>2 DEF StillTrue
  <2> QED BY <1>1, <2>1, <2>3 DEF StillTrueAt
<1> SUFFICES ASSUME NEW entry1 \in revoked', NEW entry2 \in revoked',
                    entry1.key = entry2.key,
                    entry1.by \notin overtaken', entry2.by \notin overtaken'
             PROVE  entry1.by = entry2.by
  BY DEF TokenSpentOnceUnlessOvertaken
<1>4. CASE entry1 \in revoked /\ entry2 \in revoked
  BY <1>1, <1>4 DEF TokenSpentOnceUnlessOvertaken
<1>5. CASE entry1 = new /\ entry2 \in revoked
  BY <1>2, <1>3, <1>5 DEF Revoked
<1>6. CASE entry1 \in revoked /\ entry2 = new
  BY <1>2, <1>3, <1>6 DEF Revoked
<1> QED BY <1>1, <1>4, <1>5, <1>6

\* The revocation of a token keeps the invariant.
LEMMA RevokeStep ==
  ASSUME RegistryInv, NEW r \in Request, RevokeToken(r)
  PROVE  RegistryInv'
<1> USE DEF RegistryInv
<1> DEFINE token == Here(r).key
           new == [key |-> token, by |-> r]
<1>1. /\ Running(r) /\ token = script[r][at[r]].key /\ script[r][at[r]].op = "revoke"
      /\ token \in AnyKey
      /\ rows' = rows /\ links' = links /\ found' = found
      /\ revoked' = revoked \cup {new}
      /\ overtaken' = overtaken \cup
           ((Trusting(Valid(token), "revoke") \cup Trusting(Live(token), "revoke")) \ {r})
      /\ WellFormed(r, dto[r], script[r]) /\ at[r] \in DOMAIN script[r] /\ at[r] \in Nat
      /\ Moved(r, 1) /\ status'[r] \in {"running", "done"}
      /\ dto' = dto /\ script' = script
  BY RevokedToken
<1>2. new.key = token /\ new.by = r /\ new \in [key : AnyKey, by : Request]
  BY <1>1
<1> HIDE DEF token, new
<1>0. TokenLinksKept
  BY <1>1 DEF TokenLinksKept, Referred
<1>14. /\ FoundThere' /\ TokenKnown' /\ PicksDeviceless'
       /\ found' \in [Request -> SUBSET AnyKey]
  <2>1. FoundBy(r)
    BY <1>1 DEF FoundBy
  <2> QED BY <1>0, <1>1, <2>1, LookedUpKept
<1>3. TypeOK'
  <2>1. Trusting(Valid(token), "revoke") \cup Trusting(Live(token), "revoke") \subseteq Request
    BY DEF Trusting
  <2>2. overtaken' \subseteq Request
    BY <1>1, <2>1 DEF TypeOK, TablesTypeOK
  <2>3. links' \subseteq AnyKey \X AnyKey
    BY <1>1 DEF TypeOK, TablesTypeOK
  <2>4. /\ rows' \subseteq [key : AnyKey, by : Request \cup {Null}]
        /\ revoked' \subseteq [key : AnyKey, by : Request]
    BY <1>1, <1>2 DEF TypeOK, TablesTypeOK
  <2> QED BY <1>1, <2>2, <2>3, <2>4, <1>14, TypeMoved
<1>4. Formed' /\ HoldersThere' /\ Arrived' = Arrived
  BY <1>1, FormedKept, HoldersKept, ArrivedKept
<1>5. Passed'
  <2>1. \A i \in {at[r], at[r] + 1 - 1} : PassedAt(r, i)'
    <3>1. at[r] + 1 - 1 = at[r]
      BY <1>1
    <3>2. \A i : i = at[r] => PassedAt(r, i)'
      BY <1>1 DEF PassedAt
    <3> QED BY <3>1, <3>2
  <2> QED BY <1>1, <2>1, PassedKept
<1>6. StillTrue' /\ TokenSpentOnceUnlessOvertaken'
  BY RevokeStillTrue, RevokeOnce
<1>7. RowsWritten'
  BY <1>1, RowsWrittenKept DEF RowsWritten
<1>8. TokensRevoked'
  <2>1. ASSUME Running(r)'
        PROVE  \E i \in Before(r)' : script[r][i].op = "revoke"
    <3>1. at'[r] = at[r] + 1
      BY <1>1, <2>1 DEF Moved, Running
    <3>2. at[r] \in Before(r)'
      BY <1>1, <3>1, HereFacts DEF Before
    <3> QED BY <1>1, <3>2
  <2>2. r \in Arrived'
    BY <1>1, <1>4 DEF Arrived, Running
  <2>3. ASSUME NEW entry \in revoked'
        PROVE  /\ entry.by \in Arrived'
               /\ Running(entry.by)' =>
                    \E i \in Before(entry.by)' : script[entry.by][i].op = "revoke"
    <3>1. CASE entry \in revoked
      BY <1>1, <3>1, TokensRevokedKept
    <3>2. CASE entry = new
      BY <1>2, <2>1, <2>2, <3>2
    <3> QED BY <1>1, <2>3, <3>1, <3>2
  <2> QED BY <1>1, <2>3 DEF TokensRevoked
<1>9. Linked' /\ EntriesBalanced' /\ OwnTokens' /\ ReferencesInTenant'
  BY <1>1 DEF Linked, EntriesBalanced, OwnTokens, ReferencesInTenant, Has
<1>10. OneFirstUserUnlessOvertaken'
  <2>1. overtaken \subseteq overtaken'
    BY <1>1
  <2> QED BY <1>1, <2>1 DEF OneFirstUserUnlessOvertaken
<1>12. UnsuccessfulLeavesNothing'
  <2>1. \A q \in Request : status'[q] \in {"refused", "failed"} => q # r
    BY <1>1
  <2>2. \A entry \in revoked' : entry \in revoked \/ entry.by = r
    BY <1>1, <1>2
  <2>3. \A q \in Request : status'[q] \in {"refused", "failed"} => LeavesNothing(q)'
    BY <1>0, <1>1, <2>1, <2>2, UnsuccessfulOthers
  <2> QED BY <2>3 DEF UnsuccessfulLeavesNothing, LeavesNothing
<1>13. IsFiniteSet(Arrived)'
  BY <1>4
<1> QED BY <1>3, <1>4, <1>5, <1>6, <1>7, <1>8, <1>9, <1>10, <1>12, <1>13, <1>14

-----------------------------------------------------------------------------
\* The step with which a request arrives.
LEMMA ArriveStep ==
  ASSUME RegistryInv, NEW r \in Request, Arrive(r)
  PROVE  RegistryInv'
<1> USE DEF RegistryInv
<1>1. PICK d \in Dto : Receive(r, d, Script(r, d)) /\ Sendable(d)
  BY DEF Arrive
<1>2. /\ status[r] = "idle"
      /\ dto' = [dto EXCEPT ![r] = d]
      /\ script' = [script EXCEPT ![r] = Script(r, d)]
      /\ at' = [at EXCEPT ![r] = 1]
      /\ status' = [status EXCEPT ![r] = "running"]
      /\ rows' = rows /\ links' = links /\ revoked' = revoked /\ overtaken' = overtaken
      /\ found' = found
  BY <1>1 DEF Receive, tableVars
<1>3. /\ status \in [Request -> {"idle", "running"} \cup Ended]
      /\ at \in [Request -> Nat] /\ dto \in [Request -> Dto \cup {Null}]
      /\ links \subseteq AnyKey \X AnyKey
  BY DEF TypeOK, TablesTypeOK
<1>4. /\ \A q \in Request : q # r => /\ status'[q] = status[q] /\ at'[q] = at[q]
                                     /\ dto'[q] = dto[q]
      /\ status'[r] = "running" /\ at'[r] = 1 /\ dto'[r] = d
      /\ DOMAIN status = Request /\ DOMAIN at = Request /\ DOMAIN dto = Request
  BY <1>2, <1>3
<1>5. DOMAIN script = Request /\ DOMAIN script' = Request /\ script'[r] = Script(r, d)
      /\ \A q \in Request : q # r => script'[q] = script[q]
  BY <1>2 DEF Formed
<1>6. WellFormed(r, d, Script(r, d))
  BY <1>3, ScriptFormed
<1>7. ~Running(r) /\ Running(r)' /\ r \notin Arrived /\ Arrived' = Arrived \cup {r}
  <2>1. \A q \in Request : (status'[q] # "idle") = (status[q] # "idle" \/ q = r)
    BY <1>2, <1>4
  <2> QED BY <1>2, <1>4, <2>1 DEF Running, Arrived
<1>8. ASSUME NEW q \in Request, Running(q)', q # r
      PROVE  /\ Running(q) /\ Before(q)' = Before(q) /\ at'[q] = at[q]
             /\ dto'[q] = dto[q] /\ script'[q] = script[q]
  BY <1>4, <1>5, <1>8 DEF Running, Before
<1>9. Before(r)' = {}
  BY <1>4 DEF Before
<1>10. TypeOK'
  <2>1. 1 \in DOMAIN Script(r, d)
    <3>1. Script(r, d) \in Seq(AnyStatement) /\ Script(r, d) # <<>>
      BY <1>6 DEF WellFormed, Typed
    <3>2. Len(Script(r, d)) \in Nat /\ DOMAIN Script(r, d) = 1..Len(Script(r, d))
      BY <3>1, LenProperties
    <3>3. Len(Script(r, d)) # 0
      BY <3>1, EmptySeq
    <3> QED BY <3>2, <3>3
  <2>2. \A q \in Request : Running(q)' => at'[q] \in DOMAIN script'[q] /\ dto'[q] \in Dto
    BY <1>4, <1>5, <1>8, <2>1 DEF TypeOK, TablesTypeOK
  <2> QED BY <1>2, <1>3, <2>2 DEF TypeOK, TablesTypeOK
<1>11. Formed'
  <2>1. ASSUME NEW q \in Request, Running(q)' PROVE WellFormed(q, dto'[q], script'[q])
    <3>1. CASE q = r
      BY <1>4, <1>5, <1>6, <3>1
    <3>2. CASE q # r
      BY <1>8, <2>1, <3>2 DEF Formed
    <3> QED BY <3>1, <3>2
  <2> QED BY <1>5, <2>1 DEF Formed
<1>12. Passed'
  <2> SUFFICES ASSUME NEW q \in Request, Running(q)', NEW i \in Before(q)'
               PROVE  PassedAt(q, i)'
    BY DEF Passed
  <2>1. q # r
    BY <1>9
  <2>2. PassedAt(q, i)
    BY <1>8, <2>1 DEF Passed
  <2>3. script'[q] = script[q] /\ dto'[q] = dto[q] /\ rows' = rows
    BY <1>2, <1>8, <2>1
  <2> QED BY <2>2, <2>3 DEF PassedAt, Has
<1>13. StillTrue'
  <2> SUFFICES ASSUME NEW q \in Request, Running(q)', q \notin overtaken',
                      NEW i \in Before(q)', NEW j \in (at'[q])..Len(script'[q])
               PROVE  StillTrueAt(q, i, j)'
    BY DEF StillTrue
  <2>1. q # r
    BY <1>9
  <2>2. StillTrueAt(q, i, j)
    BY <1>2, <1>8, <2>1 DEF StillTrue
  <2>3. script'[q] = script[q] /\ rows' = rows /\ revoked' = revoked
    BY <1>2, <1>8, <2>1
  <2> QED BY <2>2, <2>3 DEF StillTrueAt, NoneIn, Revoked
<1>14. \A row \in rows : row.by # r
  <2>1. r # Null
    BY TablesAssumption
  <2> QED BY <1>7, <2>1 DEF RowsWritten
<1>15. \A entry \in revoked : entry.by # r
  BY <1>7 DEF TokensRevoked
<1>16. RowsWritten'
  <2> SUFFICES ASSUME NEW row \in rows, row.by # Null
               PROVE  /\ row.by \in Arrived'
                      /\ Running(row.by)' => \E i \in Before(row.by)' :
                           /\ script'[row.by][i].op \in {"insert", "tryInsert"}
                           /\ script'[row.by][i].key = row.key
    BY <1>2 DEF RowsWritten
  <2>1. row.by \in Request /\ row.by # r /\ row.by \in Arrived'
    BY <1>7, <1>14 DEF RowsWritten, Arrived
  <2>2. ASSUME Running(row.by)'
        PROVE  /\ Running(row.by) /\ Before(row.by)' = Before(row.by)
               /\ script'[row.by] = script[row.by]
    <3>1. ASSUME NEW q \in Request, q # r, Running(q)'
          PROVE  Running(q) /\ Before(q)' = Before(q) /\ script'[q] = script[q]
      BY <1>8, <3>1
    <3> QED BY <2>1, <2>2, <3>1
  <2> QED BY <2>1, <2>2 DEF RowsWritten
<1>17. TokensRevoked'
  <2> SUFFICES ASSUME NEW entry \in revoked
               PROVE  /\ entry.by \in Arrived'
                      /\ Running(entry.by)' =>
                           \E i \in Before(entry.by)' : script'[entry.by][i].op = "revoke"
    BY <1>2 DEF TokensRevoked
  <2>1. entry.by \in Request /\ entry.by # r /\ entry.by \in Arrived'
    BY <1>7, <1>15 DEF TokensRevoked, Arrived
  <2>2. ASSUME Running(entry.by)'
        PROVE  /\ Running(entry.by) /\ Before(entry.by)' = Before(entry.by)
               /\ script'[entry.by] = script[entry.by]
    <3>1. ASSUME NEW q \in Request, q # r, Running(q)'
          PROVE  Running(q) /\ Before(q)' = Before(q) /\ script'[q] = script[q]
      BY <1>8, <3>1
    <3> QED BY <2>1, <2>2, <3>1
  <2> QED BY <2>1, <2>2 DEF TokensRevoked
<1>18. Linked' /\ OwnTokens' /\ ReferencesInTenant'
  BY <1>2 DEF Linked, OwnTokens, ReferencesInTenant, Has
<1>19. HoldersThere'
  <2> SUFFICES ASSUME NEW q \in Request, Running(q)', dto'[q].kind = "Refresh",
                      NEW i \in DOMAIN script'[q], script'[q][i].op = "insert",
                      NEW ref \in script'[q][i].refs
               PROVE  Has(ref)
    BY <1>2 DEF HoldersThere, Has
  <2>1. CASE q = r
    <3>1. ref \in HoldersOf(d.token)
      BY <1>3, <1>4, <1>5, <2>1, ScriptFormed
    <3>2. \E link \in links : link[2] = ref
      BY <3>1 DEF HoldersOf, Referred
    <3> QED BY <3>2 DEF Linked
  <2>2. CASE q # r
    BY <1>8, <2>2 DEF HoldersThere
  <2> QED BY <2>1, <2>2
<1>20. EntriesBalanced'
  <2>1. ASSUME NEW row \in rows, row.by # Null PROVE dto'[row.by] = dto[row.by]
    <3>1. row.by \in Request /\ row.by # r
      BY <1>14, <2>1 DEF RowsWritten, Arrived
    <3> QED BY <1>4, <3>1
  <2> QED BY <1>2, <2>1 DEF EntriesBalanced
<1>21. OneFirstUserUnlessOvertaken' /\ TokenSpentOnceUnlessOvertaken'
  BY <1>2 DEF OneFirstUserUnlessOvertaken, TokenSpentOnceUnlessOvertaken
<1>22. UnsuccessfulLeavesNothing'
  <2> SUFFICES ASSUME NEW q \in Request, status'[q] \in {"refused", "failed"}
               PROVE  LeavesNothing(q)'
    BY DEF UnsuccessfulLeavesNothing, LeavesNothing
  <2>1. q # r /\ status'[q] = status[q] /\ dto'[q] = dto[q]
    BY <1>4
  <2>2. LeavesNothing(q)
    BY <2>1 DEF UnsuccessfulLeavesNothing, LeavesNothing
  <2> QED BY <1>2, <2>1, <2>2 DEF LeavesNothing, DefaultTaken, Deviceless, Referred
<1>23. IsFiniteSet(Arrived)'
  BY <1>7, FS_AddElement
<1>24. FoundThere'
  <2>1. found[r] = {}
    BY <1>2 DEF FoundThere
  <2>2. \A q \in Request : status'[q] = "idle" => status[q] = "idle"
    BY <1>4
  <2> QED BY <1>2, <1>8, <2>1, <2>2 DEF FoundThere, Has
<1>25. TokenKnown'
  <2>1. d.kind = "Refresh" => d.token.table = "RefreshToken" /\ Has(d.token)
    <3> SUFFICES ASSUME d.kind = "Refresh"
                 PROVE  d.token.table = "RefreshToken" /\ Has(d.token)
      OBVIOUS
    <3>1. Has(d.token)
      BY <1>1 DEF Sendable
    <3>2. d \in RefreshDto
      BY DtoKinds
    <3> QED BY <3>1, <3>2 DEF RefreshDto, KeyOf
  <2>2. \A q \in Arrived' : q = r \/ (q \in Arrived /\ dto'[q] = dto[q])
    BY <1>4, <1>7 DEF Arrived
  <2> QED BY <1>2, <1>4, <2>1, <2>2 DEF TokenKnown, Has
<1>26. PicksDeviceless'
  <2> SUFFICES ASSUME NEW q \in Request, Running(q)',
                      NEW i \in DOMAIN script'[q], script'[q][i].op = "pick"
               PROVE  Deviceless(q)'
    BY DEF PicksDeviceless
  <2>1. CASE q = r
    <3>1. i \in DOMAIN Script(r, d) /\ Script(r, d)[i].op = "pick"
      BY <1>5, <2>1
    <3>2. d.kind = "Refresh"
      BY <1>6, <3>1 DEF WellFormed, UpdatesAndPicks
    <3>3. Referred(d.token, "Device") = {}
      BY <1>3, <3>1, <3>2, ScriptFormed
    <3> QED BY <1>2, <1>4, <2>1, <3>2, <3>3 DEF Deviceless, Referred
  <2>2. CASE q # r
    BY <1>2, <1>8, <2>2 DEF PicksDeviceless, Deviceless, Referred
  <2> QED BY <2>1, <2>2
<1> QED BY <1>10, <1>11, <1>12, <1>13, <1>16, <1>17, <1>18, <1>19, <1>20, <1>21, <1>22, <1>23,
          <1>24, <1>25, <1>26

\* The invariant holds before any request has arrived.
LEMMA RegistryInit ==
  ASSUME TablesInit
  PROVE  RegistryInv
<1> USE DEF TablesInit
<1>1. \A r \in Request : ~Running(r) /\ status[r] = "idle"
  BY DEF Running
<1>2. Arrived = {} /\ IsFiniteSet(Arrived)
  BY <1>1, FS_EmptySet DEF Arrived
<1>3. \A row \in rows : row.by = Null /\ row.key \in Seeded
  OBVIOUS
<1>4. TypeOK
  <2>1. Seeded \subseteq AnyKey
    BY TablesAssumption
  <2>2. rows \subseteq [key : AnyKey, by : Request \cup {Null}]
    BY <2>1
  <2>3. links \subseteq AnyKey \X AnyKey
    <3>1. links \subseteq Seeded \X Seeded
      BY TablesAssumption
    <3> QED BY <2>1, <3>1
  <2>4. found \in [Request -> SUBSET AnyKey]
    OBVIOUS
  <2>5. /\ revoked \subseteq [key : AnyKey, by : Request] /\ overtaken \subseteq Request
        /\ dto \in [Request -> Dto \cup {Null}] /\ at \in [Request -> Nat]
        /\ status \in [Request -> {"idle", "running"} \cup Ended]
    OBVIOUS
  <2> HIDE DEF TablesInit
  <2> QED BY <1>1, <2>2, <2>3, <2>4, <2>5 DEF TypeOK, TablesTypeOK
<1>5. Formed /\ Passed /\ StillTrue /\ HoldersThere
  BY <1>1 DEF Formed, Passed, StillTrue, HoldersThere
<1>6. RowsWritten /\ TokensRevoked /\ EntriesBalanced
  BY <1>3 DEF RowsWritten, TokensRevoked, EntriesBalanced
<1>10. Linked
  <2>1. \A key \in Seeded : \E row \in rows : row.key = key
    <3> SUFFICES ASSUME NEW key \in Seeded PROVE \E row \in rows : row.key = key
      OBVIOUS
    <3>1. [key |-> key, by |-> Null] \in rows
      OBVIOUS
    <3> QED BY <3>1
  <2>2. \A link \in links : link[2] \in Seeded
    BY TablesAssumption
  <2> QED BY <2>1, <2>2 DEF Linked, Has
<1>11. ReferencesInTenant
  BY TablesAssumption DEF ReferencesInTenant
<1>12. FoundThere /\ TokenKnown /\ PicksDeviceless
  BY <1>1, <1>2 DEF FoundThere, TokenKnown, PicksDeviceless
<1>7. OwnTokens
  BY <1>3, TablesAssumption DEF OwnTokens
<1>8. OneFirstUserUnlessOvertaken /\ TokenSpentOnceUnlessOvertaken
  BY <1>3 DEF OneFirstUserUnlessOvertaken, TokenSpentOnceUnlessOvertaken
<1>9. UnsuccessfulLeavesNothing
  BY <1>1 DEF UnsuccessfulLeavesNothing
<1> QED BY <1>2, <1>4, <1>5, <1>6, <1>7, <1>8, <1>9, <1>10, <1>11, <1>12 DEF RegistryInv

\* It speaks of nothing but the variables.
LEMMA RegistryStutters ==
  ASSUME RegistryInv, UNCHANGED vars
  PROVE  RegistryInv'
<1> USE DEF vars, tableVars
<1>1. TypeOK' /\ Formed' /\ Passed' /\ StillTrue' /\ RowsWritten' /\ TokensRevoked'
  BY DEF RegistryInv, TypeOK, TablesTypeOK, Formed, Passed, StillTrue, RowsWritten,
         TokensRevoked, Running, Before, PassedAt, StillTrueAt, NoneIn, Revoked, Has, Arrived
<1>2. IsFiniteSet(Arrived)' /\ Linked' /\ HoldersThere' /\ OwnTokens' /\ EntriesBalanced'
  BY DEF RegistryInv, Linked, HoldersThere, OwnTokens, EntriesBalanced, Running, Has, Arrived
<1>3. /\ ReferencesInTenant' /\ OneFirstUserUnlessOvertaken' /\ UnsuccessfulLeavesNothing'
      /\ TokenSpentOnceUnlessOvertaken'
  BY DEF RegistryInv, ReferencesInTenant, OneFirstUserUnlessOvertaken,
         UnsuccessfulLeavesNothing, TokenSpentOnceUnlessOvertaken, DefaultTaken,
         Deviceless, Referred
<1>4. FoundThere' /\ TokenKnown' /\ PicksDeviceless'
  BY DEF RegistryInv, FoundThere, TokenKnown, PicksDeviceless, Running, Has, Arrived,
         Deviceless, Referred
<1> QED BY <1>1, <1>2, <1>3, <1>4 DEF RegistryInv

\* The inductive invariant holds in every behaviour of the services that register
\* companies, users, catalogue, accounts and sessions.
THEOREM Invariant == Spec => []RegistryInv
<1>1. TablesInit => RegistryInv
  BY RegistryInit
<1>2. RegistryInv /\ [Next]_vars => RegistryInv'
  <2> SUFFICES ASSUME RegistryInv, [Next]_vars PROVE RegistryInv'
    OBVIOUS
  <2>1. ASSUME NEW r \in Request, Arrive(r) PROVE RegistryInv'
    BY <2>1, ArriveStep
  <2>2. ASSUME NEW r \in Request, Execute(r) \/ Interrupted(r) PROVE RegistryInv'
    BY <2>2, Steps, QuietStep, AddStep, RevokeStep
  <2>3. CASE UNCHANGED vars
    BY <2>3, RegistryStutters
  <2> QED BY <2>1, <2>2, <2>3 DEF Next, AtRest
<1> QED BY <1>1, <1>2, PTL DEF Spec

\* Whatever ids the requests carry, and however their handlers interleave, no row
\* comes to refer to another company's: not the device that a login inserts or gives
\* another user, not the token that a refresh issues to the device of its user, not
\* a document.  The where clauses of the services name the tenant of the request;
\* the one column that none of them checks, `createdById` of a journal entry, is
\* excepted here (accounting.service.ts:94).
THEOREM ReferencesStay == Spec => []ReferencesInTenant
<1>1. RegistryInv => ReferencesInTenant
  BY DEF RegistryInv
<1> QED BY <1>1, Invariant, PTL

\* createUser gives a company a second user only if another registration came
\* between its count and its insert.
THEOREM OneFirstUser == Spec => []OneFirstUserUnlessOvertaken
<1>1. RegistryInv => OneFirstUserUnlessOvertaken
  BY DEF RegistryInv
<1> QED BY <1>1, Invariant, PTL

\* A request that is answered with an error has inserted no row, unless it is a
\* createCompany or createBranch whose default row was taken by another row of the
\* very same key; and has revoked no token, unless it is a refresh with a token
\* without a device (AuthService.refresh revokes it before it looks for one).
THEOREM NothingLeft == Spec => []UnsuccessfulLeavesNothing
<1>1. RegistryInv => UnsuccessfulLeavesNothing
  BY DEF RegistryInv
<1> QED BY <1>1, Invariant, PTL

\* AuthService.refresh and logout: a refresh token is spent twice only if both
\* read it before either revoked it.
THEOREM TokensSpentOnce == Spec => []TokenSpentOnceUnlessOvertaken
<1>1. RegistryInv => TokenSpentOnceUnlessOvertaken
  BY DEF RegistryInv
<1> QED BY <1>1, Invariant, PTL

-----------------------------------------------------------------------------
\* The debit less the credit of an entry that passed the check: a number, and
\* within the tolerance.
LEMMA BalanceOfEntry ==
  ASSUME NEW d \in JournalEntryDto, Balanced(d.lines)
  PROVE  LET x == TotalDebit(d.lines) - TotalCredit(d.lines)
         IN  x \in Int /\ -Tolerance <= x /\ x <= Tolerance
<1> DEFINE lines == d.lines
           debits  == [i \in DOMAIN lines |-> lines[i].debit]
           credits == [i \in DOMAIN lines |-> lines[i].credit]
<1>1. lines \in Seq(JournalLine)
  BY DEF JournalEntryDto
<1>2. Len(lines) \in Nat /\ DOMAIN lines = 1..Len(lines)
  BY <1>1, LenProperties
<1>3. \A i \in DOMAIN lines : lines[i] \in JournalLine
  BY <1>1, <1>2, ElementOfSeq
<1>4. \A i \in DOMAIN lines : lines[i].debit \in Int /\ lines[i].credit \in Int
  BY <1>3 DEF JournalLine
<1>5. IsFiniteSet(DOMAIN lines)
  BY <1>2, FS_Interval
<1>6. /\ DOMAIN debits = DOMAIN lines /\ DOMAIN credits = DOMAIN lines
      /\ \A i \in DOMAIN lines : debits[i] \in Int /\ credits[i] \in Int
  BY <1>4
<1> HIDE DEF debits, credits
<1>7. SumFunctionOnSet(debits, DOMAIN lines) \in Int
  BY <1>5, <1>6, SumInt
<1>8. SumFunctionOnSet(credits, DOMAIN lines) \in Int
  BY <1>5, <1>6, SumInt
<1>9. TotalDebit(lines) \in Int
  BY <1>6, <1>7 DEF TotalDebit, SumFunction, debits
<1>10. TotalCredit(lines) \in Int
  BY <1>6, <1>8 DEF TotalCredit, SumFunction, credits
<1>11. Tolerance \in Int
  BY GeneralLedgerAssumption
<1> HIDE DEF lines
<1>12. Balanced(lines)
  BY DEF lines
<1>13. /\ TotalDebit(lines) - TotalCredit(lines) \in Int
       /\ -Tolerance <= TotalDebit(lines) - TotalCredit(lines)
       /\ TotalDebit(lines) - TotalCredit(lines) <= Tolerance
  BY <1>9, <1>10, <1>11, <1>12 DEF Balanced
<1> QED BY <1>13 DEF lines

\* A sum of entries that are each within the tolerance.
LEMMA BooksWithinTolerance ==
  ASSUME RegistryInv
  PROVE  TrialBalanceWithinTolerance
<1> SUFFICES ASSUME NEW tenant \in Tenant
             PROVE  LET bound == Tolerance * Cardinality(EntriesOf(tenant))
                    IN  TrialBalance(tenant) \in (-bound)..bound
  BY DEF TrialBalanceWithinTolerance
<1> DEFINE E == EntriesOf(tenant)
           f == [r \in E |-> TotalDebit(dto[r].lines) - TotalCredit(dto[r].lines)]
<1>1. \A r \in E : \E row \in rows : row.by = r /\ row.by # Null /\ row.key.table = "JournalEntry"
  BY DEF EntriesOf
<1>2. E \subseteq Arrived
  BY <1>1 DEF RegistryInv, RowsWritten
<1>3. IsFiniteSet(E)
  BY <1>2, FS_Subset DEF RegistryInv
<1>4. \A r \in E : dto[r] \in JournalEntryDto /\ Balanced(dto[r].lines)
  BY <1>1 DEF RegistryInv, EntriesBalanced
<1>5. \A r \in E : LET x == TotalDebit(dto[r].lines) - TotalCredit(dto[r].lines)
                   IN  x \in Int /\ -Tolerance <= x /\ x <= Tolerance
  BY <1>4, BalanceOfEntry
<1>6. DOMAIN f = E /\ \A r \in E : f[r] \in Int /\ -Tolerance <= f[r] /\ f[r] <= Tolerance
  BY <1>5
<1>7. TrialBalance(tenant) = SumFunctionOnSet(f, E)
  BY <1>6 DEF TrialBalance, SumFunction
<1> HIDE DEF f, E
<1>8. Tolerance \in Nat
  BY GeneralLedgerAssumption
<1>9. SumFunctionOnSet(f, E) \in Int
  BY <1>3, <1>6, SumInt
<1>10. LET bound == Tolerance * Cardinality(E)
       IN  -bound <= SumFunctionOnSet(f, E) /\ SumFunctionOnSet(f, E) <= bound
  BY <1>3, <1>6, <1>8, SumAtMost
<1>11. Cardinality(E) \in Nat /\ Tolerance * Cardinality(E) \in Int
  BY <1>3, <1>8, FS_CardinalityType
<1>12. SumFunctionOnSet(f, E) \in (-(Tolerance * Cardinality(E)))..(Tolerance * Cardinality(E))
  BY <1>9, <1>10, <1>11
<1> QED BY <1>7, <1>12 DEF E

\* The journal entries of a company, whoever made them, are out of balance by no
\* more than the tolerance that createJournalEntry leaves each of them.
THEOREM BooksBalanced == Spec => []TrialBalanceWithinTolerance
<1>1. RegistryInv => TrialBalanceWithinTolerance
  BY BooksWithinTolerance
<1> QED BY <1>1, Invariant, PTL
=============================================================================
