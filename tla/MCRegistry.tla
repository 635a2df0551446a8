----------------------------- MODULE MCRegistry -----------------------------
(* An instance of Registry for TLC: one company at work, t1, another whose rows
   the first must not reach, t2, and one that is being founded, t3.          *)
EXTENDS Registry, TLC

CONSTANTS t1, t2, t3, a, b, main

Unit1     == Key("Unit", t1, a)
Unit2     == Key("Unit", t2, a)
Category1 == Key("Category", t1, a)
Brand1    == Key("Brand", t1, a)
Cash      == Key("Account", t1, a)
Sales     == Key("Account", t1, b)
User1     == Key("User", t1, a)
User2     == Key("User", t2, a)
User4     == Key("User", t1, b)
Token1    == Key("RefreshToken", t1, a)
Branch1   == Key("Branch", t1, main)
Branch3   == Key("Branch", t3, main)
View      == Key("Permission", Null, a)
Unknown   == Key("Permission", Null, b)

MCSeeded == {Key("Company", t1, main), Key("Company", t2, main), Branch1, View,
             User1, User2, User4, Token1, Unit1, Unit2, Category1, Brand1, Cash, Sales}

\* The token's device was deleted from the database; one of the users is at the branch.
MCSeededLinks == {<<User1, Branch1>>, <<Token1, User1>>}

Debit(account, amount)  == [account |-> account, debit |-> amount, credit |-> 0]
Credit(account, amount) == [account |-> account, debit |-> 0, credit |-> amount]
EntryOf(lines, user, number) ==
  [kind |-> "JournalEntry", tenant |-> t1, lines |-> lines, user |-> user, number |-> number]
ProductOf(sku, barcode, category, brand, unit) ==
  [kind |-> "Product", tenant |-> t1, sku |-> sku, barcode |-> barcode,
   category |-> category, brand |-> brand, unit |-> unit]

Founding == {
  [kind |-> "Company", tenant |-> t3],
  [kind |-> "User", tenant |-> t3, email |-> a, branch |-> {}],
  [kind |-> "User", tenant |-> t3, email |-> Null, branch |-> {Branch3}],
  [kind |-> "User", tenant |-> t1, email |-> Null, branch |-> {Branch1}]}

Organising == {
  [kind |-> "Branch", tenant |-> t1, code |-> b],
  [kind |-> "Warehouse", tenant |-> t1, code |-> DefaultCode(b), branch |-> {Key("Branch", t1, b)}],
  [kind |-> "Role", tenant |-> t1, name |-> a, permissions |-> {View}],
  [kind |-> "Role", tenant |-> t1, name |-> a, permissions |-> {View, Unknown}]}

Stocking == {
  [kind |-> "Category", tenant |-> t1, name |-> b],
  ProductOf(a, a, {Category1}, {Brand1}, {Unit1}),
  ProductOf(b, a, {}, {}, {Unit1}), ProductOf(b, Null, {}, {}, {Unit2}),
  [kind |-> "Customer", tenant |-> t1, id |-> a]}

\* Entries that are out by the tolerance in one direction, out by more in the
\* other, and made by the user of another company.
Accounting == {
  [kind |-> "Account", tenant |-> t1, code |-> main, parent |-> {Cash}],
  [kind |-> "Expense", tenant |-> t1, amount |-> 3, user |-> {User1}],
  EntryOf(<<Debit(Cash, 3), Credit(Sales, 2)>>, {User1}, a),
  EntryOf(<<Debit(Cash, 3), Credit(Sales, 2)>>, {User2}, b),
  EntryOf(<<Debit(Cash, 1), Credit(Sales, 3)>>, {}, b)}

Entering ==
  {[kind |-> "Login", tenant |-> t1, user |-> user, device |-> a] : user \in {User1, User4}}
  \cup {[kind |-> "Refresh", tenant |-> t1, token |-> Key("RefreshToken", t1, r)] :
          r \in Request \cup {a}}
  \cup {[kind |-> "Logout", tenant |-> t1, token |-> Token1]}

MCDto == Founding \cup Organising \cup Stocking \cup Accounting \cup Entering

AnyRequest == Permutations(Request)
=============================================================================
