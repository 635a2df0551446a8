---------------------------- MODULE AtomicLedger ----------------------------
(***************************************************************************)
(* What the services that move stock and money promise of the movements    *)
(* and party transactions they keep: an order is entered in the book whole *)
(* and once, in one step, or never.  How many statements it takes, what    *)
(* runs beside it and what fails on the way does not show.                 *)
(***************************************************************************)
EXTENDS Integers

CONSTANTS
  Request, Order, Row,
  Start,         \* the book when the model starts
  Effect(_, _),  \* what an order adds to a row
  Counted(_)     \* the rows where that depends on the balance the order finds

VARIABLES
  book,      \* the sum of the entries of each row
  recorded   \* the orders entered so far, each with its request

Init == book = Start /\ recorded = {}

Record(r, o) ==
  /\ \A entry \in recorded : entry[1] # r
  /\ recorded' = recorded \cup {<<r, o>>}
  /\ \A row \in Row \ Counted(o) : book'[row] = book[row] + Effect(o, row)

Next == \E r \in Request, o \in Order : Record(r, o)

Spec == Init /\ [][Next]_<<book, recorded>>
=============================================================================
