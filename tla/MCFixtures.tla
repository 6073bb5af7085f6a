------------------------------ MODULE MCFixtures ------------------------------
(***************************************************************************)
(* Small instances of Fixtures.  In base three and padded to two digits,   *)
(* nine is the number that outgrows the width.                             *)
(***************************************************************************)
EXTENDS Fixtures

MCDirectory ==
  [p \in People |-> [partition |-> "c1", roles |-> {"approver", "invoice_clerk"}]]

\* Every fixture block over two people, right and wrong.
Givens ==
  [as_declared : {TRUE}, storable : {TRUE}, cost_centre : {"c1"}, vendor : {"v1"},
   submitted_by : {"alice"},
   status : STATUSES \cup {"draft"}, approved_by : {"bob", None},
   order_status : ORDER_STATUSES \cup {"paid", None}, recorded_by : {"bob", None},
   amount : {0, 1000}]

OddGiven ==
  [as_declared |-> FALSE, storable |-> TRUE, cost_centre |-> "c1", vendor |-> "v1",
   submitted_by |-> "alice",
   status |-> "submitted", approved_by |-> None, order_status |-> None,
   recorded_by |-> None, amount |-> 1000]

PlainGiven == [OddGiven EXCEPT !.as_declared = TRUE]

\* What _given accepts and the database does not: an amount that rounds to nothing
\* or up to the limit, names no table has, and a text it cannot store.  The amount
\* just under the limit is taken.
OddAmounts == {[PlainGiven EXCEPT !.amount = a] : a \in {4, 1994, 1995}}

OddNames ==
  {[PlainGiven EXCEPT !.cost_centre = "nowhere"], [PlainGiven EXCEPT !.vendor = "nobody"],
   [PlainGiven EXCEPT !.submitted_by = "zoe"], [PlainGiven EXCEPT !.storable = FALSE],
   [PlainGiven EXCEPT !.status = "approved", !.approved_by = "zoe", !.order_status = "open"],
   [PlainGiven EXCEPT !.status = "approved", !.approved_by = "bob",
                      !.order_status = "invoiced", !.recorded_by = "zoe"]}

\* Submitted, approved and recorded by one person.
SelfGiven ==
  [PlainGiven EXCEPT !.status = "approved", !.approved_by = "alice",
                     !.order_status = "invoiced", !.recorded_by = "alice"]

\* Rows that own a fixture, and rows that own none with every expectation.
MCEntries ==
  [id : {"row1", "row2"}, tool : {"get_requisition"},
   given : {{g} : g \in Givens \cup {OddGiven, SelfGiven} \cup OddAmounts \cup OddNames},
   decision : {"permitted"}, reason : {None}, facts : {{}}]
  \cup
  [id : {"row1"}, tool : {"list_requisitions", "get_requisition", "tools/list"},
   given : {{}, {PlainGiven}},
   decision : {"permitted", "refused", "maybe"}, reason : {None, "not_found"},
   facts : {{}, {"tools"}, {"visible_partitions"}, {"charged_to"}}]
=============================================================================
