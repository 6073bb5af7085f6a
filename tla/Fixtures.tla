-------------------------------- MODULE Fixtures --------------------------------
(***************************************************************************)
(* From the decision matrix to rows in the database and on: the reader     *)
(* that refuses a matrix (purchase_to_pay/fixtures.py), the rendering that *)
(* numbers its fixtures, the load of that rendering (tests/fixtures.py),   *)
(* and the identifiers the tools mint after it (repository.py).            *)
(*                                                                         *)
(* An identifier is text: here a sequence of digits, in some base and      *)
(* padded to some width, which are ten and four in the code.  The tables   *)
(* of the organisation (cost centres, vendors, people) are never written   *)
(* here, so they are constants.                                            *)
(***************************************************************************)
EXTENDS Policy, Integers, Sequences

CONSTANTS
  Base, Width,  \* of an identifier's number
  Vendors,      \* rows of the vendor table
  AmountLimit,  \* in hundredths, the least amount numeric(12, 2) cannot hold
  Entries,      \* rows an author may write
  MaxRows,      \* bound: rows of a matrix
  MaxMints      \* bound: requisitions submitted since the load

ASSUME BaseAssumption == Base \in Nat \ {0, 1} /\ Width \in Nat \ {0}

ASSUME LimitAssumption == AmountLimit \in Nat \ {0}

\* A row gives one fixture or none, with an amount in thousandths.
ASSUME EntriesAssumption ==
  \A e \in Entries : \A g, h \in e.given : g = h /\ g.amount \in Int

VARIABLES
  phase,     \* reading, refused, loaded or unloadable
  matrix,    \* the rows read_matrix has accepted, as far as fixtures go
  tables,    \* the database
  ceiling,   \* at_the_ceiling is under way
  collided   \* history: an insert met its own identifier in the table

vars == <<phase, matrix, tables, ceiling, collided>>

None == "none"
NoTables == [requisition |-> {}, purchase_order |-> {}, invoice |-> {}]

-----------------------------------------------------------------------------
(* Identifiers *)

\* n in decimal: in the base, without leading zeros.
Digits[n \in Nat] ==
  IF n < Base THEN <<n>> ELSE Append(Digits[n \div Base], n % Base)

\* Mutant: no padding.
PadNot(digits, width) == digits

\* Zeros in front, up to a width.
Pad(digits, width) == [i \in 1..(width - Len(digits)) |-> 0] \o digits

Greatest(a, b) == IF a < b THEN b ELSE a

\* Postgres's lpad, which cuts what is too long down to the width, from its right.
lpad(digits, width) ==
  IF Len(digits) > width THEN SubSeq(digits, 1, width) ELSE Pad(digits, width)

\* f"{ordinal:04d}": a width is a least width.
_identifier(ordinal) == Pad(Digits[ordinal], Width)

\* (substring(id from '[0-9]+$'))::integer
Prefixes(id) ==
  LET number[i \in 0..Len(id)] == IF i = 0 THEN 0 ELSE number[i - 1] * Base + id[i]
  IN  number
Number(id) == Prefixes(id)[Len(id)]

Ids(table) == {row.id : row \in table}

\* Mutant: the width is four, whatever the number (before issue 84).
_next_identifier_cut(table) ==
  LET number == Digits[Max({Number(id) : id \in Ids(table)} \cup {0}) + 1]
  IN  lpad(number, Width)

\* Mutant: the mint's width has drifted from the rendering's.
_next_identifier_drifted(table) ==
  LET number == Digits[Max({Number(id) : id \in Ids(table)} \cup {0}) + 1]
  IN  lpad(number, Greatest(Width - 1, Len(number)))

\* The mint: one more than the greatest number in the table.
_next_identifier(table) ==
  LET number == Digits[Max({Number(id) : id \in Ids(table)} \cup {0}) + 1]
  IN  lpad(number, Greatest(Width, Len(number)))

-----------------------------------------------------------------------------
(* read_matrix *)

STATUSES == {"submitted", "approved", "rejected"}
ORDER_STATUSES == {"open", "invoiced"}

_HYDRATES == {"get_requisition", "approve_requisition", "record_invoice"}

\* Mutant: an approver is not asked for.
GivenIsRefusedLess(g) ==
  \/ ~g.as_declared
  \/ g.status \notin STATUSES
  \/ (g.order_status # None) # (g.approved_by # None)
  \/ g.order_status \notin ORDER_STATUSES \cup {None}
  \/ (g.recorded_by # None) # (g.order_status = "invoiced")
  \/ g.amount <= 0

\* _given: its field set, its statuses, its three chain implications, its amount.
GivenIsRefused(g) ==
  \/ ~g.as_declared
  \/ g.status \notin STATUSES
  \/ (g.approved_by # None) # (g.status = "approved")
  \/ (g.order_status # None) # (g.approved_by # None)
  \/ g.order_status \notin ORDER_STATUSES \cup {None}
  \/ (g.recorded_by # None) # (g.order_status = "invoiced")
  \/ g.amount <= 0

\* _key_owned_by: the per-tool fact a permitted row of that tool states.
_key_owned_by(tool) ==
  CASE tool = "list_requisitions"  -> {"visible_partitions"}
    [] tool = "submit_requisition" -> {"charged_to"}
    [] tool \in _HYDRATES          -> {}
    [] OTHER                       -> {"tools"}

\* _expect: a decision, a reason just when it refuses, the one fact that is due.
ExpectIsRefused(e) ==
  \/ e.decision \notin {"permitted", "refused"}
  \/ (e.decision = "permitted") # (e.reason = None)
  \/ e.facts # IF e.decision = "permitted" THEN _key_owned_by(e.tool) ELSE {}

RowIsRefused(e) ==
  \/ \E i \in DOMAIN matrix : matrix[i].id = e.id
  \/ \E g \in e.given : GivenIsRefused(g)
  \/ e.given # {} /\ e.tool \notin _HYDRATES
  \/ ExpectIsRefused(e)

\* The author starts over.
Rewrite ==
  /\ phase \in {"refused", "unloadable"}
  /\ phase' = "reading" /\ matrix' = << >>
  /\ UNCHANGED <<tables, ceiling, collided>>

\* One row after another, and the first that is refused ends the reading.
read_matrix ==
  /\ phase = "reading" /\ Len(matrix) < MaxRows
  /\ \E e \in Entries :
       IF RowIsRefused(e)
       THEN phase' = "refused" /\ UNCHANGED matrix
       ELSE matrix' = Append(matrix, [id |-> e.id, given |-> e.given]) /\ UNCHANGED phase
  /\ UNCHANGED <<tables, ceiling, collided>>

-----------------------------------------------------------------------------
(* fixtures_for, and the load *)

Given(i) == CHOOSE g \in matrix[i].given : TRUE

Requisitioned == {i \in DOMAIN matrix : matrix[i].given # {}}
Ordered == {i \in Requisitioned : Given(i).approved_by # None}
Billed == {i \in Ordered : Given(i).recorded_by # None}

\* Mutant: the counter is read once the matrix is through.
OrdinalLate(owners, i) == Cardinality(owners)

\* A row's place among those before it that own a fixture of that kind.
Ordinal(owners, i) == Cardinality({j \in owners : j <= i})

\* numeric(12, 2): an amount in thousandths is rounded to the hundredth.
Stored(amount) == (amount + 5) \div 10

\* Each kind is numbered on its own, and links name the identifiers just given.
fixtures_for ==
  [requisition    |-> {[row    |-> matrix[i].id,
                        id     |-> _identifier(Ordinal(Requisitioned, i)),
                        amount |-> Stored(Given(i).amount),
                        status |-> Given(i).status] : i \in Requisitioned},
   purchase_order |-> {[row            |-> matrix[i].id,
                        id             |-> _identifier(Ordinal(Ordered, i)),
                        requisition_id |-> _identifier(Ordinal(Requisitioned, i)),
                        status         |-> Given(i).order_status] : i \in Ordered},
   invoice        |-> {[row               |-> matrix[i].id,
                        id                |-> _identifier(Ordinal(Billed, i)),
                        purchase_order_id |-> _identifier(Ordinal(Ordered, i))]
                         : i \in Billed}]

\* The keys within the chain: no identifier and no link twice, and every link resolves.
KeysHold(t) ==
  /\ \A name \in DOMAIN t : \A a, b \in t[name] : a.id = b.id => a = b
  /\ \A a, b \in t.purchase_order : a.requisition_id = b.requisition_id => a = b
  /\ \A a, b \in t.invoice : a.purchase_order_id = b.purchase_order_id => a = b
  /\ \A o \in t.purchase_order : o.requisition_id \in Ids(t.requisition)
  /\ \A b \in t.invoice : b.purchase_order_id \in Ids(t.purchase_order)

\* What the schema asks of one row's fixtures: an amount that rounds to more than
\* nothing and fits its column, a cost centre, a vendor and people it knows, and
\* texts PostgreSQL stores (none with a NUL in it).
DatabaseTakes(g) ==
  /\ g.storable
  /\ Stored(g.amount) > 0 /\ Stored(g.amount) < AmountLimit
  /\ g.cost_centre \in Partitions /\ g.vendor \in Vendors
  /\ {g.submitted_by, g.approved_by, g.recorded_by} \ {None} \subseteq People

\* load: wipes the chain and inserts the rendering, in one transaction.
load ==
  /\ phase \in {"reading", "loaded"} /\ Requisitioned # {}
  /\ IF KeysHold(fixtures_for) /\ \A i \in Requisitioned : DatabaseTakes(Given(i))
     THEN phase' = "loaded" /\ tables' = fixtures_for
     ELSE phase' = "unloadable" /\ UNCHANGED tables
  /\ ceiling' = FALSE
  /\ UNCHANGED <<matrix, collided>>

\* The greatest number of that width.
ABSENT == [i \in 1..Width |-> Base - 1]

\* at_the_ceiling: a whole chain under the last number that fits the width.
at_the_ceiling ==
  /\ phase = "loaded" /\ ~ceiling
  /\ ABSENT \notin Ids(tables.requisition)
  /\ tables' =
       [requisition    |-> tables.requisition \cup
          {[row |-> None, id |-> ABSENT, amount |-> 1, status |-> "approved"]},
        purchase_order |-> tables.purchase_order \cup
          {[row |-> None, id |-> ABSENT, requisition_id |-> ABSENT, status |-> "invoiced"]},
        invoice        |-> tables.invoice \cup
          {[row |-> None, id |-> ABSENT, purchase_order_id |-> ABSENT]}]
  /\ ceiling' = TRUE
  /\ UNCHANGED <<phase, matrix, collided>>

-----------------------------------------------------------------------------
(* What the tools write after the load, as far as identifiers go *)

\* An insert that meets its identifier fails, and its transaction with it.
Committed(t, name, id) ==
  /\ phase = "loaded"
  /\ IF id \in Ids(tables[name])
     THEN collided' = TRUE /\ UNCHANGED tables
     ELSE tables' = t /\ UNCHANGED collided
  /\ UNCHANGED <<phase, matrix, ceiling>>

insert ==
  LET id == _next_identifier(tables.requisition) IN
  /\ Cardinality({q \in tables.requisition : q.row = None /\ q.id # ABSENT}) < MaxMints
  /\ Committed([tables EXCEPT !.requisition = @ \cup
                  {[row |-> None, id |-> id, amount |-> 1, status |-> "submitted"]}],
               "requisition", id)

decide ==
  LET id == _next_identifier(tables.purchase_order) IN
  \E q \in tables.requisition :
    /\ q.status = "submitted"
    /\ Committed([tables EXCEPT
                    !.requisition = (@ \ {q}) \cup {[q EXCEPT !.status = "approved"]},
                    !.purchase_order = @ \cup
                      {[row |-> None, id |-> id, requisition_id |-> q.id,
                        status |-> "open"]}],
                 "purchase_order", id)

bill ==
  LET id == _next_identifier(tables.invoice) IN
  \E o \in tables.purchase_order :
    /\ o.status = "open"
    /\ Committed([tables EXCEPT
                    !.purchase_order = (@ \ {o}) \cup {[o EXCEPT !.status = "invoiced"]},
                    !.invoice = @ \cup
                      {[row |-> None, id |-> id, purchase_order_id |-> o.id]}],
                 "invoice", id)

Init ==
  /\ phase = "reading" /\ matrix = << >> /\ tables = NoTables
  /\ ceiling = FALSE /\ collided = FALSE

Next ==
  \/ read_matrix \/ Rewrite \/ load
  \/ at_the_ceiling
  \/ insert \/ decide \/ bill

Spec == Init /\ [][Next]_vars

-----------------------------------------------------------------------------
(* Properties *)

IsText(id) == id \in Seq(0..(Base - 1)) /\ Len(id) >= Width

TypeOK ==
  /\ phase \in {"reading", "refused", "loaded", "unloadable"}
  /\ \A i \in DOMAIN matrix :
       \E e \in Entries : e.id = matrix[i].id /\ e.given = matrix[i].given
  /\ DOMAIN tables = {"requisition", "purchase_order", "invoice"}
  /\ \A name \in DOMAIN tables : \A id \in Ids(tables[name]) : IsText(id)
  /\ ceiling \in BOOLEAN /\ collided \in BOOLEAN

\* Every matrix that is accepted loads as whole chains, and what is minted after
\* it leaves them whole: a requisition has its order just when it is approved, an
\* order its invoice just when it is invoiced.
ChainsAreWhole ==
  /\ KeysHold(tables)
  /\ \A q \in tables.requisition :
       q.status = "approved" <=> \E o \in tables.purchase_order : o.requisition_id = q.id
  /\ \A o \in tables.purchase_order :
       o.status = "invoiced" <=> \E b \in tables.invoice : b.purchase_order_id = o.id

\* The numbering never repeats a key nor leaves a link open: an accepted matrix the
\* database does not take has a row it would refuse by itself, for an amount, a
\* cost centre, a vendor, a person or a text read_matrix does not look into.
OnlyRowsAreUnloadable ==
  phase = "unloadable" => \E i \in Requisitioned : ~ DatabaseTakes(Given(i))

\* A mint never meets its own identifier, whatever was loaded before it, at the
\* number that outgrows the width as at any other.
NoMintCollides == ~collided

\* An identifier is the one way to write its number: what the rendering numbered
\* and what the mint numbered are told apart by nothing.
OneTextPerNumber ==
  \A name \in DOMAIN tables : \A id \in Ids(tables[name]) : id = _identifier(Number(id))

Lexically(a, b) ==
  \/ Len(a) < Len(b) /\ SubSeq(b, 1, Len(a)) = a
  \/ \E i \in DOMAIN a \cap DOMAIN b :
       a[i] < b[i] /\ SubSeq(a, 1, i - 1) = SubSeq(b, 1, i - 1)

\* ORDER BY id is the order of minting, for as long as a number fits the width.
SortedWhileItFits ==
  \A a, b \in Ids(tables.requisition) :
    Number(a) < Number(b) /\ Len(b) <= Width => Lexically(a, b)

Resource(g) ==
  [partition |-> g.cost_centre, submitted_by |-> g.submitted_by,
   approved_by |-> g.approved_by, amount |-> g.amount]

\* fixtures.py, read_matrix: "refusing what no run of the tools could produce".
\* What a submitter raised is charged to its own cost centre, and the approver
\* and the recorder are people whose calls the policy permits.
EveryFixtureIsReachable ==
  phase = "loaded" => \A i \in Requisitioned :
    LET g == Given(i) IN
    /\ g.cost_centre = Directory[g.submitted_by].partition
    /\ g.approved_by # None =>
         decide_item(Principal(g.approved_by, Scopes), ApproveAction, Resource(g)) = Permitted
    /\ g.recorded_by # None =>
         decide_item(Principal(g.recorded_by, Scopes), RecordAction, Resource(g)) = Permitted
=============================================================================
