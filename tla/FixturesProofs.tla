---------------------------- MODULE FixturesProofs ----------------------------
(***************************************************************************)
(* From an accepted matrix to whole chains, and what the mint adds to them *)
(* for as long as it is let: for any base and width of an identifier, any  *)
(* rows an author may write and any number of them.                        *)
(***************************************************************************)
EXTENDS IdentifierProofs

-----------------------------------------------------------------------------
(* The inductive invariant *)

\* A database as the actions build one, its rows whole records.
Shaped(t) ==
  /\ t = [requisition |-> t.requisition, purchase_order |-> t.purchase_order,
          invoice |-> t.invoice]
  /\ \A q \in t.requisition :
       q = [row |-> q.row, id |-> q.id, amount |-> q.amount, status |-> q.status]
  /\ \A o \in t.purchase_order :
       o = [row |-> o.row, id |-> o.id, requisition_id |-> o.requisition_id,
            status |-> o.status]

Keyed(table) == \A a, b \in table : a.id = b.id => a = b

\* Each requisition's order, each order's invoice, and nothing beside them.
OrdersFit(t) ==
  /\ \A a, b \in t.purchase_order : a.requisition_id = b.requisition_id => a = b
  /\ \A o \in t.purchase_order : o.requisition_id \in Ids(t.requisition)
  /\ \A q \in t.requisition :
       q.status = "approved" <=> \E o \in t.purchase_order : o.requisition_id = q.id

InvoicesFit(t) ==
  /\ \A a, b \in t.invoice : a.purchase_order_id = b.purchase_order_id => a = b
  /\ \A b \in t.invoice : b.purchase_order_id \in Ids(t.purchase_order)
  /\ \A o \in t.purchase_order :
       o.status = "invoiced" <=> \E b \in t.invoice : b.purchase_order_id = o.id

Whole(t) ==
  /\ Keyed(t.requisition) /\ Keyed(t.purchase_order) /\ Keyed(t.invoice)
  /\ OrdersFit(t) /\ InvoicesFit(t)

\* The identifiers of a table are texts of numbers, none beyond some number; and
\* as the rendering and the mint leave them, of every number from one on.
Texts(n) == {_identifier(k) : k \in 1..n}
Written(table) == \E n \in Nat : Ids(table) \subseteq {_identifier(k) : k \in 0..n}
Numbered(table) == \E n \in Nat : Ids(table) = Texts(n)

AllWritten(t) == Written(t.requisition) /\ Written(t.purchase_order) /\ Written(t.invoice)
AllNumbered(t) == Numbered(t.requisition) /\ Numbered(t.purchase_order) /\ Numbered(t.invoice)

\* What read_matrix has let in.
Accepted ==
  /\ matrix \in Seq([id : {e.id : e \in Entries}, given : {e.given : e \in Entries}])
  /\ \A i \in DOMAIN matrix :
       /\ \E e \in Entries : e.id = matrix[i].id /\ e.given = matrix[i].given
       /\ \A g \in matrix[i].given : ~ GivenIsRefused(g)

FInv ==
  /\ phase \in {"reading", "refused", "loaded", "unloadable"}
  /\ ceiling \in BOOLEAN /\ collided = FALSE
  /\ Accepted
  /\ Shaped(tables) /\ Whole(tables) /\ AllWritten(tables)
  /\ phase = "loaded" /\ ~ ceiling => AllNumbered(tables)
  /\ phase = "unloadable" => \E i \in Requisitioned : ~ DatabaseTakes(Given(i))

-----------------------------------------------------------------------------
(* The mint *)

\* A bounded set of numbers has its greatest, which is what Max answers.
LEMMA GreatestNumber ==
  ASSUME NEW S, S \subseteq Nat, S # {}, NEW n \in Nat, \A k \in S : k <= n
  PROVE  Max(S) \in S /\ \A k \in S : k <= Max(S)
<1> DEFINE Bounds == {m \in Nat : \A k \in S : k <= m}
<1>1. PICK m \in Bounds : \A b \in Bounds : m <= b
  <2>1. Bounds # {} /\ Bounds \subseteq Nat
    OBVIOUS
  <2> HIDE DEF Bounds
  <2> QED BY <2>1, LeastNumber
<1>2. m \in S
  <2>1. SUFFICES ASSUME m \notin S PROVE FALSE
    OBVIOUS
  <2>2. \A k \in S : k < m
    BY <1>1, <2>1
  <2>3. m \in Nat /\ m # 0 /\ \A k \in S : k \in Nat
    <3>1. PICK k \in S : k < m /\ k \in Nat
      BY <2>2
    <3>2. m \in Nat
      BY <1>1
    <3> QED BY <3>1, <3>2
  <2>4. m - 1 \in Nat /\ \A k \in S : k <= m - 1
    BY <2>2, <2>3
  <2> QED BY <1>1, <2>3, <2>4
<1>3. \A k \in S : m >= k
  BY <1>1
<1>4. Max(S) \in S /\ \A k \in S : Max(S) >= k
  BY <1>2, <1>3 DEF Max
<1> QED BY <1>4

\* The minted identifier is the text of a number, and of none in the table; where
\* the table is numbered from one on, it is the next.
LEMMA Minting ==
  ASSUME NEW table, Written(table)
  PROVE  \E m \in Nat : /\ _next_identifier(table) = _identifier(m)
                        /\ _identifier(m) \notin Ids(table)
                        /\ \A c \in Nat : Ids(table) = Texts(c) => m = c + 1
<1> DEFINE S == {Number(id) : id \in Ids(table)} \cup {0}
           m == Max(S) + 1
<1>1. PICK n \in Nat : Ids(table) \subseteq {_identifier(k) : k \in 0..n}
  BY DEF Written
<1>2. \A id \in Ids(table) : Number(id) \in 0..n
  BY <1>1, IdentifierText
<1>3. S \subseteq Nat /\ S # {} /\ \A k \in S : k <= n
  BY <1>2
<1>4. Max(S) \in S /\ \A k \in S : k <= Max(S)
  <2> HIDE DEF S
  <2> QED BY <1>3, GreatestNumber
<1>5. m \in Nat /\ Max(S) \in Nat
  BY <1>3, <1>4
<1>6. _next_identifier(table) = _identifier(m)
  <2>1. _next_identifier(table) = lpad(Digits[m], Greatest(Width, Len(Digits[m])))
    BY DEF _next_identifier
  <2> HIDE DEF m
  <2> QED BY <1>5, <2>1, MintText
<1>7. _identifier(m) \notin Ids(table)
  <2>1. SUFFICES ASSUME _identifier(m) \in Ids(table) PROVE FALSE
    OBVIOUS
  <2>2. Number(_identifier(m)) = m
    <3> HIDE DEF m
    <3> QED BY <1>5, IdentifierText
  <2>3. m \in S
    <3> HIDE DEF m
    <3> QED BY <2>1, <2>2
  <2>4. m <= Max(S)
    <3> HIDE DEF S
    <3> QED BY <1>4, <2>3
  <2> QED BY <1>5, <2>4
<1>8. ASSUME NEW c \in Nat, Ids(table) = Texts(c) PROVE m = c + 1
  <2>1. \A k \in S : k <= c
    BY <1>8, IdentifierText DEF Texts
  <2>2. c \in S
    <3>1. CASE c = 0
      BY <3>1
    <3>2. CASE c # 0
      <4>1. _identifier(c) \in Ids(table)
        BY <1>8, <3>2 DEF Texts
      <4>2. Number(_identifier(c)) = c
        BY IdentifierText
      <4> QED BY <4>1, <4>2
    <3> QED BY <3>1, <3>2
  <2> QED BY <1>4, <1>5, <2>1, <2>2
<1> HIDE DEF m
<1> QED BY <1>5, <1>6, <1>7, <1>8

\* A table with a text more.
LEMMA OneMoreText ==
  ASSUME NEW table, Written(table), NEW m \in Nat, NEW more,
         Ids(more) = Ids(table) \cup {_identifier(m)}
  PROVE  /\ Written(more)
         /\ \A c \in Nat : Ids(table) = Texts(c) /\ m = c + 1 => Numbered(more)
<1>1. PICK n \in Nat : Ids(table) \subseteq {_identifier(k) : k \in 0..n}
  BY DEF Written
<1>2. Written(more)
  <2>1. Ids(more) \subseteq {_identifier(k) : k \in 0..(n + m)}
    BY <1>1
  <2> QED BY <2>1 DEF Written
<1>3. ASSUME NEW c \in Nat, Ids(table) = Texts(c), m = c + 1 PROVE Numbered(more)
  <2>1. Ids(more) = Texts(c + 1)
    <3>1. \A k \in 1..(c + 1) : k \in 1..c \/ k = c + 1
      OBVIOUS
    <3>2. Texts(c) \subseteq Texts(c + 1) /\ _identifier(c + 1) \in Texts(c + 1)
      BY DEF Texts
    <3>3. Texts(c + 1) \subseteq Texts(c) \cup {_identifier(c + 1)}
      BY <3>1 DEF Texts
    <3> QED BY <1>3, <3>2, <3>3
  <2> QED BY <2>1 DEF Numbered
<1> QED BY <1>2, <1>3

-----------------------------------------------------------------------------
(* What each insert makes of whole chains *)

LEMMA RequisitionAdded ==
  ASSUME NEW t, Shaped(t), Whole(t), NEW id, id \notin Ids(t.requisition), NEW u,
         u = [t EXCEPT !.requisition = @ \cup
                {[row |-> None, id |-> id, amount |-> 1, status |-> "submitted"]}]
  PROVE  /\ Shaped(u) /\ Whole(u)
         /\ Ids(u.requisition) = Ids(t.requisition) \cup {id}
         /\ u.purchase_order = t.purchase_order /\ u.invoice = t.invoice
<1>1. PICK Q, O, I, new :
        /\ Q = t.requisition /\ O = t.purchase_order /\ I = t.invoice
        /\ new = [row |-> None, id |-> id, amount |-> 1, status |-> "submitted"]
  OBVIOUS
<1>2. /\ t = [requisition |-> Q, purchase_order |-> O, invoice |-> I]
      /\ u = [t EXCEPT !.requisition = @ \cup {new}]
  BY <1>1 DEF Shaped
<1>3. /\ u = [requisition |-> Q \cup {new}, purchase_order |-> O, invoice |-> I]
      /\ u.requisition = Q \cup {new} /\ u.purchase_order = O /\ u.invoice = I
  BY <1>2
<1>4. /\ new.id = id /\ new.status = "submitted"
      /\ new = [row |-> new.row, id |-> new.id, amount |-> new.amount, status |-> new.status]
  BY <1>1
<1>5. Shaped(u)
  BY <1>1, <1>3, <1>4 DEF Shaped
<1>6. Ids(u.requisition) = Ids(Q) \cup {id} /\ id \notin Ids(Q)
  BY <1>1, <1>3, <1>4 DEF Ids
<1>7. Keyed(u.requisition)
  BY <1>1, <1>3, <1>4, <1>6 DEF Keyed, Ids, Whole
<1>8. OrdersFit(u)
  <2>1. /\ \A a, b \in O : a.requisition_id = b.requisition_id => a = b
        /\ \A o \in O : o.requisition_id \in Ids(Q)
        /\ \A q \in Q :
             q.status = "approved" <=> \E o \in O : o.requisition_id = q.id
    BY <1>1 DEF Whole, OrdersFit
  <2>2. new.status # "approved" /\ \A o \in O : o.requisition_id # new.id
    BY <1>4, <1>6, <2>1
  <2> QED BY <1>3, <1>6, <2>1, <2>2 DEF OrdersFit
<1>9. InvoicesFit(u) /\ Keyed(u.purchase_order) /\ Keyed(u.invoice)
  BY <1>1, <1>3 DEF Whole, InvoicesFit
<1> QED BY <1>1, <1>3, <1>5, <1>6, <1>7, <1>8, <1>9 DEF Whole

\* What a decision and a recorded invoice write.
WithOrder(t, q, id) ==
  [t EXCEPT
     !.requisition = (@ \ {q}) \cup {[q EXCEPT !.status = "approved"]},
     !.purchase_order = @ \cup
       {[row |-> None, id |-> id, requisition_id |-> q.id, status |-> "open"]}]

WithInvoice(t, o, id) ==
  [t EXCEPT
     !.purchase_order = (@ \ {o}) \cup {[o EXCEPT !.status = "invoiced"]},
     !.invoice = @ \cup {[row |-> None, id |-> id, purchase_order_id |-> o.id]}]

LEMMA OrderAdded ==
  ASSUME NEW t, Shaped(t), Whole(t), NEW id, id \notin Ids(t.purchase_order), NEW u,
         NEW q \in t.requisition, q.status = "submitted",
         u = WithOrder(t, q, id)
  PROVE  /\ Shaped(u) /\ Whole(u)
         /\ Ids(u.purchase_order) = Ids(t.purchase_order) \cup {id}
         /\ Ids(u.requisition) = Ids(t.requisition) /\ u.invoice = t.invoice
<1>1. PICK Q, O, I, new, done :
        /\ Q = t.requisition /\ O = t.purchase_order /\ I = t.invoice
        /\ new = [row |-> None, id |-> id, requisition_id |-> q.id, status |-> "open"]
        /\ done = [q EXCEPT !.status = "approved"]
  OBVIOUS
<1>2. /\ t = [requisition |-> Q, purchase_order |-> O, invoice |-> I]
      /\ u = [t EXCEPT !.requisition = (@ \ {q}) \cup {done},
                       !.purchase_order = @ \cup {new}]
  BY <1>1 DEF Shaped, WithOrder
<1>3. PICK P : P = (Q \ {q}) \cup {done}
  OBVIOUS
<1>4. /\ u = [requisition |-> P, purchase_order |-> O \cup {new}, invoice |-> I]
      /\ u.requisition = P /\ u.purchase_order = O \cup {new} /\ u.invoice = I
  BY <1>2, <1>3
<1>5. /\ new.id = id /\ new.status = "open" /\ new.requisition_id = q.id
      /\ new = [row |-> new.row, id |-> new.id, requisition_id |-> new.requisition_id,
                status |-> new.status]
  BY <1>1
<1>6. /\ q \in Q /\ done.id = q.id /\ done.status = "approved"
      /\ done = [row |-> done.row, id |-> done.id, amount |-> done.amount,
                 status |-> done.status]
  <2>1. q = [row |-> q.row, id |-> q.id, amount |-> q.amount, status |-> q.status]
    BY DEF Shaped
  <2>2. done = [row |-> q.row, id |-> q.id, amount |-> q.amount, status |-> "approved"]
    BY <1>1, <2>1
  <2> QED BY <1>1, <2>2
<1>7. Shaped(u)
  BY <1>1, <1>3, <1>4, <1>5, <1>6 DEF Shaped
<1>8. Ids(P) = Ids(Q)
  BY <1>3, <1>6 DEF Ids
<1>9. Ids(O \cup {new}) = Ids(O) \cup {id} /\ id \notin Ids(O)
  BY <1>1, <1>5 DEF Ids
<1>10. Keyed(Q) /\ Keyed(O) /\ Keyed(I)
  BY <1>1 DEF Whole
<1>11. Keyed(P) /\ Keyed(O \cup {new})
  <2>1. Keyed(P)
    BY <1>3, <1>6, <1>10 DEF Keyed
  <2>2. \A o \in O : o.id # id
    BY <1>9 DEF Ids
  <2>3. Keyed(O \cup {new})
    BY <1>5, <1>10, <2>2 DEF Keyed
  <2> QED BY <2>1, <2>3
<1>12. OrdersFit(u)
  <2>1. /\ \A a, b \in O : a.requisition_id = b.requisition_id => a = b
        /\ \A o \in O : o.requisition_id \in Ids(Q)
        /\ \A r \in Q :
             r.status = "approved" <=> \E o \in O : o.requisition_id = r.id
    BY <1>1 DEF Whole, OrdersFit
  <2>2. \A o \in O : o.requisition_id # q.id
    BY <1>6, <2>1
  <2>3. q.id \in Ids(Q)
    BY <1>6 DEF Ids
  <2>4. \A r \in Q \ {q} : r.id # q.id
    BY <1>6, <1>10 DEF Keyed
  <2>5. \A a, b \in O \cup {new} : a.requisition_id = b.requisition_id => a = b
    BY <1>5, <2>1, <2>2
  <2>6. \A o \in O \cup {new} : o.requisition_id \in Ids(P)
    BY <1>5, <1>8, <2>1, <2>3
  <2>7. ASSUME NEW r \in P
        PROVE  r.status = "approved" <=> \E o \in O \cup {new} : o.requisition_id = r.id
    <3>1. CASE r = done
      BY <1>5, <1>6, <3>1
    <3>2. CASE r \in Q \ {q}
      BY <1>5, <2>1, <2>4, <3>2
    <3> QED BY <1>3, <2>7, <3>1, <3>2
  <2> QED BY <1>4, <2>5, <2>6, <2>7 DEF OrdersFit
<1>13. InvoicesFit(u)
  <2>1. /\ \A a, b \in I : a.purchase_order_id = b.purchase_order_id => a = b
        /\ \A b \in I : b.purchase_order_id \in Ids(O)
        /\ \A o \in O : o.status = "invoiced" <=> \E b \in I : b.purchase_order_id = o.id
    BY <1>1 DEF Whole, InvoicesFit
  <2>2. new.status # "invoiced" /\ \A b \in I : b.purchase_order_id # new.id
    BY <1>5, <1>9, <2>1
  <2>3. /\ \A b \in I : b.purchase_order_id \in Ids(O \cup {new})
        /\ \A o \in O \cup {new} :
             o.status = "invoiced" <=> \E b \in I : b.purchase_order_id = o.id
    BY <1>9, <2>1, <2>2
  <2> QED BY <1>4, <2>1, <2>3 DEF InvoicesFit
<1> QED BY <1>1, <1>4, <1>7, <1>8, <1>9, <1>10, <1>11, <1>12, <1>13 DEF Whole

LEMMA InvoiceAdded ==
  ASSUME NEW t, Shaped(t), Whole(t), NEW id, id \notin Ids(t.invoice), NEW u,
         NEW o \in t.purchase_order, o.status = "open",
         u = WithInvoice(t, o, id)
  PROVE  /\ Shaped(u) /\ Whole(u)
         /\ Ids(u.invoice) = Ids(t.invoice) \cup {id}
         /\ Ids(u.purchase_order) = Ids(t.purchase_order)
         /\ u.requisition = t.requisition
<1>1. PICK Q, O, I, new, done :
        /\ Q = t.requisition /\ O = t.purchase_order /\ I = t.invoice
        /\ new = [row |-> None, id |-> id, purchase_order_id |-> o.id]
        /\ done = [o EXCEPT !.status = "invoiced"]
  OBVIOUS
<1>2. /\ t = [requisition |-> Q, purchase_order |-> O, invoice |-> I]
      /\ u = [t EXCEPT !.purchase_order = (@ \ {o}) \cup {done},
                       !.invoice = @ \cup {new}]
  BY <1>1 DEF Shaped, WithInvoice
<1>3. PICK P : P = (O \ {o}) \cup {done}
  OBVIOUS
<1>4. /\ u = [requisition |-> Q, purchase_order |-> P, invoice |-> I \cup {new}]
      /\ u.requisition = Q /\ u.purchase_order = P /\ u.invoice = I \cup {new}
  BY <1>2, <1>3
<1>5. new.id = id /\ new.purchase_order_id = o.id
  BY <1>1
<1>6. /\ o \in O /\ done.id = o.id /\ done.status = "invoiced"
      /\ done.requisition_id = o.requisition_id
      /\ done = [row |-> done.row, id |-> done.id, requisition_id |-> done.requisition_id,
                 status |-> done.status]
  <2>1. o = [row |-> o.row, id |-> o.id, requisition_id |-> o.requisition_id,
             status |-> o.status]
    BY DEF Shaped
  <2>2. done = [row |-> o.row, id |-> o.id, requisition_id |-> o.requisition_id,
                status |-> "invoiced"]
    BY <1>1, <2>1
  <2> QED BY <1>1, <2>2
<1>7. Shaped(u)
  BY <1>1, <1>3, <1>4, <1>6 DEF Shaped
<1>8. Ids(P) = Ids(O)
  BY <1>3, <1>6 DEF Ids
<1>9. Ids(I \cup {new}) = Ids(I) \cup {id} /\ id \notin Ids(I)
  BY <1>1, <1>5 DEF Ids
<1>10. Keyed(Q) /\ Keyed(O) /\ Keyed(I)
  BY <1>1 DEF Whole
<1>11. Keyed(P) /\ Keyed(I \cup {new})
  <2>1. Keyed(P)
    BY <1>3, <1>6, <1>10 DEF Keyed
  <2>2. \A b \in I : b.id # id
    BY <1>9 DEF Ids
  <2>3. Keyed(I \cup {new})
    BY <1>5, <1>10, <2>2 DEF Keyed
  <2> QED BY <2>1, <2>3
<1>12. OrdersFit(u)
  <2>1. /\ \A a, b \in O : a.requisition_id = b.requisition_id => a = b
        /\ \A p \in O : p.requisition_id \in Ids(Q)
        /\ \A q \in Q :
             q.status = "approved" <=> \E p \in O : p.requisition_id = q.id
    BY <1>1 DEF Whole, OrdersFit
  <2>2. \A a, b \in P : a.requisition_id = b.requisition_id => a = b
    BY <1>3, <1>6, <2>1
  <2>3. \A p \in P : p.requisition_id \in Ids(Q)
    BY <1>3, <1>6, <2>1
  <2>4. \A r : (\E p \in P : p.requisition_id = r) <=> \E p \in O : p.requisition_id = r
    BY <1>3, <1>6
  <2> QED BY <1>4, <2>1, <2>2, <2>3, <2>4 DEF OrdersFit
<1>13. InvoicesFit(u)
  <2>1. /\ \A a, b \in I : a.purchase_order_id = b.purchase_order_id => a = b
        /\ \A b \in I : b.purchase_order_id \in Ids(O)
        /\ \A p \in O : p.status = "invoiced" <=> \E b \in I : b.purchase_order_id = p.id
    BY <1>1 DEF Whole, InvoicesFit
  <2>2. \A b \in I : b.purchase_order_id # o.id
    BY <1>6, <2>1
  <2>3. o.id \in Ids(O) /\ \A p \in O \ {o} : p.id # o.id
    BY <1>6, <1>10 DEF Ids, Keyed
  <2>4. \A a, b \in I \cup {new} : a.purchase_order_id = b.purchase_order_id => a = b
    BY <1>5, <2>1, <2>2
  <2>5. \A b \in I \cup {new} : b.purchase_order_id \in Ids(P)
    BY <1>5, <1>8, <2>1, <2>3
  <2>6. ASSUME NEW p \in P
        PROVE  p.status = "invoiced" <=> \E b \in I \cup {new} : b.purchase_order_id = p.id
    <3>1. CASE p = done
      BY <1>5, <1>6, <3>1
    <3>2. CASE p \in O \ {o}
      BY <1>5, <2>1, <2>3, <3>2
    <3> QED BY <1>3, <2>6, <3>1, <3>2
  <2> QED BY <1>4, <2>4, <2>5, <2>6 DEF InvoicesFit
<1> QED BY <1>1, <1>4, <1>7, <1>8, <1>9, <1>10, <1>11, <1>12, <1>13 DEF Whole

-----------------------------------------------------------------------------
(* The chain under the last number of the width *)

LEMMA TextsCount ==
  ASSUME NEW n \in Nat
  PROVE  IsFiniteSet(Texts(n)) /\ Cardinality(Texts(n)) = n
<1> DEFINE f == [k \in 1..n |-> _identifier(k)]
<1>1. f \in [1..n -> Texts(n)] /\ \A x \in Texts(n) : \E k \in 1..n : f[k] = x
  BY DEF Texts
<1>2. ASSUME NEW j \in 1..n, NEW k \in 1..n, f[j] = f[k] PROVE j = k
  <2>1. _identifier(j) = _identifier(k)
    BY <1>2
  <2>2. Number(_identifier(j)) = j /\ Number(_identifier(k)) = k
    BY IdentifierText
  <2> QED BY <2>1, <2>2
<1> HIDE DEF f
<1>3. f \in Bijection(1..n, Texts(n))
  BY <1>1, <1>2 DEF Bijection, Injection, Surjection, IsInjective
<1>4. IsFiniteSet(1..n) /\ Cardinality(1..n) = n
  BY FS_Interval
<1> QED BY <1>3, <1>4, FS_Bijection DEF ExistsBijection

\* There are no more rows than what each of them names one of.
LEMMA NoMoreLinks ==
  ASSUME NEW m \in Nat, NEW n \in Nat, NEW table, NEW field,
         Keyed(table), Ids(table) = Texts(m),
         \A a, b \in table : a[field] = b[field] => a = b,
         \A a \in table : a[field] \in Texts(n)
  PROVE  m <= n
<1> DEFINE row(id) == CHOOSE a \in table : a.id = id
           f == [id \in Texts(m) |-> row(id)[field]]
<1>1. ASSUME NEW id \in Texts(m) PROVE row(id) \in table /\ row(id).id = id
  BY DEF Ids
<1> HIDE DEF row
<1>2. f \in [Texts(m) -> Texts(n)]
  BY <1>1
<1>3. ASSUME NEW x \in Texts(m), NEW y \in Texts(m), f[x] = f[y] PROVE x = y
  <2>1. row(x) = row(y)
    BY <1>1, <1>3
  <2> QED BY <1>1, <2>1
<1> HIDE DEF f
<1>4. f \in Injection(Texts(m), Texts(n))
  BY <1>2, <1>3 DEF Injection, IsInjective
<1> QED BY <1>4, TextsCount, FS_Injection

LEMMA AbsentIsText ==
  \E n \in Nat : ABSENT = _identifier(n)
<1>1. Width \in Nat /\ Width >= 1 /\ Base - 1 \in Digit
  BY BaseAssumption DEF Digit
<1>2. ABSENT \in [1..Width -> Digit]
  BY <1>1 DEF ABSENT
<1>3. ABSENT \in Seq(Digit)
  BY <1>1, <1>2, SeqDef
<1>4. Len(ABSENT) = Width
  <2>1. DOMAIN ABSENT = 1..Width
    BY <1>2
  <2> QED BY <1>1, <1>3, <2>1, LenProperties
<1>5. IsText(ABSENT) /\ Number(ABSENT) \in Nat
  BY <1>1, <1>3, <1>4, NumberType DEF IsText, Digit
<1> QED BY <1>4, <1>5, ShortTexts

LEMMA CeilingAdded ==
  ASSUME NEW t, Shaped(t), Whole(t), AllNumbered(t), ABSENT \notin Ids(t.requisition),
         NEW u,
         u = [requisition    |-> t.requisition \cup
                {[row |-> None, id |-> ABSENT, amount |-> 1, status |-> "approved"]},
              purchase_order |-> t.purchase_order \cup
                {[row |-> None, id |-> ABSENT, requisition_id |-> ABSENT,
                  status |-> "invoiced"]},
              invoice        |-> t.invoice \cup
                {[row |-> None, id |-> ABSENT, purchase_order_id |-> ABSENT]}]
  PROVE  Shaped(u) /\ Whole(u) /\ AllWritten(u)
<1>1. PICK Q, O, I, q, o, b :
        /\ Q = t.requisition /\ O = t.purchase_order /\ I = t.invoice
        /\ q = [row |-> None, id |-> ABSENT, amount |-> 1, status |-> "approved"]
        /\ o = [row |-> None, id |-> ABSENT, requisition_id |-> ABSENT, status |-> "invoiced"]
        /\ b = [row |-> None, id |-> ABSENT, purchase_order_id |-> ABSENT]
  OBVIOUS
<1>2. /\ u = [requisition |-> Q \cup {q}, purchase_order |-> O \cup {o}, invoice |-> I \cup {b}]
      /\ u.requisition = Q \cup {q} /\ u.purchase_order = O \cup {o}
      /\ u.invoice = I \cup {b}
  BY <1>1
<1>3. /\ q.id = ABSENT /\ q.status = "approved"
      /\ o.id = ABSENT /\ o.requisition_id = ABSENT /\ o.status = "invoiced"
      /\ b.id = ABSENT /\ b.purchase_order_id = ABSENT
      /\ q = [row |-> q.row, id |-> q.id, amount |-> q.amount, status |-> q.status]
      /\ o = [row |-> o.row, id |-> o.id, requisition_id |-> o.requisition_id,
              status |-> o.status]
  BY <1>1
<1>4. Shaped(u)
  BY <1>1, <1>2, <1>3 DEF Shaped
<1>5. /\ Keyed(Q) /\ Keyed(O) /\ Keyed(I)
      /\ \A x, y \in O : x.requisition_id = y.requisition_id => x = y
      /\ \A x \in O : x.requisition_id \in Ids(Q)
      /\ \A r \in Q : r.status = "approved" <=> \E x \in O : x.requisition_id = r.id
      /\ \A x, y \in I : x.purchase_order_id = y.purchase_order_id => x = y
      /\ \A x \in I : x.purchase_order_id \in Ids(O)
      /\ \A r \in O : r.status = "invoiced" <=> \E x \in I : x.purchase_order_id = r.id
  BY <1>1 DEF Whole, OrdersFit, InvoicesFit
<1>6. ABSENT \notin Ids(Q) /\ ABSENT \notin Ids(O) /\ ABSENT \notin Ids(I)
  <2>1. PICK i \in Nat, j \in Nat, k \in Nat :
          Ids(Q) = Texts(i) /\ Ids(O) = Texts(j) /\ Ids(I) = Texts(k)
    BY <1>1 DEF AllNumbered, Numbered
  <2>2. j <= i
    <3>1. /\ \A x, y \in O : x["requisition_id"] = y["requisition_id"] => x = y
          /\ \A x \in O : x["requisition_id"] \in Texts(i)
      BY <1>5, <2>1
    <3> QED BY <1>5, <2>1, <3>1, NoMoreLinks
  <2>3. k <= j
    <3>1. /\ \A x, y \in I : x["purchase_order_id"] = y["purchase_order_id"] => x = y
          /\ \A x \in I : x["purchase_order_id"] \in Texts(j)
      BY <1>5, <2>1
    <3> QED BY <1>5, <2>1, <3>1, NoMoreLinks
  <2>4. Texts(k) \subseteq Texts(j) /\ Texts(j) \subseteq Texts(i)
    BY <2>2, <2>3 DEF Texts
  <2> QED BY <1>1, <2>1, <2>4
<1>7. /\ Ids(Q \cup {q}) = Ids(Q) \cup {ABSENT} /\ Ids(O \cup {o}) = Ids(O) \cup {ABSENT}
      /\ Ids(I \cup {b}) = Ids(I) \cup {ABSENT}
  BY <1>3 DEF Ids
<1>8. /\ \A r \in Q : r.id # ABSENT
      /\ \A r \in O : r.id # ABSENT /\ r.requisition_id # ABSENT
      /\ \A r \in I : r.id # ABSENT /\ r.purchase_order_id # ABSENT
  BY <1>5, <1>6 DEF Ids
<1>9. Keyed(Q \cup {q}) /\ Keyed(O \cup {o}) /\ Keyed(I \cup {b})
  BY <1>3, <1>5, <1>8 DEF Keyed
<1>10. OrdersFit(u)
  <2>1. \A x, y \in O \cup {o} : x.requisition_id = y.requisition_id => x = y
    BY <1>3, <1>5, <1>8
  <2>2. \A x \in O \cup {o} : x.requisition_id \in Ids(Q \cup {q})
    BY <1>3, <1>5, <1>7
  <2>3. \A r \in Q \cup {q} :
          r.status = "approved" <=> \E x \in O \cup {o} : x.requisition_id = r.id
    BY <1>3, <1>5, <1>8
  <2> QED BY <1>2, <2>1, <2>2, <2>3 DEF OrdersFit
<1>11. InvoicesFit(u)
  <2>1. \A x, y \in I \cup {b} : x.purchase_order_id = y.purchase_order_id => x = y
    BY <1>3, <1>5, <1>8
  <2>2. \A x \in I \cup {b} : x.purchase_order_id \in Ids(O \cup {o})
    BY <1>3, <1>5, <1>7
  <2>3. \A r \in O \cup {o} :
          r.status = "invoiced" <=> \E x \in I \cup {b} : x.purchase_order_id = r.id
    BY <1>3, <1>5, <1>8
  <2> QED BY <1>2, <2>1, <2>2, <2>3 DEF InvoicesFit
<1>12. ASSUME NEW table, NEW more, Numbered(table), Ids(more) = Ids(table) \cup {ABSENT}
       PROVE  Written(more)
  <2>1. Written(table)
    <3>1. PICK n \in Nat : Ids(table) = Texts(n)
      BY <1>12 DEF Numbered
    <3>2. Texts(n) \subseteq {_identifier(k) : k \in 0..n}
      BY DEF Texts
    <3> QED BY <3>1, <3>2 DEF Written
  <2> QED BY <1>12, <2>1, AbsentIsText, OneMoreText
<1>13. AllWritten(u)
  BY <1>1, <1>2, <1>7, <1>12 DEF AllWritten, AllNumbered
<1> QED BY <1>2, <1>4, <1>9, <1>10, <1>11, <1>13 DEF Whole

-----------------------------------------------------------------------------
(* The rendering of an accepted matrix *)

\* A row's ordinal is its own, and the ordinals are the numbers from one on.
LEMMA OrdinalsNumber ==
  ASSUME NEW n \in Nat, NEW owners, owners \subseteq 1..n
  PROVE  /\ Cardinality(owners) \in Nat
         /\ \A i \in owners : Ordinal(owners, i) \in 1..Cardinality(owners)
         /\ \A i, j \in owners : Ordinal(owners, i) = Ordinal(owners, j) => i = j
         /\ \A k \in 1..Cardinality(owners) : \E i \in owners : Ordinal(owners, i) = k
<1> DEFINE c == Cardinality(owners)
           upto(i) == {j \in owners : j <= i}
           f == [i \in owners |-> Ordinal(owners, i)]
<1>1. IsFiniteSet(owners) /\ c \in Nat
  <2>1. IsFiniteSet(1..n)
    BY FS_Interval
  <2>2. IsFiniteSet(owners)
    BY <2>1, FS_Subset
  <2> QED BY <2>2, FS_CardinalityType
<1>2. ASSUME NEW i \in owners
      PROVE  /\ IsFiniteSet(upto(i)) /\ Ordinal(owners, i) = Cardinality(upto(i))
             /\ Ordinal(owners, i) \in 1..c
  <2>1. IsFiniteSet(upto(i)) /\ Cardinality(upto(i)) <= c
    BY <1>1, FS_Subset
  <2>2. upto(i) # {}
    OBVIOUS
  <2>3. Cardinality(upto(i)) # 0 /\ Cardinality(upto(i)) \in Nat
    <3> HIDE DEF upto
    <3> QED BY <2>1, <2>2, FS_EmptySet, FS_CardinalityType
  <2>4. Ordinal(owners, i) = Cardinality(upto(i))
    BY DEF Ordinal
  <2> HIDE DEF upto, c
  <2> QED BY <1>1, <2>1, <2>3, <2>4
<1>3. ASSUME NEW i \in owners, NEW j \in owners, i < j
      PROVE  Ordinal(owners, i) # Ordinal(owners, j)
  <2>1. upto(i) \in SUBSET upto(j) /\ j \in upto(j) /\ j \notin upto(i)
    <3>1. \A k \in owners : k \in Nat
      OBVIOUS
    <3>2. \A k \in upto(i) : k \in upto(j)
      BY <1>3, <3>1
    <3>3. j \in upto(j) /\ j \notin upto(i)
      BY <1>3, <3>1
    <3> HIDE DEF upto
    <3> QED BY <3>2, <3>3
  <2> HIDE DEF upto
  <2>2. upto(i) # upto(j)
    BY <2>1
  <2>3. Cardinality(upto(i)) # Cardinality(upto(j))
    BY <1>2, <2>1, <2>2, FS_Subset
  <2> QED BY <1>2, <2>3
<1>4. \A i, j \in owners : Ordinal(owners, i) = Ordinal(owners, j) => i = j
  BY <1>3
<1> HIDE DEF c
<1>5. f \in [owners -> 1..c] /\ \A i \in owners : f[i] = Ordinal(owners, i)
  BY <1>2
<1> HIDE DEF f
<1>6. f \in Injection(owners, 1..c)
  BY <1>4, <1>5 DEF Injection, IsInjective
<1>7. IsFiniteSet(1..c) /\ Cardinality(1..c) = c
  BY <1>1, FS_Interval
<1>8. f \in Surjection(owners, 1..c)
  BY <1>6, <1>7, FS_Injection DEF c
<1>9. \A k \in 1..c : \E i \in owners : Ordinal(owners, i) = k
  BY <1>5, <1>8 DEF Surjection
<1> QED BY <1>1, <1>2, <1>4, <1>9 DEF c

\* The identifiers the rendering gives out.
LEMMA OrdinalTexts ==
  ASSUME NEW n \in Nat, NEW owners, owners \subseteq 1..n
  PROVE  /\ \A i, j \in owners :
              _identifier(Ordinal(owners, i)) = _identifier(Ordinal(owners, j)) => i = j
         /\ {_identifier(Ordinal(owners, i)) : i \in owners} = Texts(Cardinality(owners))
<1>1. /\ \A i \in owners : Ordinal(owners, i) \in 1..Cardinality(owners)
      /\ \A i, j \in owners : Ordinal(owners, i) = Ordinal(owners, j) => i = j
      /\ \A k \in 1..Cardinality(owners) : \E i \in owners : Ordinal(owners, i) = k
  BY OrdinalsNumber
<1>2. ASSUME NEW i \in owners, NEW j \in owners,
             _identifier(Ordinal(owners, i)) = _identifier(Ordinal(owners, j))
      PROVE  i = j
  <2>1. Ordinal(owners, i) \in Nat /\ Ordinal(owners, j) \in Nat
    BY <1>1, OrdinalsNumber
  <2>2. Ordinal(owners, i) = Ordinal(owners, j)
    BY <1>2, <2>1, IdentifierText
  <2> QED BY <1>1, <2>2
<1>3. \A i \in owners : _identifier(Ordinal(owners, i)) \in Texts(Cardinality(owners))
  BY <1>1 DEF Texts
<1>4. \A x \in Texts(Cardinality(owners)) :
        \E i \in owners : x = _identifier(Ordinal(owners, i))
  BY <1>1 DEF Texts
<1> QED BY <1>2, <1>3, <1>4

\* What the reader's refusals leave of a row that owns a fixture.
LEMMA OwnersAreAccepted ==
  ASSUME Accepted
  PROVE  /\ Requisitioned \subseteq 1..Len(matrix) /\ Len(matrix) \in Nat
         /\ Ordered \subseteq Requisitioned /\ Billed \subseteq Ordered
         /\ \A i \in Requisitioned :
              /\ i \in Ordered <=> Given(i).status = "approved"
              /\ Given(i).amount \in Int /\ Given(i).amount > 0
         /\ \A i \in Ordered :
              i \in Billed <=> Given(i).order_status = "invoiced"
<1>1. Len(matrix) \in Nat /\ DOMAIN matrix = 1..Len(matrix)
  BY LenProperties DEF Accepted
<1>2. Requisitioned \subseteq 1..Len(matrix) /\ Ordered \subseteq Requisitioned
      /\ Billed \subseteq Ordered
  BY <1>1 DEF Requisitioned, Ordered, Billed
<1>3. ASSUME NEW i \in Requisitioned
      PROVE  /\ (Given(i).approved_by # None) <=> (Given(i).status = "approved")
             /\ (Given(i).recorded_by # None) <=> (Given(i).order_status = "invoiced")
             /\ Given(i).amount \in Int /\ Given(i).amount > 0
  <2>1. i \in DOMAIN matrix /\ Given(i) \in matrix[i].given
    BY DEF Requisitioned, Given
  <2>2. ~ GivenIsRefused(Given(i))
    BY <2>1 DEF Accepted
  <2>3. PICK e \in Entries : e.given = matrix[i].given
    BY <2>1 DEF Accepted
  <2>4. Given(i).amount \in Int
    BY <2>1, <2>3, EntriesAssumption
  <2> QED BY <2>2, <2>4 DEF GivenIsRefused
<1> QED BY <1>1, <1>2, <1>3 DEF Ordered, Billed

RequisitionRow(i) ==
  [row |-> matrix[i].id, id |-> _identifier(Ordinal(Requisitioned, i)),
   amount |-> Stored(Given(i).amount), status |-> Given(i).status]
OrderRow(i) ==
  [row |-> matrix[i].id, id |-> _identifier(Ordinal(Ordered, i)),
   requisition_id |-> _identifier(Ordinal(Requisitioned, i)),
   status |-> Given(i).order_status]
InvoiceRow(i) ==
  [row |-> matrix[i].id, id |-> _identifier(Ordinal(Billed, i)),
   purchase_order_id |-> _identifier(Ordinal(Ordered, i))]

\* The rendering has a key once and every link in it, whatever was accepted.
LEMMA RenderingIsWhole ==
  ASSUME Accepted, NEW t, t = fixtures_for
  PROVE  Shaped(t) /\ Whole(t) /\ AllNumbered(t)
<1>1. PICK R, O, B, Q, P, I :
        /\ R = Requisitioned /\ O = Ordered /\ B = Billed
        /\ Q = t.requisition /\ P = t.purchase_order /\ I = t.invoice
  OBVIOUS
<1>2. /\ t = [requisition |-> Q, purchase_order |-> P, invoice |-> I]
      /\ Q = {RequisitionRow(i) : i \in R} /\ P = {OrderRow(i) : i \in O}
      /\ I = {InvoiceRow(i) : i \in B}
  BY <1>1 DEF fixtures_for, RequisitionRow, OrderRow, InvoiceRow
<1>3. PICK n \in Nat : R \subseteq 1..n /\ O \subseteq R /\ B \subseteq O
  BY <1>1, OwnersAreAccepted
<1>4. /\ \A i \in R : i \in O <=> Given(i).status = "approved"
      /\ \A i \in O : i \in B <=> Given(i).order_status = "invoiced"
  BY <1>1, OwnersAreAccepted
<1> DEFINE r(i) == _identifier(Ordinal(R, i))
           p(i) == _identifier(Ordinal(O, i))
           v(i) == _identifier(Ordinal(B, i))
<1>5. /\ \A i, j \in R : r(i) = r(j) => i = j
      /\ \A i, j \in O : p(i) = p(j) => i = j
      /\ \A i, j \in B : v(i) = v(j) => i = j
  BY <1>3, OrdinalTexts
<1>6. /\ {r(i) : i \in R} = Texts(Cardinality(R)) /\ Cardinality(R) \in Nat
      /\ {p(i) : i \in O} = Texts(Cardinality(O)) /\ Cardinality(O) \in Nat
      /\ {v(i) : i \in B} = Texts(Cardinality(B)) /\ Cardinality(B) \in Nat
  BY <1>3, OrdinalTexts, OrdinalsNumber
<1>7. /\ \A i \in R : RequisitionRow(i).id = r(i) /\ RequisitionRow(i).status = Given(i).status
      /\ \A i \in O : /\ OrderRow(i).id = p(i) /\ OrderRow(i).requisition_id = r(i)
                      /\ OrderRow(i).status = Given(i).order_status
      /\ \A i \in B : InvoiceRow(i).id = v(i) /\ InvoiceRow(i).purchase_order_id = p(i)
  BY <1>1 DEF RequisitionRow, OrderRow, InvoiceRow
<1>8. Shaped(t)
  BY <1>2 DEF Shaped, RequisitionRow, OrderRow
<1> HIDE DEF r, p, v
<1>9. /\ Ids(Q) = {r(i) : i \in R} /\ Ids(P) = {p(i) : i \in O} /\ Ids(I) = {v(i) : i \in B}
  BY <1>2, <1>7 DEF Ids
<1>10. AllNumbered(t)
  BY <1>1, <1>6, <1>9 DEF AllNumbered, Numbered
<1>11. Keyed(Q) /\ Keyed(P) /\ Keyed(I)
  BY <1>2, <1>5, <1>7 DEF Keyed
<1>12. OrdersFit(t)
  <2>1. \A a, b \in P : a.requisition_id = b.requisition_id => a = b
    BY <1>2, <1>3, <1>5, <1>7
  <2>2. \A o \in P : o.requisition_id \in Ids(Q)
    BY <1>2, <1>3, <1>7, <1>9
  <2>3. ASSUME NEW i \in R
        PROVE  (\E o \in P : o.requisition_id = r(i)) <=> i \in O
    <3>1. i \in O => OrderRow(i) \in P /\ OrderRow(i).requisition_id = r(i)
      BY <1>2, <1>7
    <3>2. ASSUME NEW o \in P, o.requisition_id = r(i) PROVE i \in O
      <4>1. PICK j \in O : o.requisition_id = r(j)
        BY <1>2, <1>7
      <4> QED BY <1>3, <1>5, <3>2, <4>1
    <3> QED BY <3>1, <3>2
  <2>4. \A q \in Q : q.status = "approved" <=> \E o \in P : o.requisition_id = q.id
    <3>1. SUFFICES ASSUME NEW i \in R
                   PROVE  Given(i).status = "approved" <=> \E o \in P : o.requisition_id = r(i)
      BY <1>2, <1>7
    <3> QED BY <1>4, <2>3
  <2> QED BY <1>1, <2>1, <2>2, <2>4 DEF OrdersFit
<1>13. InvoicesFit(t)
  <2>1. \A a, b \in I : a.purchase_order_id = b.purchase_order_id => a = b
    BY <1>2, <1>3, <1>5, <1>7
  <2>2. \A b \in I : b.purchase_order_id \in Ids(P)
    BY <1>2, <1>3, <1>7, <1>9
  <2>3. ASSUME NEW i \in O
        PROVE  (\E b \in I : b.purchase_order_id = p(i)) <=> i \in B
    <3>1. i \in B => InvoiceRow(i) \in I /\ InvoiceRow(i).purchase_order_id = p(i)
      BY <1>2, <1>7
    <3>2. ASSUME NEW b \in I, b.purchase_order_id = p(i) PROVE i \in B
      <4>1. PICK j \in B : b.purchase_order_id = p(j)
        BY <1>2, <1>7
      <4> QED BY <1>3, <1>5, <3>2, <4>1
    <3> QED BY <3>1, <3>2
  <2>4. \A o \in P : o.status = "invoiced" <=> \E b \in I : b.purchase_order_id = o.id
    <3>1. SUFFICES ASSUME NEW i \in O
                   PROVE  Given(i).order_status = "invoiced"
                            <=> \E b \in I : b.purchase_order_id = p(i)
      BY <1>2, <1>7
    <3> QED BY <1>4, <2>3
  <2> QED BY <1>1, <2>1, <2>2, <2>4 DEF InvoicesFit
<1> QED BY <1>1, <1>8, <1>10, <1>11, <1>12, <1>13 DEF Whole

-----------------------------------------------------------------------------
(* Every action keeps the invariant *)

\* The schema's keys as the parts the invariant is made of.
LEMMA WholeChains ==
  ASSUME NEW t, Shaped(t), Whole(t)
  PROVE  /\ KeysHold(t)
         /\ \A q \in t.requisition :
              q.status = "approved" <=> \E o \in t.purchase_order : o.requisition_id = q.id
         /\ \A o \in t.purchase_order :
              o.status = "invoiced" <=> \E b \in t.invoice : b.purchase_order_id = o.id
<1>1. PICK Q, O, I : t = [requisition |-> Q, purchase_order |-> O, invoice |-> I]
  BY DEF Shaped
<1>2. /\ DOMAIN t = {"requisition", "purchase_order", "invoice"}
      /\ t["requisition"] = Q /\ t["purchase_order"] = O /\ t["invoice"] = I
      /\ t.requisition = Q /\ t.purchase_order = O /\ t.invoice = I
  BY <1>1
<1>3. \A name \in DOMAIN t : \A a, b \in t[name] : a.id = b.id => a = b
  BY <1>2 DEF Whole, Keyed
<1> QED BY <1>3 DEF Whole, OrdersFit, InvoicesFit, KeysHold

\* The rendering an unchanged matrix has is the one it had.
LEMMA SameRendering ==
  ASSUME matrix' = matrix
  PROVE  fixtures_for' = fixtures_for /\ (Accepted => Accepted')
BY DEF fixtures_for, Requisitioned, Ordered, Billed, Given, Accepted

LEMMA SameOwners ==
  ASSUME matrix' = matrix
  PROVE  (\E i \in Requisitioned : ~ DatabaseTakes(Given(i)))
           <=> (\E i \in Requisitioned : ~ DatabaseTakes(Given(i)))'
BY DEF Requisitioned, Given, DatabaseTakes

\* The actions that leave the tables alone.
LEMMA SameTables ==
  ASSUME tables' = tables, ceiling' = ceiling, collided' = collided, FInv
  PROVE  /\ ceiling' \in BOOLEAN /\ collided' = FALSE
         /\ Shaped(tables)' /\ Whole(tables)' /\ AllWritten(tables)'
<1>1. PICK t : t = tables
  OBVIOUS
<1>2. /\ Shaped(t) /\ Whole(t) /\ AllWritten(t)
      /\ ceiling \in BOOLEAN /\ collided = FALSE
  BY <1>1 DEF FInv
<1>3. tables' = t
  BY <1>1
<1> QED BY <1>2, <1>3

LEMMA ReadKeeps ==
  ASSUME FInv, read_matrix
  PROVE  FInv'
<1>1. /\ tables' = tables /\ ceiling' = ceiling /\ collided' = collided /\ phase = "reading"
  BY DEF read_matrix
<1>2. PICK e \in Entries :
        IF RowIsRefused(e)
        THEN phase' = "refused" /\ UNCHANGED matrix
        ELSE matrix' = Append(matrix, [id |-> e.id, given |-> e.given]) /\ UNCHANGED phase
  BY DEF read_matrix
<1>3. CASE RowIsRefused(e)
  <2>1. phase' = "refused" /\ matrix' = matrix
    BY <1>2, <1>3
  <2>2. Accepted'
    BY <2>1, SameRendering DEF FInv
  <2> QED BY <1>1, <2>1, <2>2, SameTables DEF FInv
<1>4. CASE ~ RowIsRefused(e)
  <2>1. PICK row, rows, more :
          /\ row = [id |-> e.id, given |-> e.given]
          /\ rows = matrix /\ more = Append(rows, row)
    OBVIOUS
  <2>2. phase' = "reading" /\ matrix' = more
    BY <1>1, <1>2, <1>4, <2>1
  <2> DEFINE S == [id : {x.id : x \in Entries}, given : {x.given : x \in Entries}]
  <2>3. row \in S /\ rows \in Seq(S)
    BY <2>1 DEF FInv, Accepted
  <2> HIDE DEF S
  <2>4. /\ more \in Seq(S) /\ Len(more) = Len(rows) + 1
        /\ more[Len(rows) + 1] = row /\ \A i \in 1..Len(rows) : more[i] = rows[i]
        /\ Len(rows) \in Nat /\ DOMAIN rows = 1..Len(rows)
        /\ DOMAIN more = 1..(Len(rows) + 1)
    <3>1. Len(rows) \in Nat /\ DOMAIN rows = 1..Len(rows)
      BY <2>3, LenProperties
    <3>2. /\ more \in Seq(S) /\ Len(more) = Len(rows) + 1
          /\ more[Len(rows) + 1] = row /\ \A i \in 1..Len(rows) : more[i] = rows[i]
      BY <2>1, <2>3, AppendProperties
    <3> QED BY <3>1, <3>2, LenProperties
  <2>5. \A g \in row.given : ~ GivenIsRefused(g)
    BY <1>4, <2>1 DEF RowIsRefused
  <2>6. row.id = e.id /\ row.given = e.given
    BY <2>1
  <2>7. ASSUME NEW i \in DOMAIN more
        PROVE  /\ \E x \in Entries : x.id = more[i].id /\ x.given = more[i].given
               /\ \A g \in more[i].given : ~ GivenIsRefused(g)
    <3>1. CASE i = Len(rows) + 1
      BY <2>4, <2>5, <2>6, <3>1
    <3>2. CASE i \in DOMAIN rows
      BY <2>1, <2>4, <3>2 DEF FInv, Accepted
    <3> QED BY <2>4, <3>1, <3>2
  <2>8. Accepted'
    BY <2>2, <2>4, <2>7 DEF Accepted, S
  <2> QED BY <1>1, <2>2, <2>8, SameTables DEF FInv
<1> QED BY <1>3, <1>4

LEMMA RewriteKeeps ==
  ASSUME FInv, Rewrite
  PROVE  FInv'
<1>1. /\ phase' = "reading" /\ matrix' = << >> /\ tables' = tables
      /\ ceiling' = ceiling /\ collided' = collided
  BY DEF Rewrite
<1>2. Accepted'
  BY <1>1, EmptySeq DEF Accepted
<1> QED BY <1>1, <1>2, SameTables DEF FInv

LEMMA LoadKeeps ==
  ASSUME FInv, load
  PROVE  FInv'
<1>1. matrix' = matrix /\ collided' = collided /\ ceiling' = FALSE
  BY DEF load
<1>2. PICK new, old : new = fixtures_for /\ old = tables
  OBVIOUS
<1>3. Accepted /\ Accepted' /\ fixtures_for' = new
  BY <1>1, <1>2, SameRendering DEF FInv
<1>4. Shaped(new) /\ Whole(new) /\ AllNumbered(new)
  BY <1>2, <1>3, RenderingIsWhole
<1>5. AllWritten(new)
  <2>1. ASSUME NEW table, Numbered(table) PROVE Written(table)
    <3>1. PICK n \in Nat : Ids(table) = Texts(n)
      BY <2>1 DEF Numbered
    <3>2. Texts(n) \subseteq {_identifier(k) : k \in 0..n}
      BY DEF Texts
    <3> QED BY <3>1, <3>2 DEF Written
  <2> QED BY <1>4, <2>1 DEF AllWritten, AllNumbered
<1>6. KeysHold(new)
  BY <1>4, WholeChains
<1>7. CASE \A i \in Requisitioned : DatabaseTakes(Given(i))
  <2>1. phase' = "loaded" /\ tables' = new
    BY <1>2, <1>6, <1>7 DEF load
  <2> QED BY <1>1, <1>3, <1>4, <1>5, <2>1 DEF FInv
<1>8. CASE ~ \A i \in Requisitioned : DatabaseTakes(Given(i))
  <2>1. phase' = "unloadable" /\ tables' = old
    BY <1>2, <1>8 DEF load
  <2>2. (\E i \in Requisitioned : ~ DatabaseTakes(Given(i)))'
    BY <1>1, <1>8, SameOwners
  <2>3. Shaped(old) /\ Whole(old) /\ AllWritten(old)
    BY <1>2 DEF FInv
  <2> QED BY <1>1, <1>3, <2>1, <2>2, <2>3 DEF FInv
<1> QED BY <1>7, <1>8

LEMMA CeilingKeeps ==
  ASSUME FInv, at_the_ceiling
  PROVE  FInv'
<1>1. /\ phase = "loaded" /\ ~ ceiling /\ ABSENT \notin Ids(tables.requisition)
      /\ phase' = phase /\ matrix' = matrix /\ collided' = collided /\ ceiling' = TRUE
  BY DEF at_the_ceiling
<1>2. PICK t, u : t = tables /\ u = tables'
  OBVIOUS
<1>3. u = [requisition    |-> t.requisition \cup
             {[row |-> None, id |-> ABSENT, amount |-> 1, status |-> "approved"]},
           purchase_order |-> t.purchase_order \cup
             {[row |-> None, id |-> ABSENT, requisition_id |-> ABSENT,
               status |-> "invoiced"]},
           invoice        |-> t.invoice \cup
             {[row |-> None, id |-> ABSENT, purchase_order_id |-> ABSENT]}]
  BY <1>2 DEF at_the_ceiling
<1>4. Shaped(t) /\ Whole(t) /\ AllNumbered(t) /\ ABSENT \notin Ids(t.requisition)
  BY <1>1, <1>2 DEF FInv
<1>5. Shaped(u) /\ Whole(u) /\ AllWritten(u)
  BY <1>3, <1>4, CeilingAdded
<1> QED BY <1>1, <1>2, <1>5, SameRendering DEF FInv

\* A table that takes a minted identifier stays written, and numbered if it was.
LEMMA MintedTable ==
  ASSUME NEW table, Written(table), NEW more,
         Ids(more) = Ids(table) \cup {_next_identifier(table)}
  PROVE  /\ _next_identifier(table) \notin Ids(table)
         /\ Written(more) /\ (Numbered(table) => Numbered(more))
<1>1. PICK m \in Nat : /\ _next_identifier(table) = _identifier(m)
                       /\ _identifier(m) \notin Ids(table)
                       /\ \A c \in Nat : Ids(table) = Texts(c) => m = c + 1
  BY Minting
<1>2. /\ Written(more)
      /\ \A c \in Nat : Ids(table) = Texts(c) /\ m = c + 1 => Numbered(more)
  BY <1>1, OneMoreText
<1> QED BY <1>1, <1>2 DEF Numbered

LEMMA InsertKeeps ==
  ASSUME FInv, insert
  PROVE  FInv'
<1>1. PICK t, id : t = tables /\ id = _next_identifier(tables.requisition)
  OBVIOUS
<1>2. PICK u : u = [t EXCEPT !.requisition = @ \cup
                      {[row |-> None, id |-> id, amount |-> 1, status |-> "submitted"]}]
  OBVIOUS
<1>3. Committed(u, "requisition", id)
  BY <1>1, <1>2 DEF insert
<1>4. Shaped(t) /\ Whole(t) /\ AllWritten(t) /\ (phase = "loaded" /\ ~ ceiling => AllNumbered(t))
  BY <1>1 DEF FInv
<1>5. id \notin Ids(t.requisition)
  BY <1>1, <1>4, Minting DEF AllWritten
<1>6. /\ phase = "loaded" /\ phase' = phase /\ matrix' = matrix /\ ceiling' = ceiling
      /\ tables' = u /\ collided' = collided
  BY <1>1, <1>3, <1>5 DEF Committed
<1>7. /\ Shaped(u) /\ Whole(u) /\ Ids(u.requisition) = Ids(t.requisition) \cup {id}
      /\ u.purchase_order = t.purchase_order /\ u.invoice = t.invoice
  BY <1>2, <1>4, <1>5, RequisitionAdded
<1>8. AllWritten(u) /\ (AllNumbered(t) => AllNumbered(u))
  BY <1>1, <1>4, <1>7, MintedTable DEF AllWritten, AllNumbered
<1> QED BY <1>4, <1>6, <1>7, <1>8, SameRendering DEF FInv

\* The identifiers alone say whether a table is written and numbered.
LEMMA SameIds ==
  ASSUME NEW a, NEW b, Ids(a) = Ids(b)
  PROVE  (Written(a) => Written(b)) /\ (Numbered(a) => Numbered(b))
BY DEF Written, Numbered

LEMMA DecideKeeps ==
  ASSUME FInv, decide
  PROVE  FInv'
<1>1. PICK t, id : t = tables /\ id = _next_identifier(tables.purchase_order)
  OBVIOUS
<1>2. PICK q \in t.requisition :
        /\ q.status = "submitted"
        /\ Committed([t EXCEPT
                        !.requisition = (@ \ {q}) \cup {[q EXCEPT !.status = "approved"]},
                        !.purchase_order = @ \cup
                          {[row |-> None, id |-> id, requisition_id |-> q.id,
                            status |-> "open"]}],
                     "purchase_order", id)
  BY <1>1 DEF decide
<1>3. PICK u : u = WithOrder(t, q, id)
  OBVIOUS
<1>4. Shaped(t) /\ Whole(t) /\ AllWritten(t) /\ (phase = "loaded" /\ ~ ceiling => AllNumbered(t))
  BY <1>1 DEF FInv
<1>5. id \notin Ids(t.purchase_order)
  BY <1>1, <1>4, Minting DEF AllWritten
<1>6. /\ phase = "loaded" /\ phase' = phase /\ matrix' = matrix /\ ceiling' = ceiling
      /\ tables' = u /\ collided' = collided
  <2>1. Committed(u, "purchase_order", id)
    BY <1>2, <1>3 DEF WithOrder
  <2> QED BY <1>1, <1>5, <2>1 DEF Committed
<1>7. /\ Shaped(u) /\ Whole(u) /\ Ids(u.purchase_order) = Ids(t.purchase_order) \cup {id}
      /\ Ids(u.requisition) = Ids(t.requisition) /\ u.invoice = t.invoice
  BY <1>2, <1>3, <1>4, <1>5, OrderAdded
<1>8. AllWritten(u) /\ (AllNumbered(t) => AllNumbered(u))
  BY <1>1, <1>4, <1>7, MintedTable, SameIds DEF AllWritten, AllNumbered
<1> QED BY <1>4, <1>6, <1>7, <1>8, SameRendering DEF FInv

LEMMA BillKeeps ==
  ASSUME FInv, bill
  PROVE  FInv'
<1>1. PICK t, id : t = tables /\ id = _next_identifier(tables.invoice)
  OBVIOUS
<1>2. PICK o \in t.purchase_order :
        /\ o.status = "open"
        /\ Committed([t EXCEPT
                        !.purchase_order = (@ \ {o}) \cup {[o EXCEPT !.status = "invoiced"]},
                        !.invoice = @ \cup
                          {[row |-> None, id |-> id, purchase_order_id |-> o.id]}],
                     "invoice", id)
  BY <1>1 DEF bill
<1>3. PICK u : u = WithInvoice(t, o, id)
  OBVIOUS
<1>4. Shaped(t) /\ Whole(t) /\ AllWritten(t) /\ (phase = "loaded" /\ ~ ceiling => AllNumbered(t))
  BY <1>1 DEF FInv
<1>5. id \notin Ids(t.invoice)
  BY <1>1, <1>4, Minting DEF AllWritten
<1>6. /\ phase = "loaded" /\ phase' = phase /\ matrix' = matrix /\ ceiling' = ceiling
      /\ tables' = u /\ collided' = collided
  <2>1. Committed(u, "invoice", id)
    BY <1>2, <1>3 DEF WithInvoice
  <2> QED BY <1>1, <1>5, <2>1 DEF Committed
<1>7. /\ Shaped(u) /\ Whole(u) /\ Ids(u.invoice) = Ids(t.invoice) \cup {id}
      /\ Ids(u.purchase_order) = Ids(t.purchase_order) /\ u.requisition = t.requisition
  BY <1>2, <1>3, <1>4, <1>5, InvoiceAdded
<1>8. AllWritten(u) /\ (AllNumbered(t) => AllNumbered(u))
  BY <1>1, <1>4, <1>7, MintedTable, SameIds DEF AllWritten, AllNumbered
<1> QED BY <1>4, <1>6, <1>7, <1>8, SameRendering DEF FInv

LEMMA InitFInv == Init => FInv
<1> SUFFICES ASSUME Init PROVE FInv
  OBVIOUS
<1>1. PICK t : t = tables
  OBVIOUS
<1>2. t = [requisition |-> {}, purchase_order |-> {}, invoice |-> {}]
  BY <1>1 DEF Init, NoTables
<1>3. t.requisition = {} /\ t.purchase_order = {} /\ t.invoice = {} /\ Shaped(t)
  BY <1>2 DEF Shaped
<1>4. Whole(t)
  BY <1>3 DEF Whole, Keyed, OrdersFit, InvoicesFit
<1>5. AllWritten(t)
  <2>1. Written({})
    BY DEF Written, Ids
  <2> QED BY <1>3, <2>1 DEF AllWritten
<1>6. Accepted
  <2>1. matrix = << >>
    BY DEF Init
  <2> QED BY <2>1 DEF Accepted
<1> QED BY <1>1, <1>3, <1>4, <1>5, <1>6 DEF Init, FInv

LEMMA NextFInv == FInv /\ [Next]_vars => FInv'
<1> SUFFICES ASSUME FInv, [Next]_vars PROVE FInv'
  OBVIOUS
<1>1. CASE read_matrix
  BY <1>1, ReadKeeps
<1>2. CASE Rewrite
  BY <1>2, RewriteKeeps
<1>3. CASE load
  BY <1>3, LoadKeeps
<1>4. CASE at_the_ceiling
  BY <1>4, CeilingKeeps
<1>5. CASE insert
  BY <1>5, InsertKeeps
<1>6. CASE decide
  BY <1>6, DecideKeeps
<1>7. CASE bill
  BY <1>7, BillKeeps
<1>8. CASE UNCHANGED vars
  <2>1. /\ phase' = phase /\ matrix' = matrix /\ tables' = tables
        /\ ceiling' = ceiling /\ collided' = collided
    BY <1>8 DEF vars
  <2>2. (phase = "loaded" /\ ~ ceiling => AllNumbered(tables))'
    <3>1. PICK t : t = tables
      OBVIOUS
    <3> QED BY <2>1, <3>1 DEF FInv
  <2> QED BY <2>1, <2>2, SameRendering, SameOwners, SameTables DEF FInv
<1> QED BY <1>1, <1>2, <1>3, <1>4, <1>5, <1>6, <1>7, <1>8 DEF Next

\* Whatever an author writes and whatever the tools mint after it, the database
\* is made of whole chains, its identifiers are texts of numbers, and outside
\* at_the_ceiling they number each table from one on.
THEOREM MatricesNumberSoundly == Spec => []FInv
<1>1. Init => FInv
  BY InitFInv
<1>2. FInv /\ [Next]_vars => FInv'
  BY NextFInv
<1> QED BY <1>1, <1>2, PTL DEF Spec

-----------------------------------------------------------------------------
(* What follows from it *)

\* The matrix holds rows an author wrote, and every identifier in the database
\* (_identifier's and _next_identifier's alike) is digits, as wide as the width.
THEOREM TablesAreTyped == Spec => []TypeOK
<1>1. ASSUME FInv PROVE TypeOK
  <2>1. /\ phase \in {"reading", "refused", "loaded", "unloadable"}
        /\ \A i \in DOMAIN matrix :
             \E e \in Entries : e.id = matrix[i].id /\ e.given = matrix[i].given
        /\ ceiling \in BOOLEAN /\ collided \in BOOLEAN
    BY <1>1 DEF FInv, Accepted
  <2>2. PICK t : t = tables
    OBVIOUS
  <2>3. Shaped(t) /\ AllWritten(t)
    BY <1>1, <2>2 DEF FInv
  <2>4. /\ DOMAIN t = {"requisition", "purchase_order", "invoice"}
        /\ t["requisition"] = t.requisition /\ t["purchase_order"] = t.purchase_order
        /\ t["invoice"] = t.invoice
    BY <2>3 DEF Shaped
  <2>5. \A name \in DOMAIN t : Written(t[name])
    BY <2>3, <2>4 DEF AllWritten
  <2>6. ASSUME NEW name \in DOMAIN t, NEW id \in Ids(t[name]) PROVE IsText(id)
    <3>1. PICK k \in Nat : id = _identifier(k)
      BY <2>5, <2>6 DEF Written
    <3> QED BY <3>1, IdentifierText DEF IsText
  <2> QED BY <2>1, <2>2, <2>4, <2>6 DEF TypeOK
<1> QED BY <1>1, MatricesNumberSoundly, PTL

\* What fixtures_for renders, load inserts and the tools add keeps the schema's
\* keys, and keeps each status in step with the row it speaks of.
THEOREM LoadedChainsAreWhole == Spec => []ChainsAreWhole
<1>1. FInv => ChainsAreWhole
  BY WholeChains DEF FInv, ChainsAreWhole
<1> QED BY <1>1, MatricesNumberSoundly, PTL

\* The numbering of an accepted matrix never repeats a key nor leaves a link
\* open: what load cannot take has a row the schema refuses whatever its number.
THEOREM RefusedForARow == Spec => []OnlyRowsAreUnloadable
<1>1. FInv => OnlyRowsAreUnloadable
  BY DEF FInv, OnlyRowsAreUnloadable
<1> QED BY <1>1, MatricesNumberSoundly, PTL

\* _next_identifier is new to its table, on whichever side of the width.
THEOREM MintsNeverCollide == Spec => []NoMintCollides
<1>1. FInv => NoMintCollides
  BY DEF FInv, NoMintCollides
<1> QED BY <1>1, MatricesNumberSoundly, PTL

\* Every identifier is what _identifier writes for its number: f"{n:04d}" and
\* lpad(n, greatest(4, length(n)), '0') never write one number two ways.
THEOREM NumbersHaveOneText == Spec => []OneTextPerNumber
<1>1. ASSUME FInv PROVE OneTextPerNumber
  <2>1. PICK t : t = tables
    OBVIOUS
  <2>2. Shaped(t) /\ AllWritten(t)
    BY <1>1, <2>1 DEF FInv
  <2>3. /\ DOMAIN t = {"requisition", "purchase_order", "invoice"}
        /\ t["requisition"] = t.requisition /\ t["purchase_order"] = t.purchase_order
        /\ t["invoice"] = t.invoice
    BY <2>2 DEF Shaped
  <2>4. \A name \in DOMAIN t : Written(t[name])
    BY <2>2, <2>3 DEF AllWritten
  <2>5. ASSUME NEW name \in DOMAIN t, NEW id \in Ids(t[name])
        PROVE  id = _identifier(Number(id))
    <3>1. PICK k \in Nat : id = _identifier(k)
      BY <2>4, <2>5 DEF Written
    <3>2. Number(id) = k
      BY <3>1, IdentifierText
    <3> QED BY <3>1, <3>2
  <2> QED BY <2>1, <2>5 DEF OneTextPerNumber
<1> QED BY <1>1, MatricesNumberSoundly, PTL

\* ORDER BY id on requisitions is the order of their numbers among all whose
\* text keeps to the width, whatever was loaded and whatever was minted.
THEOREM SortedUpToTheWidth == Spec => []SortedWhileItFits
<1>1. ASSUME FInv PROVE SortedWhileItFits
  <2>1. Written(tables.requisition)
    BY <1>1 DEF FInv, AllWritten
  <2>2. ASSUME NEW a \in Ids(tables.requisition), NEW b \in Ids(tables.requisition),
               Number(a) < Number(b), Len(b) <= Width
        PROVE  Lexically(a, b)
    <3>1. PICK m \in Nat : a = _identifier(m)
      BY <2>1 DEF Written
    <3>2. PICK n \in Nat : b = _identifier(n)
      BY <2>1 DEF Written
    <3>3. Number(a) = m /\ Number(b) = n
      BY <3>1, <3>2, IdentifierText
    <3> QED BY <2>2, <3>1, <3>2, <3>3, TextsInOrder
  <2> QED BY <2>2 DEF SortedWhileItFits
<1> QED BY <1>1, MatricesNumberSoundly, PTL
===============================================================================
