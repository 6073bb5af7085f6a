------------------------- MODULE PurchaseChainProofs -------------------------
(***************************************************************************)
(* The server implements PurchaseChain: what is committed moves by one     *)
(* promised step at a time, and whoever takes it is entitled to when it    *)
(* takes effect, though the policy chain was shown an earlier state.       *)
(***************************************************************************)
EXTENDS PurchaseAnswersProofs

-----------------------------------------------------------------------------
(* A purchase, read off three tables that hold whole chains *)

Ordered(orders, r) == {o \in DOMAIN orders : orders[o].requisition_id = r}
Billed(invs, ordered) == {i \in DOMAIN invs : invs[i].purchase_order_id \in ordered}

Purchase(reqs, r, stage, approver, recorder) ==
  [partition |-> reqs[r].cost_centre,
   amount    |-> reqs[r].amount,
   submitter |-> reqs[r].submitted_by,
   stage     |-> stage,
   approver  |-> approver,
   recorder  |-> recorder]

\* A purchase nothing has been ordered for.
LEMMA Unordered ==
  ASSUME NEW reqs, NEW orders, NEW invs, NEW r, Ordered(orders, r) = {}
  PROVE  ChainOf(reqs, orders, invs, r)
           = Purchase(reqs, r, reqs[r].status, NoRow, NoRow)
BY DEF Ordered, ChainOf, Purchase

\* One that is ordered and not billed.
LEMMA OrderedOnce ==
  ASSUME NEW reqs, NEW orders, NEW invs, NEW r, NEW o, Ordered(orders, r) = {o},
         Billed(invs, {o}) = {}
  PROVE  ChainOf(reqs, orders, invs, r)
           = Purchase(reqs, r, reqs[r].status, orders[o].approved_by, NoRow)
BY DEF Ordered, Billed, ChainOf, Purchase

\* And one that is billed.
LEMMA BilledOnce ==
  ASSUME NEW reqs, NEW orders, NEW invs, NEW r, NEW o, NEW i,
         Ordered(orders, r) = {o}, Billed(invs, {o}) = {i}
  PROVE  ChainOf(reqs, orders, invs, r)
           = Purchase(reqs, r, "invoiced", orders[o].approved_by, invs[i].recorded_by)
BY DEF Ordered, Billed, ChainOf, Purchase

\* Tables that agree on a purchase's rows read as the same purchase.
LEMMA SamePurchase ==
  ASSUME NEW reqs, NEW orders, NEW invs, NEW reqs2, NEW orders2, NEW invs2, NEW r,
         reqs2[r] = reqs[r],
         Ordered(orders2, r) = Ordered(orders, r),
         \A o \in Ordered(orders, r) : orders2[o].approved_by = orders[o].approved_by,
         Billed(invs2, Ordered(orders, r)) = Billed(invs, Ordered(orders, r)),
         \A i \in Billed(invs, Ordered(orders, r)) :
           invs2[i].recorded_by = invs[i].recorded_by
  PROVE  ChainOf(reqs2, orders2, invs2, r) = ChainOf(reqs, orders, invs, r)
<1> DEFINE ordered == Ordered(orders, r)
           billed == Billed(invs, ordered)
<1>1. \A o \in ordered : (CHOOSE p \in ordered : TRUE) \in ordered
  OBVIOUS
<1>2. \A i \in billed : (CHOOSE j \in billed : TRUE) \in billed
  OBVIOUS
<1>3. ChainOf(reqs, orders, invs, r)
        = [partition |-> reqs[r].cost_centre,
           amount    |-> reqs[r].amount,
           submitter |-> reqs[r].submitted_by,
           stage     |-> IF billed # {} THEN "invoiced" ELSE reqs[r].status,
           approver  |-> IF ordered = {} THEN NoRow
                         ELSE orders[CHOOSE o \in ordered : TRUE].approved_by,
           recorder  |-> IF billed = {} THEN NoRow
                         ELSE invs[CHOOSE i \in billed : TRUE].recorded_by]
  BY DEF ChainOf, Ordered, Billed
<1>4. ChainOf(reqs2, orders2, invs2, r)
        = [partition |-> reqs2[r].cost_centre,
           amount    |-> reqs2[r].amount,
           submitter |-> reqs2[r].submitted_by,
           stage     |-> IF billed # {} THEN "invoiced" ELSE reqs2[r].status,
           approver  |-> IF ordered = {} THEN NoRow
                         ELSE orders2[CHOOSE o \in ordered : TRUE].approved_by,
           recorder  |-> IF billed = {} THEN NoRow
                         ELSE invs2[CHOOSE i \in billed : TRUE].recorded_by]
  <2>1. ChainOf(reqs2, orders2, invs2, r)
          = [partition |-> reqs2[r].cost_centre,
             amount    |-> reqs2[r].amount,
             submitter |-> reqs2[r].submitted_by,
             stage     |-> IF Billed(invs2, Ordered(orders2, r)) # {} THEN "invoiced"
                           ELSE reqs2[r].status,
             approver  |-> IF Ordered(orders2, r) = {} THEN NoRow
                           ELSE orders2[CHOOSE o \in Ordered(orders2, r) : TRUE].approved_by,
             recorder  |-> IF Billed(invs2, Ordered(orders2, r)) = {} THEN NoRow
                           ELSE invs2[CHOOSE i \in Billed(invs2, Ordered(orders2, r)) :
                                        TRUE].recorded_by]
    BY DEF ChainOf, Ordered, Billed
  <2> QED BY <2>1
<1> HIDE DEF ordered, billed
<1>5. ordered # {} => orders2[CHOOSE o \in ordered : TRUE].approved_by
                        = orders[CHOOSE o \in ordered : TRUE].approved_by
  BY <1>1 DEF ordered
<1>6. billed # {} => invs2[CHOOSE i \in billed : TRUE].recorded_by
                       = invs[CHOOSE i \in billed : TRUE].recorded_by
  BY <1>2 DEF ordered, billed
<1> QED BY <1>3, <1>4, <1>5, <1>6

-----------------------------------------------------------------------------
(* The three commits *)

\* A purchase at another stage, and with who took it there.
Staged(p, x) == [p EXCEPT !.stage = x]
ApprovedBy(p, person) == [p EXCEPT !.approver = person]
RecordedBy(p, person) == [p EXCEPT !.recorder = person]

LEMMA PurchaseMoved ==
  ASSUME NEW reqs, NEW r, NEW stage, NEW approver, NEW recorder, NEW x, NEW person
  PROVE  LET p == Purchase(reqs, r, stage, approver, recorder) IN
         /\ Staged(p, x) = Purchase(reqs, r, x, approver, recorder)
         /\ ApprovedBy(p, person) = Purchase(reqs, r, stage, person, recorder)
         /\ RecordedBy(p, person) = Purchase(reqs, r, stage, approver, person)
BY DEF Purchase, Staged, ApprovedBy, RecordedBy

\* The same of one purchase among all.
StagedAt(f, r, x) == [f EXCEPT ![r].stage = x]
ApprovedAt(f, r, person) ==
  [f EXCEPT ![r].stage = "approved", ![r].approver = person]
RecordedAt(f, r, person) ==
  [f EXCEPT ![r].stage = "invoiced", ![r].recorder = person]

LEMMA MovedInPlace ==
  ASSUME NEW f, NEW g, NEW D, f = [s \in D |-> f[s]], g = [s \in D |-> g[s]],
         NEW r \in D, \A s \in D \ {r} : g[s] = f[s], NEW x, NEW p
  PROVE  /\ g[r] = Staged(f[r], x) => g = StagedAt(f, r, x)
         /\ g[r] = ApprovedBy(Staged(f[r], "approved"), p) => g = ApprovedAt(f, r, p)
         /\ g[r] = RecordedBy(Staged(f[r], "invoiced"), p) => g = RecordedAt(f, r, p)
<1>1. \A v : g[r] = v => g = [s \in D |-> IF s = r THEN v ELSE f[s]]
  OBVIOUS
<1>2. ASSUME NEW y
      PROVE  StagedAt(f, r, y) = [s \in D |-> IF s = r THEN Staged(f[r], y) ELSE f[s]]
  BY DEF Staged, StagedAt
<1>3. ApprovedAt(f, r, p)
        = [s \in D |-> IF s = r THEN ApprovedBy(Staged(f[r], "approved"), p) ELSE f[s]]
  <2>1. PICK h : h = StagedAt(f, r, "approved")
    OBVIOUS
  <2>2. ApprovedAt(f, r, p) = [h EXCEPT ![r].approver = p]
    BY <2>1 DEF ApprovedAt, StagedAt
  <2>3. h = [s \in D |-> IF s = r THEN Staged(f[r], "approved") ELSE f[s]]
    BY <1>2, <2>1
  <2>4. /\ DOMAIN h = D /\ h[r] = Staged(f[r], "approved")
        /\ \A s \in D \ {r} : h[s] = f[s]
    BY <2>3
  <2>5. [h EXCEPT ![r].approver = p]
          = [s \in D |-> IF s = r THEN ApprovedBy(h[r], p) ELSE h[s]]
    BY <2>3, <2>4 DEF ApprovedBy
  <2>6. [s \in D |-> IF s = r THEN ApprovedBy(h[r], p) ELSE h[s]]
          = [s \in D |-> IF s = r THEN ApprovedBy(Staged(f[r], "approved"), p) ELSE f[s]]
    BY <2>4
  <2> QED BY <2>2, <2>5, <2>6
<1>4. RecordedAt(f, r, p)
        = [s \in D |-> IF s = r THEN RecordedBy(Staged(f[r], "invoiced"), p) ELSE f[s]]
  <2>1. PICK h : h = StagedAt(f, r, "invoiced")
    OBVIOUS
  <2>2. RecordedAt(f, r, p) = [h EXCEPT ![r].recorder = p]
    BY <2>1 DEF RecordedAt, StagedAt
  <2>3. h = [s \in D |-> IF s = r THEN Staged(f[r], "invoiced") ELSE f[s]]
    BY <1>2, <2>1
  <2>4. /\ DOMAIN h = D /\ h[r] = Staged(f[r], "invoiced")
        /\ \A s \in D \ {r} : h[s] = f[s]
    BY <2>3
  <2>5. [h EXCEPT ![r].recorder = p]
          = [s \in D |-> IF s = r THEN RecordedBy(h[r], p) ELSE h[s]]
    BY <2>3, <2>4 DEF RecordedBy
  <2>6. [s \in D |-> IF s = r THEN RecordedBy(h[r], p) ELSE h[s]]
          = [s \in D |-> IF s = r THEN RecordedBy(Staged(f[r], "invoiced"), p) ELSE f[s]]
    BY <2>4
  <2> QED BY <2>2, <2>5, <2>6
<1> QED BY <1>1, <1>2, <1>3, <1>4

\* Rows that join as whole chains do.
LEMMA JoinsOfAPurchase ==
  ASSUME NEW reqs, NEW orders, NEW invs, WholeChains(reqs, orders, invs),
         NEW r \in DOMAIN reqs
  PROVE  /\ reqs[r].status # "approved" => Ordered(orders, r) = {}
         /\ \A o \in DOMAIN orders : orders[o].requisition_id = r =>
              /\ Ordered(orders, r) = {o} /\ reqs[r].status = "approved"
              /\ orders[o].status # "invoiced" => Billed(invs, {o}) = {}
BY DEF WholeChains, Ordered, Billed

LEMMA SubmitIsAStep ==
  ASSUME IInv, NEW c \in Calls, pc[c] = "commit", Publish(c),
         request[c].tool = "submit_requisition"
  PROVE  Chain!Submit(CallPrincipal(c).subject)
<1>1. PICK reqs, orders, invs, reqs2, n, person, amount :
        /\ reqs = requisition /\ orders = purchase_order /\ invs = invoice
        /\ reqs2 = requisition' /\ n = minted[c]
        /\ person = CallPrincipal(c).subject /\ amount = request[c].amount
  OBVIOUS
<1>2. /\ n = Len(reqs) + 1 /\ n \notin DOMAIN reqs
      /\ DOMAIN reqs2 = DOMAIN reqs \cup {n}
      /\ \A r \in DOMAIN reqs : reqs2[r] = reqs[r]
      /\ reqs2[n] = [cost_centre  |-> Directory[person].partition,
                     amount       |-> amount,
                     submitted_by |-> person,
                     status       |-> "submitted"]
      /\ orders = purchase_order' /\ invs = invoice'
  BY <1>1, SubmitWrites DEF CallPrincipal, Principal
<1>3. /\ WholeChains(reqs, orders, invs) /\ Len(reqs) \in Nat /\ DOMAIN reqs = 1..Len(reqs)
  BY <1>1, LenProperties DEF IInv, ChainIntact, TypeOK
<1>4. PICK f, g : f = ChainsOf(reqs, orders, invs) /\ g = ChainsOf(reqs2, orders, invs)
  OBVIOUS
<1>5. \A r \in DOMAIN reqs : g[r] = f[r]
  <2>1. ASSUME NEW r \in DOMAIN reqs
        PROVE  ChainOf(reqs2, orders, invs, r) = ChainOf(reqs, orders, invs, r)
    BY <1>2, SamePurchase
  <2> QED BY <1>2, <1>4, <2>1 DEF ChainsOf
<1> DEFINE new == [partition |-> Directory[person].partition,
                   amount    |-> amount,
                   submitter |-> person,
                   stage     |-> "submitted",
                   approver  |-> NoRow,
                   recorder  |-> NoRow]
<1>6. g[n] = new
  <2>1. Ordered(orders, n) = {}
    BY <1>2, <1>3 DEF WholeChains, Ordered
  <2>2. g[n] = Purchase(reqs2, n, reqs2[n].status, NoRow, NoRow)
    BY <1>2, <1>4, <2>1, Unordered DEF ChainsOf
  <2> QED BY <1>2, <2>2 DEF Purchase
<1>7. g = Append(f, new)
  <2> HIDE DEF new
  <2> DEFINE S == {g[i] : i \in DOMAIN g} \cup {f[i] : i \in DOMAIN f} \cup {new}
  <2>1. DOMAIN f = 1..Len(reqs) /\ f = [i \in DOMAIN f |-> f[i]]
    BY <1>3, <1>4 DEF ChainsOf
  <2>2. DOMAIN g = 1..(Len(reqs) + 1) /\ g = [i \in DOMAIN g |-> g[i]]
    BY <1>2, <1>3, <1>4 DEF ChainsOf
  <2>3. f \in [1..Len(reqs) -> S]
    BY <2>1
  <2>4. g \in [1..(Len(reqs) + 1) -> S]
    BY <2>2
  <2>5. new \in S
    OBVIOUS
  <2> HIDE DEF S
  <2>6. f \in Seq(S) /\ g \in Seq(S)
    BY <1>3, <2>3, <2>4, SeqDef
  <2>7. Len(f) = Len(reqs) /\ Len(g) = Len(reqs) + 1
    BY <1>3, <2>1, <2>2, <2>6, LenProperties
  <2>8. PICK t : t = Append(f, new)
    OBVIOUS
  <2>9. /\ t \in Seq(S) /\ Len(t) = Len(f) + 1 /\ \A i \in 1..Len(f) : t[i] = f[i]
        /\ t[Len(f) + 1] = new
    BY <2>5, <2>6, <2>8, AppendProperties
  <2>10. \A i \in 1..Len(g) : g[i] = t[i]
    BY <1>2, <1>3, <1>5, <1>6, <2>7, <2>9
  <2> QED BY <2>6, <2>7, <2>8, <2>9, <2>10, SeqEqual
<1>8. amount \in {q.amount : q \in Offered}
  BY <1>1 DEF IInv, TypeOK
<1>9. /\ f = ChainsOf(requisition, purchase_order, invoice)
      /\ g = ChainsOf(requisition, purchase_order, invoice)'
  BY <1>1, <1>2, <1>4
<1> QED BY <1>1, <1>7, <1>8, <1>9 DEF Chain!Submit

\* Who the chain permitted a row is still entitled to it when the write commits.
LEMMA EntitledToDecide ==
  ASSUME IInv, AInv, NEW c \in Calls, pc[c] = "commit",
         request[c].tool = "approve_requisition",
         NEW person, person = CallPrincipal(c).subject,
         NEW row, row = requisition[Named(c)]
  PROVE  /\ Directory[person].roles \cap {"approver", "unlimited_approver"} # {}
         /\ Directory[person].partition = row.cost_centre
         /\ person # row.submitted_by
         /\ \/ row.amount <= Threshold
            \/ Directory[person].roles \cap {"unlimited_approver"} # {}
<1>1. PICK p, entity : p = Asker(request[c]) /\ entity = RequisitionById(Named(c))
  OBVIOUS
<1>2. /\ p.roles = Directory[person].roles /\ p.partition = Directory[person].partition
      /\ p.subject = person
  BY <1>1 DEF Asker, CallPrincipal, Principal
<1>3. /\ pc[c] \in Transacting /\ Busy(c) /\ Action(request[c].tool) = ApproveAction
      /\ request[c].tool \in Tools /\ RowFor(request[c], Named(c)) = entity
  BY <1>1 DEF Transacting, Busy, Action, Tools, RowFor
<1>4. /\ Named(c) \in DOMAIN requisition
      /\ decide_item(p, ApproveAction, entity) = Permitted
      /\ within_row_scope(p, ApproveAction, entity)
      /\ permits_scope(p, ApproveAction)
  BY <1>1, <1>3, Writing, Handling DEF Within
<1>5. /\ entity.partition = row.cost_centre /\ entity.amount = row.amount
      /\ entity.submitted_by = row.submitted_by
  BY <1>1, <1>4 DEF RequisitionById
<1>6. row.amount \in Nat /\ Threshold \in Nat
  <2>1. requisition \in [DOMAIN requisition -> RequisitionRow]
    BY LenProperties DEF IInv, TypeOK
  <2>2. row \in RequisitionRow
    BY <1>4, <2>1
  <2> QED BY <2>2, DirectoryAssumption DEF RequisitionRow
<1>7. /\ decide_call(p, ApproveAction) = Permitted
      /\ \A i \in DOMAIN ApproveAction.rules :
           RuleAnswer(ApproveAction.rules[i], p, entity) = Permitted
  BY <1>4, DecideItemSays
<1>8. /\ RuleAnswer("refuse_over_threshold", p, entity) = Permitted
      /\ RuleAnswer("refuse_own_requisition", p, entity) = Permitted
  <2>1. /\ 1 \in DOMAIN ApproveAction.rules /\ 2 \in DOMAIN ApproveAction.rules
        /\ ApproveAction.rules[1] = "refuse_over_threshold"
        /\ ApproveAction.rules[2] = "refuse_own_requisition"
    BY DEF ApproveAction
  <2> QED BY <1>7, <2>1
<1>9. \/ entity.amount <= Threshold
      \/ "unlimited_approver" \in p.roles
  BY <1>5, <1>6, <1>8 DEF RuleAnswer, refuse_over_threshold, Permitted
<1>10. p.subject # entity.submitted_by
  BY <1>8 DEF RuleAnswer, refuse_own_requisition, Permitted
<1>11. p.roles \cap {"approver", "unlimited_approver"} # {}
  BY <1>7 DEF decide_call, ApproveAction, Permitted
<1>12. p.partition = entity.partition
  BY <1>4 DEF within_row_scope, ApproveAction
<1> QED BY <1>2, <1>5, <1>9, <1>10, <1>11, <1>12

LEMMA EntitledToBill ==
  ASSUME IInv, AInv, NEW c \in Calls, pc[c] = "commit",
         request[c].tool = "record_invoice",
         NEW person, person = CallPrincipal(c).subject,
         NEW order, order = purchase_order[Named(c)]
  PROVE  /\ Directory[person].roles \cap {"invoice_clerk"} # {}
         /\ Directory[person].partition = requisition[order.requisition_id].cost_centre
         /\ person # order.approved_by
<1>1. PICK p, entity : p = Asker(request[c]) /\ entity = OrderById(Named(c))
  OBVIOUS
<1>2. /\ p.roles = Directory[person].roles /\ p.partition = Directory[person].partition
      /\ p.subject = person
  BY <1>1 DEF Asker, CallPrincipal, Principal
<1>3. /\ pc[c] \in Transacting /\ Busy(c) /\ Action(request[c].tool) = RecordAction
      /\ request[c].tool \in Tools /\ RowFor(request[c], Named(c)) = entity
  BY <1>1 DEF Transacting, Busy, Action, Tools, RowFor
<1>4. /\ Named(c) \in DOMAIN purchase_order
      /\ decide_item(p, RecordAction, entity) = Permitted
      /\ within_row_scope(p, RecordAction, entity)
      /\ permits_scope(p, RecordAction)
  BY <1>1, <1>3, Writing, Handling DEF Within
<1>5. /\ entity.partition = requisition[order.requisition_id].cost_centre
      /\ entity.approved_by = order.approved_by
  BY <1>1, <1>4 DEF OrderById
<1>6. /\ decide_call(p, RecordAction) = Permitted
      /\ \A i \in DOMAIN RecordAction.rules :
           RuleAnswer(RecordAction.rules[i], p, entity) = Permitted
  BY <1>4, DecideItemSays
<1>7. RuleAnswer("refuse_own_approval", p, entity) = Permitted
  <2>1. 1 \in DOMAIN RecordAction.rules /\ RecordAction.rules[1] = "refuse_own_approval"
    BY DEF RecordAction
  <2> QED BY <1>6, <2>1
<1>8. p.subject # entity.approved_by
  BY <1>7 DEF RuleAnswer, refuse_own_approval, Permitted
<1>9. p.roles \cap {"invoice_clerk"} # {}
  BY <1>6 DEF decide_call, RecordAction, Permitted
<1>10. p.partition = entity.partition
  BY <1>4 DEF within_row_scope, RecordAction
<1> QED BY <1>2, <1>5, <1>8, <1>9, <1>10

LEMMA DecideIsAStep ==
  ASSUME IInv, IInv', AInv, NEW c \in Calls, pc[c] = "commit", Publish(c),
         request[c].tool = "approve_requisition"
  PROVE  LET person == CallPrincipal(c).subject IN
         /\ Named(c) \in DOMAIN requisition
         /\ Chain!Approve(person, Named(c)) \/ Chain!Reject(person, Named(c))
<1>1. PICK reqs, orders, invs, reqs2, orders2, n, r, person, status :
        /\ reqs = requisition /\ orders = purchase_order /\ invs = invoice
        /\ reqs2 = requisition' /\ orders2 = purchase_order' /\ n = minted[c]
        /\ r = Named(c) /\ person = CallPrincipal(c).subject /\ status = DecidedStatus(c)
  OBVIOUS
<1>2. /\ r \in DOMAIN reqs /\ reqs[r].status = "submitted" /\ DOMAIN reqs2 = DOMAIN reqs
      /\ \A s \in DOMAIN reqs \ {r} : reqs2[s] = reqs[s]
      /\ reqs2[r] = [reqs[r] EXCEPT !.status = status] /\ reqs2[r].status = status
      /\ invs = invoice'
  BY <1>1, DecideWrites
<1>3. \/ status = "rejected" /\ orders2 = orders
      \/ /\ status = "approved" /\ n \notin DOMAIN orders
         /\ DOMAIN orders2 = DOMAIN orders \cup {n}
         /\ \A o \in DOMAIN orders : orders2[o] = orders[o]
         /\ orders2[n].requisition_id = r /\ orders2[n].approved_by = person
         /\ orders2[n].status = "open"
  <2>1. /\ request[c].decision # "approve" => orders2 = orders
        /\ request[c].decision = "approve" =>
             /\ n \notin DOMAIN orders /\ DOMAIN orders2 = DOMAIN orders \cup {n}
             /\ \A o \in DOMAIN orders : orders2[o] = orders[o]
             /\ orders2[n] = [requisition_id |-> r, approved_by |-> person,
                              status |-> "open"]
    BY <1>1, DecideWrites
  <2>2. status = IF request[c].decision = "approve" THEN "approved" ELSE "rejected"
    BY <1>1 DEF DecidedStatus
  <2> QED BY <2>1, <2>2
<1>4. WholeChains(reqs, orders, invs) /\ WholeChains(reqs2, orders2, invs)
  BY <1>1, <1>2 DEF IInv, ChainIntact
<1>5. PICK f, g : f = ChainsOf(reqs, orders, invs) /\ g = ChainsOf(reqs2, orders2, invs)
  OBVIOUS
<1>6. /\ f = [s \in DOMAIN reqs |-> f[s]] /\ g = [s \in DOMAIN reqs |-> g[s]]
      /\ \A s \in DOMAIN reqs : /\ f[s] = ChainOf(reqs, orders, invs, s)
                                /\ g[s] = ChainOf(reqs2, orders2, invs, s)
  BY <1>2, <1>5 DEF ChainsOf
<1>7. f[r] = Purchase(reqs, r, "submitted", NoRow, NoRow)
  <2>1. Ordered(orders, r) = {}
    BY <1>2, <1>4, JoinsOfAPurchase
  <2> QED BY <1>2, <1>6, <2>1, Unordered
<1>8. ASSUME NEW s \in DOMAIN reqs \ {r} PROVE g[s] = f[s]
  <2>1. Ordered(orders2, s) = Ordered(orders, s)
    BY <1>3, <1>8 DEF Ordered
  <2>2. \A o \in Ordered(orders, s) : orders2[o].approved_by = orders[o].approved_by
    BY <1>3 DEF Ordered
  <2>3. ChainOf(reqs2, orders2, invs, s) = ChainOf(reqs, orders, invs, s)
    BY <1>2, <1>8, <2>1, <2>2, SamePurchase
  <2> QED BY <1>6, <1>8, <2>3
<1>9. /\ reqs2[r].cost_centre = reqs[r].cost_centre /\ reqs2[r].amount = reqs[r].amount
      /\ reqs2[r].submitted_by = reqs[r].submitted_by
  <2>1. requisition \in [DOMAIN requisition -> RequisitionRow]
    BY LenProperties DEF IInv, TypeOK
  <2>2. reqs[r] \in RequisitionRow
    BY <1>1, <1>2, <2>1
  <2> QED BY <1>2, <2>2 DEF RequisitionRow
<1>10. Chain!MayDecide(person, f[r]) /\ f[r].stage = "submitted"
  <2>1. /\ f[r].partition = reqs[r].cost_centre /\ f[r].amount = reqs[r].amount
        /\ f[r].submitter = reqs[r].submitted_by /\ f[r].stage = "submitted"
    BY <1>7 DEF Purchase
  <2>2. /\ Directory[person].roles \cap {"approver", "unlimited_approver"} # {}
        /\ Directory[person].partition = reqs[r].cost_centre
        /\ person # reqs[r].submitted_by
        /\ \/ reqs[r].amount <= Threshold
           \/ Directory[person].roles \cap {"unlimited_approver"} # {}
    BY <1>1, EntitledToDecide
  <2> QED BY <2>1, <2>2 DEF Chain!MayDecide, Chain!Has
<1>11. CASE status = "rejected" /\ orders2 = orders
  <2>1. Ordered(orders2, r) = {}
    BY <1>2, <1>4, <1>11, JoinsOfAPurchase
  <2>2. g[r] = Purchase(reqs2, r, "rejected", NoRow, NoRow)
    <3>1. g[r] = ChainOf(reqs2, orders2, invs, r)
      BY <1>2, <1>6
    <3>2. reqs2[r].status = "rejected"
      BY <1>2, <1>11
    <3> QED BY <2>1, <3>1, <3>2, Unordered
  <2>3. g[r] = Staged(f[r], "rejected")
    <3>1. Purchase(reqs2, r, "rejected", NoRow, NoRow)
            = Purchase(reqs, r, "rejected", NoRow, NoRow)
      BY <1>9 DEF Purchase
    <3> QED BY <1>7, <2>2, <3>1, PurchaseMoved
  <2>4. g = StagedAt(f, r, "rejected")
    BY <1>2, <1>6, <1>8, <2>3, MovedInPlace
  <2>5. /\ f = ChainsOf(requisition, purchase_order, invoice)
        /\ g = ChainsOf(requisition, purchase_order, invoice)'
    BY <1>1, <1>2, <1>5
  <2> QED BY <1>1, <1>2, <1>10, <2>4, <2>5 DEF Chain!Reject, StagedAt
<1>12. CASE status # "rejected"
  <2>1. /\ n \in DOMAIN orders2 /\ orders2[n].requisition_id = r
        /\ orders2[n].approved_by = person /\ orders2[n].status # "invoiced"
        /\ status = "approved"
    BY <1>3, <1>12
  <2>2. Ordered(orders2, r) = {n} /\ Billed(invs, {n}) = {}
    BY <1>2, <1>4, <2>1, JoinsOfAPurchase
  <2>3. g[r] = Purchase(reqs2, r, "approved", person, NoRow)
    <3>1. g[r] = ChainOf(reqs2, orders2, invs, r)
      BY <1>2, <1>6
    <3>2. reqs2[r].status = "approved"
      BY <1>2, <2>1
    <3> QED BY <2>1, <2>2, <3>1, <3>2, OrderedOnce
  <2>4. g[r] = ApprovedBy(Staged(f[r], "approved"), person)
    <3>1. Purchase(reqs2, r, "approved", person, NoRow)
            = Purchase(reqs, r, "approved", person, NoRow)
      BY <1>9 DEF Purchase
    <3> QED BY <1>7, <2>3, <3>1, PurchaseMoved
  <2>5. g = ApprovedAt(f, r, person)
    BY <1>2, <1>6, <1>8, <2>4, MovedInPlace
  <2>6. /\ f = ChainsOf(requisition, purchase_order, invoice)
        /\ g = ChainsOf(requisition, purchase_order, invoice)'
    BY <1>1, <1>2, <1>5
  <2> QED BY <1>1, <1>2, <1>10, <2>5, <2>6 DEF Chain!Approve, ApprovedAt
<1> QED BY <1>3, <1>11, <1>12

LEMMA BillIsAStep ==
  ASSUME IInv, IInv', AInv, NEW c \in Calls, pc[c] = "commit", Publish(c),
         request[c].tool = "record_invoice"
  PROVE  \E r \in DOMAIN requisition : Chain!Bill(CallPrincipal(c).subject, r)
<1>1. PICK reqs, orders, invs, orders2, invs2, n, o, person, r :
        /\ reqs = requisition /\ orders = purchase_order /\ invs = invoice
        /\ orders2 = purchase_order' /\ invs2 = invoice' /\ n = minted[c]
        /\ o = Named(c) /\ person = CallPrincipal(c).subject
        /\ r = orders[o].requisition_id
  OBVIOUS
<1>2. /\ o \in DOMAIN orders /\ orders[o].status = "open"
      /\ DOMAIN orders2 = DOMAIN orders
      /\ \A p \in DOMAIN orders :
           /\ orders2[p].requisition_id = orders[p].requisition_id
           /\ orders2[p].approved_by = orders[p].approved_by
      /\ n \notin DOMAIN invs /\ DOMAIN invs2 = DOMAIN invs \cup {n}
      /\ \A i \in DOMAIN invs : invs2[i] = invs[i]
      /\ invs2[n] = [purchase_order_id |-> o, recorded_by |-> person]
      /\ reqs = requisition'
  BY <1>1, BillWrites
<1>3. WholeChains(reqs, orders, invs) /\ WholeChains(reqs, orders2, invs2)
  BY <1>1, <1>2 DEF IInv, ChainIntact
<1>4. PICK f, g : f = ChainsOf(reqs, orders, invs) /\ g = ChainsOf(reqs, orders2, invs2)
  OBVIOUS
<1>5. /\ f = [s \in DOMAIN reqs |-> f[s]] /\ g = [s \in DOMAIN reqs |-> g[s]]
      /\ \A s \in DOMAIN reqs : /\ f[s] = ChainOf(reqs, orders, invs, s)
                                /\ g[s] = ChainOf(reqs, orders2, invs2, s)
  BY <1>4 DEF ChainsOf
<1>6. r \in DOMAIN reqs
  BY <1>1, <1>2, <1>3 DEF WholeChains
<1>7. /\ Ordered(orders, r) = {o} /\ reqs[r].status = "approved" /\ Billed(invs, {o}) = {}
  <2>1. o \in DOMAIN orders /\ orders[o].requisition_id = r /\ orders[o].status # "invoiced"
    BY <1>1, <1>2
  <2> QED BY <1>3, <1>6, <2>1, JoinsOfAPurchase
<1>8. \A s : Ordered(orders2, s) = Ordered(orders, s)
  BY <1>2 DEF Ordered
<1>9. f[r] = Purchase(reqs, r, "approved", orders[o].approved_by, NoRow)
  BY <1>5, <1>6, <1>7, OrderedOnce
<1>10. g[r] = Purchase(reqs, r, "invoiced", orders[o].approved_by, person)
  <2>1. Ordered(orders2, r) = {o}
    BY <1>7, <1>8
  <2>2. Billed(invs2, {o}) = {n}
    BY <1>2, <1>7 DEF Billed
  <2>3. invs2[n].recorded_by = person /\ orders2[o].approved_by = orders[o].approved_by
    BY <1>2
  <2> QED BY <1>5, <1>6, <2>1, <2>2, <2>3, BilledOnce
<1>11. ASSUME NEW s \in DOMAIN reqs \ {r} PROVE g[s] = f[s]
  <2>1. o \notin Ordered(orders, s)
    BY <1>1, <1>11 DEF Ordered
  <2>2. \A p \in Ordered(orders, s) : orders2[p].approved_by = orders[p].approved_by
    BY <1>2 DEF Ordered
  <2>3. Billed(invs2, Ordered(orders, s)) = Billed(invs, Ordered(orders, s))
    BY <1>2, <2>1 DEF Billed
  <2>4. \A i \in Billed(invs, Ordered(orders, s)) : invs2[i].recorded_by = invs[i].recorded_by
    BY <1>2 DEF Billed
  <2>5. ChainOf(reqs, orders2, invs2, s) = ChainOf(reqs, orders, invs, s)
    BY <1>8, <2>2, <2>3, <2>4, SamePurchase
  <2> QED BY <1>5, <1>11, <2>5
<1>12. Chain!MayBill(person, f[r]) /\ f[r].stage = "approved"
  <2>1. /\ f[r].partition = reqs[r].cost_centre /\ f[r].approver = orders[o].approved_by
        /\ f[r].stage = "approved"
    BY <1>9 DEF Purchase
  <2>2. /\ Directory[person].roles \cap {"invoice_clerk"} # {}
        /\ Directory[person].partition = reqs[r].cost_centre
        /\ person # orders[o].approved_by
    BY <1>1, EntitledToBill
  <2> QED BY <2>1, <2>2 DEF Chain!MayBill, Chain!Has
<1>13. g = RecordedAt(f, r, person)
  <2>1. g[r] = RecordedBy(Staged(f[r], "invoiced"), person)
    BY <1>9, <1>10, PurchaseMoved
  <2> QED BY <1>5, <1>6, <1>11, <2>1, MovedInPlace
<1>14. /\ f = ChainsOf(requisition, purchase_order, invoice)
       /\ g = ChainsOf(requisition, purchase_order, invoice)'
  BY <1>1, <1>2, <1>4
<1> QED BY <1>1, <1>6, <1>12, <1>13, <1>14 DEF Chain!Bill, RecordedAt

-----------------------------------------------------------------------------
(* The refinement *)

LEMMA CommitIsAStep ==
  ASSUME IInv, IInv', AInv, NEW c \in Calls, Commit(c) \/ CommitUnacknowledged(c)
  PROVE  Chain!Next
<1>1. pc[c] = "commit" /\ Publish(c)
  BY DEF Commit, CommitUnacknowledged
<1>2. CallPrincipal(c).subject \in People /\ request[c].tool \in Writers
  BY <1>1, Committing
<1>3. DOMAIN ChainsOf(requisition, purchase_order, invoice) = DOMAIN requisition
  BY DEF ChainsOf
<1>4. CASE request[c].tool = "submit_requisition"
  BY <1>1, <1>2, <1>4, SubmitIsAStep DEF Chain!Next
<1>5. CASE request[c].tool = "approve_requisition"
  BY <1>1, <1>2, <1>3, <1>5, DecideIsAStep DEF Chain!Next
<1>6. CASE request[c].tool = "record_invoice"
  BY <1>1, <1>2, <1>3, <1>6, BillIsAStep DEF Chain!Next
<1> QED BY <1>2, <1>4, <1>5, <1>6 DEF Writers

LEMMA StepsArePromised ==
  ASSUME IInv, IInv', AInv, [Next]_vars
  PROVE  [Chain!Next]_(ChainsOf(requisition, purchase_order, invoice))
<1>1. CASE UNCHANGED tables
  BY <1>1 DEF tables
<1>2. CASE ~UNCHANGED tables
  <2>1. PICK c \in Calls : Commit(c) \/ CommitUnacknowledged(c)
    BY <1>2 DEF Next, vars, tables, Quiet, Receive, Handle, Fault, ListRows, GetRow,
       DecideItem, RecordItem, Connect, DecideRow, BillRow, AcquireMint, Insert,
       MintOverflow, Fail, Rollback
  <2> QED BY <2>1, CommitIsAStep
<1> QED BY <1>1, <1>2

\* The server keeps the promise of PurchaseChain: every commit is one step of a
\* purchase, by a person whom the submit, approve and record rules entitle to it
\* in the state it takes effect in, and no other statement moves a purchase.
THEOREM ServerImplementsChain == Spec => ImplementsChain
<1>1. Init => Chain!Init
  BY DEF Init, Chain!Init
<1>2. /\ IInv /\ AInv /\ IInv' /\ [Next]_vars
      => [Chain!Next]_(ChainsOf(requisition, purchase_order, invoice))
  BY StepsArePromised
<1> QED BY <1>1, <1>2, AnswersHold, PTL DEF Spec, ImplementsChain, Chain!Spec
=============================================================================
