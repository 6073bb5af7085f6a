------------------------ MODULE PurchaseAnswersProofs ------------------------
(***************************************************************************)
(* What the answers of the purchase-to-pay server mean, for any number of  *)
(* calls, any directory and any offered requests: an answer once given     *)
(* speaks of rows that later steps cannot make it wrong about.             *)
(***************************************************************************)
EXTENDS PurchaseToPayProofs

-----------------------------------------------------------------------------
(* The inductive invariant of the answers *)

Asker(q) == Principal(q.caller, q.granted)

\* The row an identifier names for a request's tool, as the chain is shown it.
RowFor(q, id) ==
  IF q.tool = "record_invoice" THEN OrderById(id) ELSE RequisitionById(id)

\* A row that is there, and in the scope of whoever asks.
Within(q, id) ==
  /\ id \in DOMAIN (IF q.tool = "record_invoice" THEN purchase_order ELSE requisition)
  /\ within_row_scope(Asker(q), Action(q.tool), RowFor(q, id))

\* Request q decided requisition r, and the order it minted, if any, is there.
Took(q, r, id) ==
  /\ r \in DOMAIN requisition
  /\ requisition[r].status = IF q.decision = "approve" THEN "approved" ELSE "rejected"
  /\ q.decision = "approve" =>
       /\ id \in DOMAIN purchase_order
       /\ purchase_order[id].requisition_id = r
       /\ purchase_order[id].approved_by = q.caller

\* What may be relied on of the i-th outcome o that request q was answered with.
Sound(q, i, o) ==
  /\ o.reason # "insufficient_scope"
  /\ o.reason \notin {Permitted, "role_missing", "not_found"} =>
       Within(q, q.ids[i]) /\ RowFor(q, q.ids[i]) # NoRow
  /\ \A id \in o.rows : Within(q, id)
  /\ q.tool = "approve_requisition" /\ o.reason = Permitted =>
       /\ q.decision # "unknown"
       /\ o.rows = {q.ids[i]}
       /\ Took(q, q.ids[i], o.minted)

\* What is known of a call that has not been answered: the gates let it in, and
\* once it writes the chain has permitted it the row it names.
Admitted(c) ==
  LET q == request[c] IN
  /\ pc[c] # "answered" => response[c] = "none"
  /\ Busy(c) => permits_scope(Asker(q), Action(q.tool))
  /\ Busy(c) /\ Gated(q.tool) => decide_call(Asker(q), Action(q.tool)) = Permitted
  /\ pc[c] \in Transacting /\ q.tool # "submit_requisition" =>
       decide_item(Asker(q), Action(q.tool), RowFor(q, Named(c))) = Permitted
  /\ pc[c] \in Transacting /\ q.tool = "approve_requisition" =>
       q.decision # "unknown"

\* What the response says of the outcomes it was made from.
Replied(c) ==
  /\ (\E i \in DOMAIN answers[c] : Told(c, i) = "role_missing") =>
       response[c] = "role_denied"
  /\ response[c] \in {"result", "tool_error"} => Len(answers[c]) = Wanted(request[c])
  /\ response[c] = "invalid_params" =>
       \A i \in DOMAIN answers[c] : Told(c, i) # Permitted
  /\ response[c] = "internal_error" => c \in MayFail \/ MintExhausted

Heard(c) == \A i \in DOMAIN answers[c] : Sound(request[c], i, answers[c][i])

Won(c, i) == request[c].tool = "approve_requisition" /\ Told(c, i) = Permitted

\* No two answers say of one requisition that they decided it.
OneWinner ==
  \A c, d \in Calls : \A i \in DOMAIN answers[c], j \in DOMAIN answers[d] :
    Won(c, i) /\ Won(d, j) /\ request[c].ids[i] = request[d].ids[j]
      => c = d /\ i = j

AInv ==
  /\ \A c \in Calls : Admitted(c) /\ Heard(c) /\ Replied(c)
  /\ OneWinner

-----------------------------------------------------------------------------
(* The policy chain *)

\* The relationship rules give two reasons, which speak of a row in scope.
LEMMA FirstRefusalSays ==
  ASSUME NEW principal, NEW resource,
         NEW action \in {ReadAction, ApproveAction, RecordAction}
  PROVE  /\ FirstRefusal(principal, action, resource)
              \in {Permitted, "over_threshold", "segregation_of_duties"}
         /\ FirstRefusal(principal, action, resource) = Permitted =>
              \A i \in DOMAIN action.rules :
                RuleAnswer(action.rules[i], principal, resource) = Permitted
<1> DEFINE refusing == {i \in DOMAIN action.rules :
                          RuleAnswer(action.rules[i], principal, resource) # Permitted}
<1>1. \A i \in DOMAIN action.rules :
        RuleAnswer(action.rules[i], principal, resource)
          \in {Permitted, "over_threshold", "segregation_of_duties"}
  BY DEF ReadAction, ApproveAction, RecordAction, RuleAnswer, Permitted,
         refuse_over_threshold, refuse_own_requisition, refuse_own_approval
<1>2. ASSUME refusing # {} PROVE Min(refusing) \in refusing
  <2>1. DOMAIN action.rules \subseteq 1..2
    BY DEF ReadAction, ApproveAction, RecordAction
  <2>2. \E x \in refusing : \A y \in refusing : x =< y
    BY <1>2, <2>1
  <2> QED BY <2>2 DEF Min
<1>3. CASE refusing = {}
  BY <1>3 DEF FirstRefusal
<1>4. CASE refusing # {}
  <2> DEFINE i == Min(refusing)
  <2>1. i \in DOMAIN action.rules
        /\ RuleAnswer(action.rules[i], principal, resource) # Permitted
    BY <1>2, <1>4
  <2>2. FirstRefusal(principal, action, resource)
          = RuleAnswer(action.rules[i], principal, resource)
    BY <1>4 DEF FirstRefusal
  <2> QED BY <1>1, <2>1, <2>2
<1> QED BY <1>3, <1>4

\* A caller whose token has the scope is told of a row outside its own scope no
\* more than that it was not found.
LEMMA DecideItemSays ==
  ASSUME NEW principal, NEW resource,
         NEW action \in {ReadAction, ApproveAction, RecordAction},
         permits_scope(principal, action)
  PROVE  LET reason == decide_item(principal, action, resource) IN
         /\ reason # "insufficient_scope"
         /\ reason \notin {"role_missing", "not_found"} =>
              resource # NoRow /\ within_row_scope(principal, action, resource)
         /\ reason = "role_missing" => decide_call(principal, action) = "role_missing"
         /\ reason = Permitted =>
              /\ decide_call(principal, action) = Permitted
              /\ \A i \in DOMAIN action.rules :
                   RuleAnswer(action.rules[i], principal, resource) = Permitted
<1>1. decide_call(principal, action) \in {Permitted, "role_missing"}
  BY DEF decide_call
<1> QED BY <1>1, FirstRefusalSays DEF decide_item, Permitted

\* The action a tool is decided under.
LEMMA ActionOf ==
  ASSUME NEW tool \in Tools
  PROVE  /\ tool # "submit_requisition" =>
              Action(tool) \in {ReadAction, ApproveAction, RecordAction}
         /\ tool \in {"list_requisitions", "get_requisition"} => Action(tool) = ReadAction
         /\ tool = "approve_requisition" => Action(tool) = ApproveAction
         /\ tool = "record_invoice" => Action(tool) = RecordAction
         /\ tool = "submit_requisition" => Action(tool) = SubmitAction
BY DEF Tools, Action

-----------------------------------------------------------------------------
(* What a step leaves of what was said *)

\* An entity the chain was shown stays what it was.
LEMMA RowsKept ==
  ASSUME IInv, [RowsOnlyAdvance]_tables
  PROVE  /\ \A id \in DOMAIN requisition :
              id \in DOMAIN requisition' /\ RequisitionById(id)' = RequisitionById(id)
         /\ \A id \in DOMAIN purchase_order :
              id \in DOMAIN purchase_order' /\ OrderById(id)' = OrderById(id)
<1>1. /\ requisition \in [DOMAIN requisition -> RequisitionRow]
      /\ purchase_order \in [DOMAIN purchase_order -> OrderRow]
  BY LenProperties DEF IInv, TypeOK
<1>2. ASSUME NEW id \in DOMAIN requisition
      PROVE  /\ id \in DOMAIN requisition'
             /\ requisition'[id].cost_centre = requisition[id].cost_centre
             /\ requisition'[id].amount = requisition[id].amount
             /\ requisition'[id].submitted_by = requisition[id].submitted_by
  <2>1. requisition[id] \in RequisitionRow
    BY <1>1
  <2> QED BY <2>1 DEF RowsOnlyAdvance, tables, RequisitionRow
<1>3. ASSUME NEW id \in DOMAIN purchase_order
      PROVE  /\ id \in DOMAIN purchase_order'
             /\ purchase_order'[id].requisition_id = purchase_order[id].requisition_id
             /\ purchase_order'[id].approved_by = purchase_order[id].approved_by
             /\ purchase_order[id].requisition_id \in DOMAIN requisition
  <2>1. purchase_order[id] \in OrderRow
    BY <1>1
  <2>2. purchase_order[id].requisition_id \in DOMAIN requisition
    BY DEF IInv, ChainIntact, WholeChains
  <2> QED BY <2>1, <2>2 DEF RowsOnlyAdvance, tables, OrderRow
<1>4. ASSUME NEW id \in DOMAIN requisition
      PROVE  RequisitionById(id)' = RequisitionById(id)
  BY <1>2 DEF RequisitionById
<1>5. ASSUME NEW id \in DOMAIN purchase_order
      PROVE  OrderById(id)' = OrderById(id)
  BY <1>2, <1>3 DEF OrderById
<1> QED BY <1>2, <1>3, <1>4, <1>5

LEMMA WithinKept ==
  ASSUME IInv, [RowsOnlyAdvance]_tables, NEW q, NEW id, Within(q, id)
  PROVE  Within(q, id)' /\ RowFor(q, id)' = RowFor(q, id)
<1>1. RowFor(q, id)' = RowFor(q, id)
  BY RowsKept DEF Within, RowFor
<1> QED BY <1>1, RowsKept DEF Within, Asker

\* An answer that was sound stays so, whatever is committed after it.
LEMMA SoundKept ==
  ASSUME IInv, [RowsOnlyAdvance]_tables, NEW q, NEW i, NEW o, Sound(q, i, o)
  PROVE  Sound(q, i, o)'
<1>1. \A id : Within(q, id) => Within(q, id)' /\ RowFor(q, id)' = RowFor(q, id)
  BY WithinKept
<1>2. ASSUME NEW r, NEW id, Took(q, r, id) PROVE Took(q, r, id)'
  <2>1. requisition[r].status # "submitted" /\ r \in DOMAIN requisition
    BY <1>2 DEF Took
  <2>2. r \in DOMAIN requisition' /\ requisition'[r] = requisition[r]
    BY <2>1 DEF RowsOnlyAdvance, tables
  <2>3. ASSUME NEW p \in DOMAIN purchase_order
        PROVE  /\ p \in DOMAIN purchase_order'
               /\ purchase_order'[p].requisition_id = purchase_order[p].requisition_id
               /\ purchase_order'[p].approved_by = purchase_order[p].approved_by
    <3>1. purchase_order[p] \in OrderRow
      BY LenProperties DEF IInv, TypeOK
    <3> QED BY <3>1 DEF RowsOnlyAdvance, tables, OrderRow
  <2> QED BY <1>2, <2>2, <2>3 DEF Took
<1> QED BY <1>1, <1>2 DEF Sound

\* A table that has run out of identifiers stays so.
LEMMA ExhaustedForGood ==
  ASSUME IInv, IInv', [RowsOnlyAdvance]_tables, MintExhausted
  PROVE  MintExhausted'
<1>1. PICK t \in Tables : NextIdentifier(Committed(t)) > MaxInteger
  BY DEF MintExhausted
<1>2. DOMAIN Committed(t) \subseteq DOMAIN Committed(t)'
  BY <1>1 DEF RowsOnlyAdvance, tables, Committed, Tables
<1> DEFINE s == Committed(t)
           u == Committed(t)'
<1>3. /\ NextIdentifier(s) = Len(s) + 1 /\ DOMAIN s = 1..Len(s)
      /\ NextIdentifier(s) \in Nat
  BY NextOfTable DEF IInv
<1>4. /\ NextIdentifier(u) = Len(u) + 1 /\ DOMAIN u = 1..Len(u)
      /\ NextIdentifier(u) \in Nat
  <2>1. TypeOK'
    BY DEF IInv
  <2>2. CASE t = "requisition"
    BY <2>1, <2>2, NextIsOnePast, LenProperties DEF TypeOK, Committed
  <2>3. CASE t = "purchase_order"
    BY <2>1, <2>3, NextIsOnePast, LenProperties DEF TypeOK, Committed
  <2>4. CASE t = "invoice"
    BY <2>1, <2>4, NextIsOnePast, LenProperties DEF TypeOK, Committed
  <2> QED BY <2>2, <2>3, <2>4 DEF Tables
<1>5. NextIdentifier(u) >= NextIdentifier(s)
  <2> HIDE DEF s, u
  <2>1. Len(s) \in Nat /\ Len(u) \in Nat
    BY LenProperties DEF IInv, TypeOK, s, u, Committed, Tables
  <2>2. 1..Len(s) \subseteq 1..Len(u)
    BY <1>2, <1>3, <1>4 DEF s, u
  <2> QED BY <1>3, <1>4, <2>1, <2>2
<1>6. NextIdentifier(u) > MaxInteger
  BY <1>1, <1>3, <1>4, <1>5, ServingAssumption
<1> QED BY <1>6 DEF MintExhausted

-----------------------------------------------------------------------------
(* Whose step it is *)

\* Every other call stands where it stood and was answered what it was.
Moves(c) ==
  OthersStay(c) /\ \A d \in Calls \ {c} : response'[d] = response[d]

LEMMA OneMoves ==
  ASSUME IInv, NEW c \in Calls, Receive(c) \/ Handle(c) \/ Fault(c)
  PROVE  Moves(c)
<1>1. /\ pc \in [Calls -> PCs] /\ answers \in [Calls -> Seq(Outcomes)]
      /\ response \in [Calls -> Responses]
      /\ request \in [Calls -> Offered \cup {NoRequest}]
  BY DEF IInv, TypeOK
<1> DEFINE Others == \A d \in Calls \ {c} :
             pc'[d] = pc[d] /\ answers'[d] = answers[d] /\ response'[d] = response[d]
<1>2. \A outcomes : Finish(c, outcomes) => Others
  BY <1>1 DEF Finish
<1>3. \A answer : Stop(c, answer) => Others
  BY <1>1 DEF Stop
<1>4. \A label : Goto(c, label) => Others
  BY <1>1 DEF Goto
<1>5. \A o : Yield(c, o) => Others
  BY <1>1, <1>2 DEF Yield
<1>6. Others
  <2> HIDE DEF Others
  <2>1. CASE Receive(c)
    BY <2>1, <1>2, <1>3, <1>4 DEF Receive
  <2>2. CASE Fault(c)
    BY <2>2, <1>3 DEF Fault, Fail, CommitUnacknowledged, Rollback
  <2>3. CASE ListRows(c) \/ GetRow(c) \/ DecideItem(c) \/ RecordItem(c)
    BY <2>3, <1>3, <1>4, <1>5 DEF ListRows, GetRow, DecideItem, RecordItem
  <2>4. CASE Connect(c) \/ DecideRow(c) \/ BillRow(c) \/ AcquireMint(c)
    BY <2>4, <1>4, <1>5 DEF Connect, DecideRow, BillRow, AcquireMint
  <2>5. CASE Insert(c) \/ MintOverflow(c) \/ Commit(c)
    BY <2>5, <1>3, <1>4, <1>5 DEF Insert, MintOverflow, Commit, Rollback
  <2> QED BY <2>1, <2>2, <2>3, <2>4, <2>5 DEF Handle
<1>7. \A d \in Calls \ {c} : request'[d] = request[d]
  <2>1. CASE Receive(c)
    BY <1>1, <2>1 DEF Receive
  <2>2. CASE Handle(c) \/ Fault(c)
    BY <2>2 DEF Handle, Fault, Fail, CommitUnacknowledged, Rollback, ListRows, GetRow,
       DecideItem, RecordItem, Connect, DecideRow, BillRow, AcquireMint, Insert,
       MintOverflow, Commit
  <2> QED BY <2>1, <2>2
<1> QED BY <1>6, <1>7 DEF Moves, OthersStay

\* The row a writer is at is in its table.
LEMMA WriterAtRow ==
  ASSUME IInv, NEW c \in Calls, pc[c] \in Transacting,
         request[c].tool # "submit_requisition"
  PROVE  /\ request[c].tool \in {"approve_requisition", "record_invoice"}
         /\ Named(c) \in DOMAIN (IF request[c].tool = "record_invoice"
                                 THEN purchase_order ELSE requisition)
BY DEF IInv, Standing, RowOf, Writers

\* What holds of a call goes on holding while another one moves.
LEMMA OthersKeep ==
  ASSUME IInv, IInv', AInv, [RowsOnlyAdvance]_tables,
         NEW c \in Calls, Moves(c), NEW d \in Calls \ {c}
  PROVE  Admitted(d)' /\ Heard(d)' /\ Replied(d)'
<1>1. PICK q, a, r, p : /\ q = request[d] /\ a = answers[d] /\ r = response[d] /\ p = pc[d]
                        /\ q = request'[d] /\ a = answers'[d] /\ r = response'[d]
                        /\ p = pc'[d]
  BY DEF Moves, OthersStay
<1>2. Named(d)' = Named(d)
  BY <1>1 DEF Named
<1>3. Admitted(d)'
  <2>1. ASSUME p \in Transacting, q.tool # "submit_requisition"
        PROVE  RowFor(q, Named(d))' = RowFor(q, Named(d))
    <3>1. pc[d] \in Transacting /\ request[d].tool # "submit_requisition"
      BY <1>1, <2>1
    <3>2. Named(d) \in DOMAIN (IF request[d].tool = "record_invoice"
                               THEN purchase_order ELSE requisition)
      BY <3>1, WriterAtRow
    <3> QED BY <1>1, <1>2, <3>2, RowsKept DEF RowFor
  <2>2. Admitted(d)
    BY DEF AInv
  <2> QED BY <1>1, <2>1, <2>2 DEF Admitted, Busy, Asker
<1>4. Heard(d)'
  <2>1. ASSUME NEW i \in DOMAIN a PROVE Sound(q, i, a[i])'
    BY <1>1, <2>1, SoundKept DEF AInv, Heard
  <2> QED BY <1>1, <2>1 DEF Heard
<1>5. Replied(d)'
  <2>1. MintExhausted => MintExhausted'
    BY ExhaustedForGood
  <2>2. Replied(d)
    BY DEF AInv
  <2> QED BY <1>1, <2>1, <2>2 DEF Replied, Told
<1> QED BY <1>3, <1>4, <1>5

-----------------------------------------------------------------------------
(* What each kind of move says *)

\* A response dispatch renders is an error only for a fault of the server's own.
LEMMA RenderedSays ==
  ASSUME NEW outcomes \in Seq(Outcomes), outcomes # << >>,
         \A i \in DOMAIN outcomes : outcomes[i].reason # "insufficient_scope",
         \A i \in DOMAIN outcomes :
           outcomes[i].reason = "role_missing" => Len(outcomes) = 1
  PROVE  /\ Rendered(outcomes) \in {"result", "tool_error", "role_denied"}
         /\ (\E i \in DOMAIN outcomes : outcomes[i].reason = "role_missing") =>
              Rendered(outcomes) = "role_denied"
<1> DEFINE Class(o) == DenialClass(o.reason)
           Refused == {o \in Range(outcomes) : o.reason # Permitted}
<1>1. Len(outcomes) \in Nat /\ DOMAIN outcomes = 1..Len(outcomes)
  BY LenProperties
<1>2. \A o \in Range(outcomes) : \E i \in DOMAIN outcomes : o = outcomes[i]
  BY DEF Range
<1>3. CASE \E i \in DOMAIN outcomes : outcomes[i].reason = "role_missing"
  <2>1. Len(outcomes) = 1 /\ DOMAIN outcomes = {1} /\ outcomes[1].reason = "role_missing"
    BY <1>1, <1>3
  <2>2. outcomes[1] \in Refused
    BY <2>1 DEF Range, Permitted
  <2>3. Class(outcomes[1]) = "protocol_error"
    BY <2>1 DEF DenialClass
  <2> QED BY <2>1, <2>2, <2>3 DEF Rendered
<1>4. CASE \A i \in DOMAIN outcomes : outcomes[i].reason # "role_missing"
  <2>1. \A o \in Refused : Class(o) = "tool_result"
    BY <1>2, <1>4 DEF DenialClass
  <2> QED BY <1>4, <2>1 DEF Rendered
<1> QED BY <1>3, <1>4

\* A step of one call, seen from what is known of the others.
LEMMA MovedKeepsAInv ==
  ASSUME IInv, IInv', AInv, [RowsOnlyAdvance]_tables, NEW c \in Calls, Moves(c),
         Admitted(c)', Heard(c)', Replied(c)', OneWinner'
  PROVE  AInv'
<1>1. ASSUME NEW d \in Calls PROVE Admitted(d)' /\ Heard(d)' /\ Replied(d)'
  BY OthersKeep
<1> QED BY <1>1 DEF AInv

\* No answer is added: a decision has the winner it had.
LEMMA SameWinners ==
  ASSUME AInv, NEW c \in Calls, OthersStay(c),
         \A i \in DOMAIN answers'[c] : \/ ~Won(c, i)'
                                       \/ /\ i \in DOMAIN answers[c]
                                          /\ answers'[c][i] = answers[c][i]
                                          /\ request'[c] = request[c]
  PROVE  OneWinner'
<1>1. ASSUME NEW d \in Calls, NEW i \in DOMAIN answers'[d], Won(d, i)'
      PROVE  i \in DOMAIN answers[d] /\ Won(d, i) /\ request'[d].ids[i] = request[d].ids[i]
  BY <1>1 DEF OthersStay, Won, Told
<1> QED BY <1>1 DEF AInv, OneWinner

\* A handler that goes on answers nothing yet.
LEMMA GoingKeepsAInv ==
  ASSUME IInv, IInv', AInv, [RowsOnlyAdvance]_tables, NEW c \in Calls, Moves(c), Busy(c),
         NEW label \in Transacting, Goto(c, label), UNCHANGED request,
         request[c].tool # "submit_requisition" =>
           /\ Named(c) \in DOMAIN (IF request[c].tool = "record_invoice"
                                   THEN purchase_order ELSE requisition)
           /\ decide_item(Asker(request[c]), Action(request[c].tool),
                          RowFor(request[c], Named(c))) = Permitted,
         request[c].tool = "approve_requisition" => request[c].decision # "unknown"
  PROVE  AInv'
<1>1. /\ pc'[c] = label /\ answers'[c] = answers[c] /\ response'[c] = response[c]
      /\ request'[c] = request[c]
  BY GotoMoves DEF Goto, IInv, Transacting, PCs
<1>2. PICK q, a, r : /\ q = request[c] /\ a = answers[c] /\ r = response[c]
                     /\ q = request'[c] /\ a = answers'[c] /\ r = response'[c]
  BY <1>1
<1>3. Named(c)' = Named(c)
  BY <1>1 DEF Named
<1>4. Admitted(c)'
  <2>1. q.tool # "submit_requisition" => RowFor(q, Named(c))' = RowFor(q, Named(c))
    BY <1>2, <1>3, RowsKept DEF RowFor
  <2>2. Admitted(c)
    BY DEF AInv
  <2>3. r = "none"
    BY <1>2, <2>2 DEF Admitted, Busy
  <2> QED BY <1>1, <1>2, <2>1, <2>2, <2>3 DEF Admitted, Busy, Asker
<1>5. Heard(c)'
  <2>1. ASSUME NEW i \in DOMAIN a PROVE Sound(q, i, a[i])'
    BY <1>2, <2>1, SoundKept DEF AInv, Heard
  <2> QED BY <1>2, <2>1 DEF Heard
<1>6. Replied(c)'
  <2>1. MintExhausted => MintExhausted'
    BY ExhaustedForGood
  <2>2. Replied(c)
    BY DEF AInv
  <2> QED BY <1>2, <2>1, <2>2 DEF Replied, Told
<1>7. OneWinner'
  BY <1>1, SameWinners DEF Moves
<1> QED BY <1>4, <1>5, <1>6, <1>7, MovedKeepsAInv

\* An exception or an argument found unusable ends the call with what it had.
LEMMA StoppingKeepsAInv ==
  ASSUME IInv, IInv', AInv, [RowsOnlyAdvance]_tables, NEW c \in Calls, Moves(c), Busy(c),
         NEW answer \in {"invalid_params", "internal_error"}, Stop(c, answer),
         UNCHANGED request,
         answer = "invalid_params" =>
           \A i \in DOMAIN answers[c] : Told(c, i) # Permitted,
         answer = "internal_error" => c \in MayFail \/ MintExhausted
  PROVE  AInv'
<1>1. /\ pc'[c] = "answered" /\ answers'[c] = answers[c] /\ response'[c] = answer
      /\ request'[c] = request[c]
  BY DEF Stop, IInv, TypeOK
<1>2. PICK q, a : q = request[c] /\ a = answers[c] /\ q = request'[c] /\ a = answers'[c]
  BY <1>1
<1>3. Admitted(c)'
  BY <1>1 DEF Admitted, Busy, Transacting
<1>4. Heard(c)'
  <2>1. ASSUME NEW i \in DOMAIN a PROVE Sound(q, i, a[i])'
    BY <1>2, <2>1, SoundKept DEF AInv, Heard
  <2> QED BY <1>2, <2>1 DEF Heard
<1>5. Replied(c)'
  <2>1. MintExhausted => MintExhausted'
    BY ExhaustedForGood
  <2>2. Replied(c) /\ response[c] = "none"
    BY DEF AInv, Admitted, Busy
  <2> QED BY <1>1, <1>2, <2>1, <2>2 DEF Replied, Told
<1>6. OneWinner'
  BY <1>1, SameWinners DEF Moves
<1> QED BY <1>3, <1>4, <1>5, <1>6, MovedKeepsAInv

\* An outcome that is sound in the state it is yielded in, and decides nothing
\* another has decided, joins the ones before it.
LEMMA YieldingKeepsAInv ==
  ASSUME IInv, IInv', AInv, [RowsOnlyAdvance]_tables, NEW c \in Calls, Moves(c), Busy(c),
         NEW o \in Outcomes, Yield(c, o), UNCHANGED request,
         NEW q, q = request[c], NEW n, n = Len(answers[c]) + 1,
         Sound(q, n, o)',
         o.reason = "role_missing" => Wanted(q) = 1,
         q.tool = "approve_requisition" /\ o.reason = Permitted =>
           \A d \in Calls : \A j \in DOMAIN answers[d] :
             Won(d, j) => request[d].ids[j] # q.ids[n]
  PROVE  AInv'
<1>1. /\ answers \in [Calls -> Seq(Outcomes)] /\ pc \in [Calls -> PCs]
      /\ response \in [Calls -> Responses]
      /\ Len(answers[c]) < Wanted(q) /\ Wanted(q) \in Nat
  BY ArrivedRequest DEF IInv, TypeOK, Standing, Busy
<1>2. PICK outcomes \in Seq(Outcomes) :
        /\ outcomes = Append(answers[c], o)
        /\ Len(outcomes) = n /\ Len(answers[c]) \in Nat /\ n \in Nat
        /\ outcomes # << >> /\ outcomes[n] = o
        /\ DOMAIN answers[c] = 1..(n - 1) /\ DOMAIN outcomes = 1..n
        /\ \A i \in 1..(n - 1) : outcomes[i] = answers[c][i]
  <2> DEFINE s == Append(answers[c], o)
  <2>1. Len(answers[c]) \in Nat /\ n - 1 = Len(answers[c]) /\ DOMAIN answers[c] = 1..(n - 1)
    BY <1>1, LenProperties
  <2>2. /\ s \in Seq(Outcomes) /\ s # << >> /\ Len(s) = Len(answers[c]) + 1
        /\ \A i \in 1..Len(answers[c]) : s[i] = answers[c][i]
        /\ s[Len(answers[c]) + 1] = o
    BY <1>1, AppendProperties
  <2>3. DOMAIN s = 1..n
    BY <2>2, LenProperties
  <2>4. s = Append(answers[c], o) /\ Len(s) = n /\ n \in Nat
    BY <2>1, <2>2
  <2>5. \A i \in 1..(n - 1) : s[i] = answers[c][i]
    BY <2>1, <2>2
  <2> HIDE DEF s
  <2> QED BY <2>1, <2>2, <2>3, <2>4, <2>5
<1>3. /\ answers'[c] = outcomes /\ request'[c] = q
      /\ \/ n = Wanted(q) /\ response'[c] = Rendered(outcomes) /\ pc'[c] = "answered"
         \/ n # Wanted(q) /\ response'[c] = response[c] /\ pc'[c] = "next"
  BY <1>1, <1>2 DEF Yield, Finish
<1>4. response[c] = "none" /\ \A i \in 1..(n - 1) : outcomes[i].reason # "role_missing"
  BY <1>2 DEF AInv, Admitted, Busy, Replied, Told
<1>5. \A i \in 1..n : Sound(q, i, outcomes[i])'
  <2>1. ASSUME NEW i \in 1..(n - 1) PROVE Sound(q, i, outcomes[i])'
    <3>1. Sound(q, i, outcomes[i])
      BY <1>2 DEF AInv, Heard
    <3> QED BY <3>1, SoundKept
  <2> QED BY <1>2, <2>1
<1>6. Admitted(c)'
  <2>1. Admitted(c)
    BY DEF AInv
  <2> QED BY <1>3, <1>4, <2>1 DEF Admitted, Busy, Transacting, Asker
<1>7. Heard(c)'
  BY <1>2, <1>3, <1>5 DEF Heard
<1>8. \A i \in 1..n : outcomes[i].reason # "insufficient_scope"
  BY <1>5 DEF Sound
<1>9. Replied(c)'
  <2>1. CASE n = Wanted(q) /\ response'[c] = Rendered(outcomes)
    <3>1. \A i \in DOMAIN outcomes :
            outcomes[i].reason = "role_missing" => Len(outcomes) = 1
      BY <1>2, <1>4, <2>1
    <3>2. /\ Rendered(outcomes) \in {"result", "tool_error", "role_denied"}
          /\ (\E i \in DOMAIN outcomes : outcomes[i].reason = "role_missing") =>
               Rendered(outcomes) = "role_denied"
      BY <1>2, <1>8, <3>1, RenderedSays
    <3> QED BY <1>2, <1>3, <2>1, <3>2 DEF Replied, Told
  <2>2. CASE n # Wanted(q) /\ response'[c] = response[c]
    <3>1. o.reason # "role_missing"
      BY <1>1, <1>2, <2>2
    <3> QED BY <1>2, <1>3, <1>4, <2>2, <3>1 DEF Replied, Told
  <2> QED BY <1>3, <2>1, <2>2
<1>10. OneWinner'
  <2>1. ASSUME NEW d \in Calls, NEW i \in DOMAIN answers'[d], Won(d, i)', ~(d = c /\ i = n)
        PROVE  i \in DOMAIN answers[d] /\ Won(d, i) /\ request'[d].ids[i] = request[d].ids[i]
    <3>1. CASE d = c
      BY <1>2, <1>3, <2>1, <3>1 DEF Won, Told
    <3>2. CASE d # c
      BY <2>1, <3>2 DEF Moves, OthersStay, Won, Told
    <3> QED BY <3>1, <3>2
  <2>2. Won(c, n)' => q.tool = "approve_requisition" /\ o.reason = Permitted
    BY <1>2, <1>3 DEF Won, Told
  <2>3. ASSUME NEW d \in Calls, NEW e \in Calls,
               NEW i \in DOMAIN answers'[d], NEW j \in DOMAIN answers'[e],
               Won(d, i)', Won(e, j)', request'[d].ids[i] = request'[e].ids[j]
        PROVE  d = e /\ i = j
    <3>1. CASE ~(d = c /\ i = n) /\ ~(e = c /\ j = n)
      BY <2>1, <2>3, <3>1 DEF AInv, OneWinner
    <3>2. CASE (d = c /\ i = n) /\ ~(e = c /\ j = n)
      BY <1>3, <2>1, <2>2, <2>3, <3>2
    <3>3. CASE ~(d = c /\ i = n) /\ (e = c /\ j = n)
      BY <1>3, <2>1, <2>2, <2>3, <3>3
    <3> QED BY <3>1, <3>2, <3>3
  <2> QED BY <2>3 DEF OneWinner
<1> QED BY <1>6, <1>7, <1>9, <1>10, MovedKeepsAInv

-----------------------------------------------------------------------------
(* The actions *)

\* What a handler may rely on before it looks at its next item.
LEMMA Handling ==
  ASSUME IInv, AInv, NEW c \in Calls, Busy(c)
  PROVE  /\ request[c] \in Requests
         /\ permits_scope(CallPrincipal(c), Action(request[c].tool))
         /\ Gated(request[c].tool) =>
              decide_call(CallPrincipal(c), Action(request[c].tool)) = Permitted
         /\ CallPrincipal(c) = Asker(request[c])
         /\ Named(c) = request[c].ids[Len(answers[c]) + 1]
BY ArrivedRequest DEF IInv, AInv, Admitted, CallPrincipal, Asker, Named, Busy

\* And once the chain has permitted it the row it writes.
LEMMA Writing ==
  ASSUME IInv, AInv, NEW c \in Calls, pc[c] \in Transacting
  PROVE  /\ request[c].tool # "submit_requisition" =>
              /\ Named(c) \in DOMAIN (IF request[c].tool = "record_invoice"
                                      THEN purchase_order ELSE requisition)
              /\ decide_item(Asker(request[c]), Action(request[c].tool),
                             RowFor(request[c], Named(c))) = Permitted
              /\ RowFor(request[c], Named(c)) # NoRow
              /\ Within(request[c], Named(c))
         /\ request[c].tool = "approve_requisition" => request[c].decision # "unknown"
<1>1. Busy(c) /\ Admitted(c)
  BY DEF AInv, Busy, Transacting
<1>2. CASE request[c].tool # "submit_requisition"
  <2>1. /\ request[c].tool \in {"approve_requisition", "record_invoice"}
        /\ Named(c) \in DOMAIN (IF request[c].tool = "record_invoice"
                                THEN purchase_order ELSE requisition)
    BY <1>2, WriterAtRow
  <2>2. Action(request[c].tool) \in {ReadAction, ApproveAction, RecordAction}
    BY <2>1, ActionOf DEF Tools
  <2>3. decide_item(Asker(request[c]), Action(request[c].tool),
                    RowFor(request[c], Named(c))) = Permitted
    BY <1>1, <1>2 DEF Admitted
  <2>4. permits_scope(Asker(request[c]), Action(request[c].tool))
    BY <1>1 DEF Admitted
  <2>5. /\ RowFor(request[c], Named(c)) # NoRow
        /\ within_row_scope(Asker(request[c]), Action(request[c].tool),
                            RowFor(request[c], Named(c)))
    BY <2>2, <2>3, <2>4, DecideItemSays DEF Permitted
  <2> QED BY <1>1, <2>1, <2>3, <2>5 DEF Admitted, Within
<1>3. CASE request[c].tool = "submit_requisition"
  BY <1>3
<1> QED BY <1>2, <1>3

LEMMA ReceiveKeepsAInv ==
  ASSUME IInv, IInv', AInv, [RowsOnlyAdvance]_tables, NEW c \in Calls, Moves(c), Receive(c)
  PROVE  AInv'
<1>1. PICK q \in Offered :
        LET call == decide_call(Principal(q.caller, q.granted), Action(q.tool)) IN
        /\ request' = [request EXCEPT ![c] = q]
        /\ IF ScopeGateRefuses(q) THEN Stop(c, "forbidden")
           ELSE IF Gated(q.tool) /\ call # Permitted THEN Finish(c, <<Refusal(call)>>)
           ELSE IF ~Readable(q) THEN Stop(c, "invalid_params")
           ELSE Goto(c, IF q.tool = "submit_requisition" THEN "write" ELSE "next")
  BY DEF Receive
<1>2. /\ pc[c] = "idle" /\ answers[c] = << >> /\ response[c] = "none"
      /\ pc \in [Calls -> PCs] /\ answers \in [Calls -> Seq(Outcomes)]
      /\ response \in [Calls -> Responses] /\ request'[c] = q
  BY <1>1 DEF Receive, IInv, TypeOK, Standing, AInv, Admitted
<1>3. CASE Stop(c, "forbidden") \/ Stop(c, "invalid_params")
  <2>1. /\ pc'[c] = "answered" /\ answers'[c] = << >>
        /\ response'[c] \in {"forbidden", "invalid_params"}
    BY <1>2, <1>3 DEF Stop
  <2>2. Admitted(c)' /\ Heard(c)' /\ Replied(c)'
    BY <2>1 DEF Admitted, Busy, Transacting, Heard, Replied
  <2> QED BY <2>1, <2>2, SameWinners, MovedKeepsAInv DEF Moves
<1>4. CASE /\ ~ScopeGateRefuses(q)
           /\ decide_call(Principal(q.caller, q.granted), Action(q.tool)) # Permitted
           /\ Finish(c, <<Refusal(decide_call(Principal(q.caller, q.granted),
                                              Action(q.tool)))>>)
  <2> DEFINE o == Refusal("role_missing")
  <2>1. decide_call(Principal(q.caller, q.granted), Action(q.tool)) = "role_missing"
    BY <1>4 DEF ScopeGateRefuses, decide_call
  <2>2. o.reason = "role_missing" /\ o.rows = {} /\ o \in Outcomes
    BY DEF Refusal, Outcomes, Reasons
  <2>3. /\ pc'[c] = "answered" /\ answers'[c] = <<o>>
        /\ response'[c] = Rendered(<<o>>)
    BY <1>2, <1>4, <2>1 DEF Finish
  <2>4. Rendered(<<o>>) = "role_denied"
    <3> HIDE DEF o
    <3>1. /\ <<o>> \in Seq(Outcomes) /\ <<o>> # << >> /\ Len(<<o>>) = 1
          /\ DOMAIN <<o>> = {1} /\ <<o>>[1] = o
      BY <2>2
    <3>2. \A i \in DOMAIN <<o>> : <<o>>[i].reason = "role_missing"
      BY <2>2, <3>1
    <3>3. \E i \in DOMAIN <<o>> : <<o>>[i].reason = "role_missing"
      BY <2>2, <3>1
    <3> QED BY <3>1, <3>2, <3>3, RenderedSays
  <2>5. Sound(q, 1, o)'
    BY <2>2 DEF Sound, Permitted
  <2>6. Admitted(c)' /\ Heard(c)' /\ Replied(c)'
    <3> HIDE DEF o
    <3> QED BY <1>2, <2>3, <2>4, <2>5
            DEF Admitted, Busy, Transacting, Heard, Replied
  <2>7. \A i \in DOMAIN answers'[c] : ~Won(c, i)'
    BY <2>2, <2>3 DEF Won, Told, Permitted
  <2> QED BY <2>6, <2>7, SameWinners, MovedKeepsAInv DEF Moves
<1>5. CASE /\ ~ScopeGateRefuses(q)
           /\ ~(Gated(q.tool) /\
                decide_call(Principal(q.caller, q.granted), Action(q.tool)) # Permitted)
           /\ Goto(c, IF q.tool = "submit_requisition" THEN "write" ELSE "next")
  <2>1. /\ pc'[c] = IF q.tool = "submit_requisition" THEN "write" ELSE "next"
        /\ answers'[c] = << >> /\ response'[c] = "none"
    BY <1>2, <1>5 DEF Goto
  <2>2. Admitted(c)'
    BY <1>2, <1>5, <2>1 DEF Admitted, Busy, Transacting, Asker, ScopeGateRefuses
  <2>3. Heard(c)' /\ Replied(c)'
    BY <2>1 DEF Heard, Replied
  <2> QED BY <2>1, <2>2, <2>3, SameWinners, MovedKeepsAInv DEF Moves
<1> QED BY <1>1, <1>3, <1>4, <1>5

LEMMA ListRowsKeepsAInv ==
  ASSUME IInv, IInv', AInv, [RowsOnlyAdvance]_tables, NEW c \in Calls, Moves(c), ListRows(c)
  PROVE  AInv'
<1>1. PICK o : o = Payload({id \in DOMAIN requisition :
                              decide_item(CallPrincipal(c), ReadAction,
                                          RequisitionById(id)) = Permitted}, 0)
  OBVIOUS
<1>2. /\ Busy(c) /\ Yield(c, o) /\ UNCHANGED request
      /\ request[c].tool = "list_requisitions"
  BY <1>1 DEF ListRows, Busy
<1>3. DOMAIN requisition \subseteq Nat
  BY LenProperties DEF IInv, TypeOK
<1>4. o \in Outcomes /\ o.reason = Permitted
  BY <1>1, <1>3 DEF Payload, Outcomes
<1>5. PICK q, n : q = request[c] /\ n = Len(answers[c]) + 1
  OBVIOUS
<1>6. ASSUME NEW id \in o.rows PROVE Within(q, id)
  <2>1. /\ id \in DOMAIN requisition
        /\ decide_item(Asker(q), ReadAction, RequisitionById(id)) = Permitted
    BY <1>1, <1>2, <1>5, <1>6, Handling DEF Payload
  <2>2. permits_scope(Asker(q), ReadAction) /\ Action(q.tool) = ReadAction
    BY <1>2, <1>5, Handling, ActionOf DEF Tools
  <2>3. within_row_scope(Asker(q), ReadAction, RequisitionById(id))
    BY <2>1, <2>2, DecideItemSays DEF Permitted
  <2> QED BY <1>2, <1>5, <2>1, <2>2, <2>3 DEF Within, RowFor
<1>7. Sound(q, n, o)
  BY <1>2, <1>4, <1>5, <1>6 DEF Sound, Permitted
<1>8. Sound(q, n, o)'
  BY <1>7, SoundKept
<1> QED BY <1>2, <1>4, <1>5, <1>8, YieldingKeepsAInv DEF Permitted

\* The chain's answer to a row is a sound outcome where it refuses, and speaks of
\* a row in scope where it permits.
LEMMA DecidedSays ==
  ASSUME IInv, AInv, NEW c \in Calls, Busy(c),
         NEW q, q = request[c], NEW n, n = Len(answers[c]) + 1,
         q.tool \in {"get_requisition", "approve_requisition", "record_invoice"},
         NEW reason, reason = decide_item(Asker(q), Action(q.tool), RowFor(q, Named(c)))
  PROVE  /\ reason # Permitted => Sound(q, n, Refusal(reason))
                                  /\ Refusal(reason) \in Outcomes
         /\ reason = "role_missing" => q.tool # "approve_requisition"
         /\ reason = Permitted => Within(q, Named(c))
         /\ Named(c) = q.ids[n]
<1>1. /\ Action(q.tool) \in {ReadAction, ApproveAction, RecordAction}
      /\ permits_scope(Asker(q), Action(q.tool))
      /\ Gated(q.tool) => decide_call(Asker(q), Action(q.tool)) = Permitted
      /\ Named(c) = q.ids[n]
  BY Handling, ActionOf DEF Tools
<1>2. /\ reason # "insufficient_scope"
      /\ reason \notin {"role_missing", "not_found"} =>
           /\ RowFor(q, Named(c)) # NoRow
           /\ within_row_scope(Asker(q), Action(q.tool), RowFor(q, Named(c)))
      /\ reason = "role_missing" => decide_call(Asker(q), Action(q.tool)) = "role_missing"
  BY <1>1, DecideItemSays
<1>3. reason \in Reasons \cup {Permitted}
  BY <1>1, DecideItemType
<1>4. reason \notin {"role_missing", "not_found"} => Within(q, Named(c))
  BY <1>2 DEF Within, RowFor, RequisitionById, OrderById
<1>5. ASSUME reason # Permitted PROVE Sound(q, n, Refusal(reason))
  <2>1. Refusal(reason).reason = reason /\ Refusal(reason).rows = {}
    BY DEF Refusal
  <2> QED BY <1>1, <1>2, <1>4, <1>5, <2>1 DEF Sound
<1>6. reason = "role_missing" => q.tool # "approve_requisition"
  BY <1>1, <1>2 DEF Gated, Permitted
<1> QED BY <1>1, <1>3, <1>4, <1>5, <1>6, RefusalType DEF Permitted

\* A refusal of the chain, yielded.
LEMMA RefusingKeepsAInv ==
  ASSUME IInv, IInv', AInv, [RowsOnlyAdvance]_tables, NEW c \in Calls, Moves(c), Busy(c),
         UNCHANGED request,
         NEW q, q = request[c], NEW reason \in Reasons,
         Sound(q, Len(answers[c]) + 1, Refusal(reason)),
         reason = "role_missing" => q.tool # "approve_requisition",
         Yield(c, Refusal(reason))
  PROVE  AInv'
<1>1. PICK o, n : o = Refusal(reason) /\ n = Len(answers[c]) + 1
  OBVIOUS
<1>2. o.reason = reason /\ reason # Permitted /\ o \in Outcomes
  BY <1>1, RefusalType DEF Refusal, Reasons, Permitted
<1>3. Sound(q, n, o)'
  BY <1>1, SoundKept
<1>4. o.reason = "role_missing" => Wanted(q) = 1
  BY <1>2 DEF Wanted
<1> QED BY <1>1, <1>2, <1>3, <1>4, YieldingKeepsAInv

LEMMA GetRowKeepsAInv ==
  ASSUME IInv, IInv', AInv, [RowsOnlyAdvance]_tables, NEW c \in Calls, Moves(c), GetRow(c)
  PROVE  AInv'
<1>1. PICK q, n, reason, id :
        /\ q = request[c] /\ n = Len(answers[c]) + 1 /\ id = Named(c)
        /\ reason = decide_item(CallPrincipal(c), ReadAction, RequisitionById(Named(c)))
  OBVIOUS
<1>2. /\ Busy(c) /\ UNCHANGED request /\ q.tool = "get_requisition"
      /\ Yield(c, IF reason # Permitted THEN Refusal(reason) ELSE Payload({id}, 0))
  BY <1>1 DEF GetRow, Busy
<1>3. reason = decide_item(Asker(q), Action(q.tool), RowFor(q, Named(c)))
  BY <1>1, <1>2, Handling DEF RowFor, Action
<1>4. /\ reason # Permitted => Sound(q, n, Refusal(reason)) /\ Refusal(reason) \in Outcomes
      /\ reason = Permitted => Within(q, id)
      /\ id = q.ids[n]
  BY <1>1, <1>2, <1>3, DecidedSays
<1>5. CASE reason # Permitted
  <2>1. reason \in Reasons
    BY <1>1, <1>5, DecideItemType
  <2> QED BY <1>1, <1>2, <1>4, <1>5, <2>1, RefusingKeepsAInv
<1>6. CASE reason = Permitted
  <2>1. PICK o : o = Payload({id}, 0)
    OBVIOUS
  <2>2. id \in Nat
    BY <1>1, <1>2, NamedType DEF IInv
  <2>3. o \in Outcomes /\ o.reason = Permitted /\ o.rows = {id}
    BY <2>1, <2>2 DEF Payload, Outcomes
  <2>4. Sound(q, n, o)
    BY <1>2, <1>4, <1>6, <2>3 DEF Sound, Permitted
  <2>5. Sound(q, n, o)'
    BY <2>4, SoundKept
  <2> QED BY <1>1, <1>2, <1>6, <2>1, <2>3, <2>5, YieldingKeepsAInv DEF Permitted
<1> QED BY <1>5, <1>6

LEMMA DecideItemKeepsAInv ==
  ASSUME IInv, IInv', AInv, [RowsOnlyAdvance]_tables, NEW c \in Calls, Moves(c), DecideItem(c)
  PROVE  AInv'
<1>1. PICK q, n, reason :
        /\ q = request[c] /\ n = Len(answers[c]) + 1
        /\ reason = decide_item(CallPrincipal(c), ApproveAction, RequisitionById(Named(c)))
  OBVIOUS
<1>2. /\ Busy(c) /\ UNCHANGED request /\ q.tool = "approve_requisition"
      /\ \/ reason # Permitted /\ Yield(c, Refusal(reason))
         \/ q.decision = "unknown" /\ Stop(c, "invalid_params")
         \/ reason = Permitted /\ q.decision # "unknown" /\ Goto(c, "write")
  BY <1>1 DEF DecideItem, Busy
<1>3. reason = decide_item(Asker(q), Action(q.tool), RowFor(q, Named(c)))
  BY <1>1, <1>2, Handling DEF RowFor, Action
<1>4. /\ reason # Permitted => Sound(q, n, Refusal(reason)) /\ Refusal(reason) \in Outcomes
      /\ reason = "role_missing" => q.tool # "approve_requisition"
      /\ reason = Permitted => Within(q, Named(c))
  BY <1>1, <1>2, <1>3, DecidedSays
<1>5. CASE reason # Permitted /\ Yield(c, Refusal(reason))
  <2>1. reason \in Reasons
    BY <1>1, <1>5, DecideItemType
  <2> QED BY <1>1, <1>2, <1>4, <1>5, <2>1, RefusingKeepsAInv
<1>6. CASE q.decision = "unknown" /\ Stop(c, "invalid_params")
  <2>1. \A i \in DOMAIN answers[c] : Told(c, i) # Permitted
    BY <1>1, <1>2, <1>6 DEF AInv, Heard, Sound, Told
  <2> QED BY <1>1, <1>2, <1>6, <2>1, StoppingKeepsAInv
<1>7. CASE reason = Permitted /\ q.decision # "unknown" /\ Goto(c, "write")
  <2>1. Named(c) \in DOMAIN requisition
    BY <1>2, <1>4, <1>7 DEF Within
  <2> QED BY <1>1, <1>2, <1>3, <1>7, <2>1, GoingKeepsAInv DEF Transacting
<1> QED BY <1>2, <1>5, <1>6, <1>7

LEMMA RecordItemKeepsAInv ==
  ASSUME IInv, IInv', AInv, [RowsOnlyAdvance]_tables, NEW c \in Calls, Moves(c), RecordItem(c)
  PROVE  AInv'
<1>1. PICK q, n, reason :
        /\ q = request[c] /\ n = Len(answers[c]) + 1
        /\ reason = decide_item(CallPrincipal(c), RecordAction, OrderById(Named(c)))
  OBVIOUS
<1>2. /\ Busy(c) /\ UNCHANGED request /\ q.tool = "record_invoice"
      /\ \/ reason # Permitted /\ Yield(c, Refusal(reason))
         \/ reason = Permitted /\ Goto(c, "write")
  BY <1>1 DEF RecordItem, Busy
<1>3. reason = decide_item(Asker(q), Action(q.tool), RowFor(q, Named(c)))
  BY <1>1, <1>2, Handling DEF RowFor, Action
<1>4. /\ reason # Permitted => Sound(q, n, Refusal(reason)) /\ Refusal(reason) \in Outcomes
      /\ reason = Permitted => Within(q, Named(c))
  BY <1>1, <1>2, <1>3, DecidedSays
<1>5. CASE reason # Permitted /\ Yield(c, Refusal(reason))
  <2>1. reason \in Reasons
    BY <1>1, <1>5, DecideItemType
  <2> QED BY <1>1, <1>2, <1>4, <1>5, <2>1, RefusingKeepsAInv
<1>6. CASE reason = Permitted /\ Goto(c, "write")
  <2>1. Named(c) \in DOMAIN purchase_order
    BY <1>2, <1>4, <1>6 DEF Within
  <2> QED BY <1>1, <1>2, <1>3, <1>6, <2>1, GoingKeepsAInv DEF Transacting
<1> QED BY <1>2, <1>5, <1>6

\* A writer moves on inside its transaction.
LEMMA WriterGoesOn ==
  ASSUME IInv, IInv', AInv, [RowsOnlyAdvance]_tables, NEW c \in Calls, Moves(c),
         pc[c] \in Transacting, NEW label \in Transacting, Goto(c, label),
         UNCHANGED request
  PROVE  AInv'
<1>1. Busy(c)
  BY DEF Busy, Transacting
<1> QED BY <1>1, Writing, GoingKeepsAInv

LEMMA WaitingKeepsAInv ==
  ASSUME IInv, IInv', AInv, [RowsOnlyAdvance]_tables, NEW c \in Calls, Moves(c),
         Connect(c) \/ AcquireMint(c) \/ Insert(c)
  PROVE  AInv'
<1>1. /\ pc[c] \in Transacting /\ UNCHANGED request
      /\ \E label \in Transacting : Goto(c, label)
  BY DEF Connect, AcquireMint, Insert, Transacting
<1> QED BY <1>1, WriterGoesOn

\* The row an UPDATE refuses is one its caller was entitled to ask about.
LEMMA UpdateKeepsAInv ==
  ASSUME IInv, IInv', AInv, [RowsOnlyAdvance]_tables, NEW c \in Calls, Moves(c),
         DecideRow(c) \/ BillRow(c)
  PROVE  AInv'
<1>1. PICK q, n : q = request[c] /\ n = Len(answers[c]) + 1
  OBVIOUS
<1>2. /\ pc[c] \in Transacting /\ Busy(c) /\ UNCHANGED request
      /\ q.tool \in {"approve_requisition", "record_invoice"}
      /\ \/ \E label \in Transacting : Goto(c, label)
         \/ \E reason \in {"already_decided", "already_invoiced"} :
              Yield(c, Refusal(reason))
  BY <1>1 DEF DecideRow, BillRow, Transacting, Busy
<1>3. CASE \E label \in Transacting : Goto(c, label)
  BY <1>2, <1>3, WriterGoesOn
<1>4. CASE \E reason \in {"already_decided", "already_invoiced"} :
             Yield(c, Refusal(reason))
  <2>1. PICK reason \in {"already_decided", "already_invoiced"} :
          Yield(c, Refusal(reason))
    BY <1>4
  <2>2. /\ Refusal(reason).reason = reason /\ Refusal(reason).rows = {}
        /\ reason \in Reasons
    BY DEF Refusal, Reasons
  <2>3. /\ Within(q, q.ids[n]) /\ RowFor(q, q.ids[n]) # NoRow
    BY <1>1, <1>2, Writing, Handling
  <2>4. Sound(q, n, Refusal(reason))
    BY <2>2, <2>3 DEF Sound, Permitted
  <2> QED BY <1>1, <1>2, <2>1, <2>2, <2>4, RefusingKeepsAInv
<1> QED BY <1>2, <1>3, <1>4

\* A transaction that is lost, or finds no identifier left, is answered as such.
LEMMA FailingKeepsAInv ==
  ASSUME IInv, IInv', AInv, [RowsOnlyAdvance]_tables, NEW c \in Calls, Moves(c),
         Fail(c) \/ CommitUnacknowledged(c) \/ MintOverflow(c)
  PROVE  AInv'
<1>1. /\ Busy(c) /\ UNCHANGED request /\ Stop(c, "internal_error")
      /\ c \in MayFail \/ MintExhausted
  BY MintTableType
     DEF Fail, CommitUnacknowledged, MintOverflow, Rollback, Busy, MintExhausted
<1> QED BY <1>1, StoppingKeepsAInv

\* The rows a commit leaves, by the tool that commits.
LEMMA SubmitWrites ==
  ASSUME IInv, NEW c \in Calls, pc[c] = "commit", Publish(c),
         request[c].tool = "submit_requisition"
  PROVE  /\ minted[c] \notin DOMAIN requisition
         /\ DOMAIN requisition' = DOMAIN requisition \cup {minted[c]}
         /\ minted[c] = Len(requisition) + 1
         /\ \A r \in DOMAIN requisition : requisition'[r] = requisition[r]
         /\ requisition'[minted[c]] = [cost_centre  |-> CallPrincipal(c).partition,
                                       amount       |-> request[c].amount,
                                       submitted_by |-> CallPrincipal(c).subject,
                                       status       |-> "submitted"]
         /\ UNCHANGED <<purchase_order, invoice>>
<1>1. minted[c] = NextIdentifier(requisition) /\ requisition \in Seq(RequisitionRow)
  BY Committing DEF Mints, MintTable, Committed, IInv, TypeOK
<1>2. /\ minted[c] \notin DOMAIN requisition /\ minted[c] = Len(requisition) + 1
  BY <1>1, PastTheEnd, NextIsOnePast
<1> QED BY <1>1, <1>2 DEF Publish, Put

LEMMA DecideWrites ==
  ASSUME IInv, NEW c \in Calls, pc[c] = "commit", Publish(c),
         request[c].tool = "approve_requisition"
  PROVE  /\ Named(c) \in DOMAIN requisition /\ requisition[Named(c)].status = "submitted"
         /\ DOMAIN requisition' = DOMAIN requisition
         /\ \A r \in DOMAIN requisition \ {Named(c)} : requisition'[r] = requisition[r]
         /\ requisition'[Named(c)]
              = [requisition[Named(c)] EXCEPT !.status = DecidedStatus(c)]
         /\ requisition'[Named(c)].status = DecidedStatus(c)
         /\ request[c].decision # "approve" => UNCHANGED purchase_order
         /\ request[c].decision = "approve" =>
              /\ minted[c] \notin DOMAIN purchase_order
              /\ DOMAIN purchase_order' = DOMAIN purchase_order \cup {minted[c]}
              /\ \A o \in DOMAIN purchase_order : purchase_order'[o] = purchase_order[o]
              /\ purchase_order'[minted[c]] = [requisition_id |-> Named(c),
                                               approved_by    |-> CallPrincipal(c).subject,
                                               status         |-> "open"]
         /\ UNCHANGED invoice
<1>1. /\ requisition \in Seq(RequisitionRow) /\ purchase_order \in Seq(OrderRow)
      /\ request[c].decision = "approve" => minted[c] = NextIdentifier(purchase_order)
  BY Committing DEF Mints, MintTable, Committed, IInv, TypeOK
<1>2. request[c].decision = "approve" => minted[c] \notin DOMAIN purchase_order
  BY <1>1, PastTheEnd
<1>3. /\ Named(c) \in DOMAIN requisition /\ requisition[Named(c)].status = "submitted"
      /\ requisition[Named(c)] \in RequisitionRow
  BY <1>1, Committing, LenProperties
<1>4. requisition' = [requisition EXCEPT ![Named(c)].status = DecidedStatus(c)]
      /\ UNCHANGED invoice
  BY DEF Publish
<1>5. /\ requisition'[Named(c)] = [requisition[Named(c)] EXCEPT !.status = DecidedStatus(c)]
      /\ requisition'[Named(c)].status = DecidedStatus(c)
      /\ DOMAIN requisition' = DOMAIN requisition
      /\ \A r \in DOMAIN requisition \ {Named(c)} : requisition'[r] = requisition[r]
  BY <1>3, <1>4 DEF RequisitionRow
<1>6. purchase_order' = IF request[c].decision = "approve"
                        THEN Put(purchase_order, minted[c],
                                 [requisition_id |-> Named(c),
                                  approved_by    |-> CallPrincipal(c).subject,
                                  status         |-> "open"])
                        ELSE purchase_order
  BY DEF Publish
<1> QED BY <1>2, <1>3, <1>4, <1>5, <1>6 DEF Put

LEMMA BillWrites ==
  ASSUME IInv, NEW c \in Calls, pc[c] = "commit", Publish(c),
         request[c].tool = "record_invoice"
  PROVE  /\ Named(c) \in DOMAIN purchase_order /\ purchase_order[Named(c)].status = "open"
         /\ DOMAIN purchase_order' = DOMAIN purchase_order
         /\ \A o \in DOMAIN purchase_order :
              /\ purchase_order'[o].requisition_id = purchase_order[o].requisition_id
              /\ purchase_order'[o].approved_by = purchase_order[o].approved_by
         /\ minted[c] \notin DOMAIN invoice
         /\ DOMAIN invoice' = DOMAIN invoice \cup {minted[c]}
         /\ \A i \in DOMAIN invoice : invoice'[i] = invoice[i]
         /\ invoice'[minted[c]] = [purchase_order_id |-> Named(c),
                                   recorded_by       |-> CallPrincipal(c).subject]
         /\ UNCHANGED requisition
<1>1. /\ purchase_order \in Seq(OrderRow) /\ invoice \in Seq(InvoiceRow)
      /\ minted[c] = NextIdentifier(invoice)
  BY Committing DEF Mints, MintTable, Committed, IInv, TypeOK
<1>2. minted[c] \notin DOMAIN invoice
  BY <1>1, PastTheEnd
<1>3. /\ Named(c) \in DOMAIN purchase_order /\ purchase_order[Named(c)].status = "open"
      /\ \A o \in DOMAIN purchase_order : purchase_order[o] \in OrderRow
  BY <1>1, Committing, LenProperties
<1>4. /\ purchase_order' = [purchase_order EXCEPT ![Named(c)].status = "invoiced"]
      /\ invoice' = Put(invoice, minted[c], [purchase_order_id |-> Named(c),
                                             recorded_by |-> CallPrincipal(c).subject])
      /\ UNCHANGED requisition
  BY DEF Publish
<1>5. /\ DOMAIN purchase_order' = DOMAIN purchase_order
      /\ \A o \in DOMAIN purchase_order :
           /\ purchase_order'[o].requisition_id = purchase_order[o].requisition_id
           /\ purchase_order'[o].approved_by = purchase_order[o].approved_by
  BY <1>3, <1>4 DEF OrderRow
<1> QED BY <1>2, <1>3, <1>4, <1>5 DEF Put

\* What a handler yields once its write has committed.
LEMMA WrittenSays ==
  ASSUME IInv, NEW c \in Calls, pc[c] = "commit"
  PROVE  /\ Written(c) \in Outcomes
         /\ Written(c).reason = Permitted
         /\ Written(c).minted = minted[c]
         /\ Written(c).rows = IF request[c].tool = "submit_requisition"
                              THEN {minted[c]} ELSE {Named(c)}
<1>1. minted[c] \in Nat
  BY DEF IInv, TypeOK
<1>2. request[c].tool # "submit_requisition" => Named(c) \in Nat
  <2>1. Busy(c) /\ request[c].tool \in Writers
    BY Committing DEF Busy
  <2> QED BY <2>1, NamedType DEF IInv, Writers
<1> QED BY <1>1, <1>2 DEF Written, Payload, Outcomes

\* Nobody has been told that the decision a commit is about to take was taken.
LEMMA DecidedBefore ==
  ASSUME AInv, NEW d \in Calls, NEW j \in DOMAIN answers[d], Won(d, j)
  PROVE  requisition[request[d].ids[j]].status # "submitted"
<1>1. Sound(request[d], j, answers[d][j])
  BY DEF AInv, Heard
<1>2. Took(request[d], request[d].ids[j], answers[d][j].minted)
  BY <1>1 DEF Sound, Won, Told
<1> QED BY <1>2 DEF Took

\* And once it commits the tables say so.
LEMMA DecidedNow ==
  ASSUME IInv, NEW c \in Calls, pc[c] = "commit", Publish(c),
         NEW q, q = request[c], NEW id, id = Named(c), NEW m, m = minted[c],
         q.tool = "approve_requisition", q.decision # "unknown"
  PROVE  Took(q, id, m)'
<1>1. q.decision \in {"approve", "reject"}
  BY Committing DEF Requests
<1>2. /\ id \in DOMAIN requisition' /\ requisition'[id].status = DecidedStatus(c)
      /\ q.decision = "approve" =>
           /\ m \in DOMAIN purchase_order'
           /\ purchase_order'[m] = [requisition_id |-> id,
                                    approved_by    |-> CallPrincipal(c).subject,
                                    status         |-> "open"]
  BY DecideWrites
<1>3. CallPrincipal(c).subject = q.caller
  BY DEF CallPrincipal, Principal
<1>4. DecidedStatus(c) = IF q.decision = "approve" THEN "approved" ELSE "rejected"
  BY DEF DecidedStatus
<1> QED BY <1>1, <1>2, <1>3, <1>4 DEF Took

\* The row submit answers with is one of the caller's own partition.
LEMMA SubmittedNow ==
  ASSUME IInv, NEW c \in Calls, pc[c] = "commit", Publish(c),
         NEW q, q = request[c], NEW m, m = minted[c], q.tool = "submit_requisition"
  PROVE  Within(q, m)'
<1>1. /\ m \in DOMAIN requisition'
      /\ requisition'[m].cost_centre = Asker(q).partition
  <2>1. /\ m \in DOMAIN requisition'
        /\ requisition'[m] = [cost_centre  |-> CallPrincipal(c).partition,
                              amount       |-> q.amount,
                              submitted_by |-> CallPrincipal(c).subject,
                              status       |-> "submitted"]
    BY SubmitWrites
  <2>2. CallPrincipal(c) = Asker(q)
    BY DEF CallPrincipal, Asker
  <2> QED BY <2>1, <2>2
<1>2. RequisitionById(m)'.partition = Asker(q).partition
  BY <1>1 DEF RequisitionById
<1>3. RowFor(q, m)' = RequisitionById(m)' /\ Asker(q)' = Asker(q)
  BY DEF RowFor, Asker
<1>4. within_row_scope(Asker(q), Action(q.tool), RowFor(q, m))'
  BY <1>2, <1>3 DEF within_row_scope
<1> QED BY <1>1, <1>4 DEF Within

LEMMA CommitKeepsAInv ==
  ASSUME IInv, IInv', AInv, [RowsOnlyAdvance]_tables, NEW c \in Calls, Moves(c), Commit(c)
  PROVE  AInv'
<1>1. PICK q, n, o, id, m : /\ q = request[c] /\ n = Len(answers[c]) + 1
                            /\ o = Written(c) /\ id = Named(c) /\ m = minted[c]
  OBVIOUS
<1>2. /\ pc[c] = "commit" /\ Publish(c) /\ Yield(c, o) /\ UNCHANGED request
      /\ Busy(c) /\ pc[c] \in Transacting
  BY <1>1 DEF Commit, Busy, Transacting
<1>3. /\ o \in Outcomes /\ o.reason = Permitted /\ o.minted = m
      /\ o.rows = IF q.tool = "submit_requisition" THEN {m} ELSE {id}
  BY <1>1, <1>2, WrittenSays
<1>4. id = q.ids[n]
  BY <1>1, <1>2, Handling
<1>5. ASSUME NEW r \in o.rows PROVE Within(q, r)'
  <2>1. CASE q.tool = "submit_requisition"
    BY <1>1, <1>2, <1>3, <1>5, <2>1, SubmittedNow
  <2>2. CASE q.tool # "submit_requisition"
    <3>1. Within(q, r)
      BY <1>1, <1>2, <1>3, <1>5, <2>2, Writing
    <3> QED BY <3>1, WithinKept
  <2> QED BY <2>1, <2>2
<1>6. ASSUME q.tool = "approve_requisition"
      PROVE  q.decision # "unknown" /\ Took(q, id, m)' /\ o.rows = {id}
  <2>1. q.decision # "unknown"
    BY <1>1, <1>2, <1>6, Writing
  <2> QED BY <1>1, <1>2, <1>3, <1>6, <2>1, DecidedNow
<1>7. Sound(q, n, o)'
  BY <1>3, <1>4, <1>5, <1>6 DEF Sound, Permitted
<1>8. ASSUME q.tool = "approve_requisition"
      PROVE  \A d \in Calls : \A j \in DOMAIN answers[d] :
               Won(d, j) => request[d].ids[j] # q.ids[n]
  <2>1. requisition[id].status = "submitted"
    BY <1>1, <1>2, <1>8, Committing
  <2> QED BY <1>4, <2>1, DecidedBefore
<1> QED BY <1>1, <1>2, <1>3, <1>7, <1>8, YieldingKeepsAInv DEF Permitted

-----------------------------------------------------------------------------
(* The theorems *)

LEMMA InitAInv == Init => AInv
BY DEF Init, AInv, Admitted, Busy, Transacting, Heard, Replied, Told, OneWinner

LEMMA StutterKeepsAInv ==
  ASSUME AInv, UNCHANGED vars
  PROVE  AInv'
<1>1. UNCHANGED <<pc, request, answers, response, requisition, purchase_order, invoice>>
  BY DEF vars
<1>2. /\ UNCHANGED MintExhausted
      /\ \A c \in Calls : UNCHANGED Named(c)
      /\ \A q, id : /\ RowFor(q, id)' = RowFor(q, id)
                    /\ Within(q, id)' <=> Within(q, id)
                    /\ Took(q, id, id)' <=> Took(q, id, id)
  BY <1>1 DEF MintExhausted, Committed, Named, RowFor, RequisitionById, OrderById,
              Within, Took, Asker
<1>3. ASSUME NEW q, NEW i, NEW o PROVE Sound(q, i, o)' <=> Sound(q, i, o)
  BY <1>1, <1>2 DEF Sound, Took
<1>4. ASSUME NEW c \in Calls PROVE Admitted(c)' /\ Heard(c)' /\ Replied(c)'
  <2>1. Admitted(c)'
    BY <1>1, <1>2 DEF AInv, Admitted, Busy, Asker
  <2>2. Heard(c)'
    BY <1>1, <1>3 DEF AInv, Heard
  <2>3. Replied(c)'
    BY <1>1, <1>2 DEF AInv, Replied, Told
  <2> QED BY <2>1, <2>2, <2>3
<1>5. OneWinner'
  BY <1>1 DEF AInv, OneWinner, Won, Told
<1> QED BY <1>4, <1>5 DEF AInv

LEMMA NextKeepsAInv == IInv /\ AInv /\ [Next]_vars => AInv'
<1> SUFFICES ASSUME IInv, AInv, [Next]_vars PROVE AInv'
  OBVIOUS
<1>1. IInv' /\ [RowsOnlyAdvance]_tables
  BY NextKeepsIInv, StepsAdvance
<1>2. ASSUME NEW c \in Calls, Receive(c) \/ Handle(c) \/ Fault(c) PROVE AInv'
  <2>1. Moves(c)
    BY <1>2, OneMoves
  <2>2. CASE Receive(c)
    BY <1>1, <2>1, <2>2, ReceiveKeepsAInv
  <2>3. CASE Handle(c)
    BY <1>1, <2>1, <2>3, ListRowsKeepsAInv, GetRowKeepsAInv, DecideItemKeepsAInv,
       RecordItemKeepsAInv, WaitingKeepsAInv, UpdateKeepsAInv, FailingKeepsAInv,
       CommitKeepsAInv DEF Handle
  <2>4. CASE Fault(c)
    BY <1>1, <2>1, <2>4, FailingKeepsAInv DEF Fault
  <2> QED BY <1>2, <2>2, <2>3, <2>4
<1>3. CASE Quiet \/ UNCHANGED vars
  BY <1>3, StutterKeepsAInv DEF Quiet
<1> QED BY <1>2, <1>3 DEF Next

\* What the answers mean holds throughout.
THEOREM AnswersHold == Spec => [](IInv /\ AInv)
<1>1. Init => IInv /\ AInv
  BY InitIInv, InitAInv
<1>2. IInv /\ AInv /\ [Next]_vars => IInv' /\ AInv'
  BY NextKeepsIInv, NextKeepsAInv
<1> QED BY <1>1, <1>2, PTL DEF Spec

\* However many calls race for a requisition, whatever they name beside it and
\* whichever of them fail, at most one is told that it decided it, and the row
\* and its order say what that one asked for: the predicate of _DECIDE is what
\* makes it so, not the check on the row the handler read.
THEOREM OnlyOneDecides == Spec => []OneWinnerPerDecision
<1>1. IInv /\ AInv => OneWinnerPerDecision
  <2> SUFFICES ASSUME IInv, AInv PROVE OneWinnerPerDecision
    OBVIOUS
  <2> DEFINE Winners(r) == {a \in Answered("approve_requisition") :
                          Told(a[1], a[2]) = Permitted /\ request[a[1]].ids[a[2]] = r}
  <2>1. ASSUME NEW a \in Answered("approve_requisition")
        PROVE  /\ a[1] \in Calls /\ a[2] \in DOMAIN answers[a[1]] /\ a = <<a[1], a[2]>>
               /\ request[a[1]].tool = "approve_requisition"
    BY DEF Answered
  <2>2. ASSUME NEW r \in DOMAIN requisition, NEW a \in Winners(r)
        PROVE  /\ Winners(r) = {a}
               /\ requisition[r].status = DecidedStatus(a[1])
               /\ request[a[1]].decision = "approve" =>
                    \E o \in DOMAIN purchase_order :
                      /\ purchase_order[o].requisition_id = r
                      /\ purchase_order[o].approved_by = request[a[1]].caller
                      /\ answers[a[1]][a[2]].minted = o
    <3>1. /\ a[1] \in Calls /\ a[2] \in DOMAIN answers[a[1]]
          /\ Won(a[1], a[2]) /\ request[a[1]].ids[a[2]] = r
      BY <2>1 DEF Won
    <3>2. ASSUME NEW b \in Winners(r) PROVE b = a
      <4>1. /\ b[1] \in Calls /\ b[2] \in DOMAIN answers[b[1]]
            /\ Won(b[1], b[2]) /\ request[b[1]].ids[b[2]] = r
        BY <2>1 DEF Won
      <4>2. b[1] = a[1] /\ b[2] = a[2]
        BY <3>1, <4>1 DEF AInv, OneWinner
      <4> QED BY <2>1, <4>2
    <3>3. Sound(request[a[1]], a[2], answers[a[1]][a[2]])
      BY <3>1 DEF AInv, Heard
    <3>4. Took(request[a[1]], r, answers[a[1]][a[2]].minted)
      BY <3>1, <3>3 DEF Sound, Won, Told
    <3> QED BY <3>2, <3>4 DEF Took, DecidedStatus
  <2> QED BY <2>2 DEF OneWinnerPerDecision
<1> QED BY <1>1, AnswersHold, PTL

\* A batch that gets a result answers each item in its place, repetitions kept,
\* and names in each permitted answer the row that place asked for.
THEOREM BatchesAreAnsweredInPlace == Spec => []OneAnswerPerItem
<1>1. IInv /\ AInv => OneAnswerPerItem
  <2> SUFFICES ASSUME IInv, AInv, NEW c \in Calls,
                      request[c].tool = "approve_requisition",
                      response[c] \in {"result", "tool_error"}
               PROVE  /\ Len(answers[c]) = Len(request[c].ids)
                      /\ \A i \in DOMAIN answers[c] :
                           Told(c, i) = Permitted => answers[c][i].rows = {request[c].ids[i]}
    BY DEF OneAnswerPerItem
  <2>1. Len(answers[c]) = Len(request[c].ids)
    BY DEF AInv, Replied, Wanted
  <2>2. \A i \in DOMAIN answers[c] : Sound(request[c], i, answers[c][i])
    BY DEF AInv, Heard
  <2> QED BY <2>1, <2>2 DEF Sound, Told
<1> QED BY <1>1, AnswersHold, PTL

\* A call answered "invalid params" has decided nothing: handlers.py reads the
\* decision argument late, but before the first item it could decide.
THEOREM InvalidParamsAreHarmless == Spec => []InvalidParamsWroteNothing
<1>1. AInv => InvalidParamsWroteNothing
  BY DEF AInv, Replied, InvalidParamsWroteNothing
<1> QED BY <1>1, AnswersHold, PTL

\* Dispatch never folds a batch into an error of its own: an internal error means
\* a lost connection, a lost task or a table with no identifier left.
THEOREM ErrorsAreNotOurs == Spec => []NoSelfInflictedError
<1>1. AInv => NoSelfInflictedError
  BY DEF AInv, Replied, NoSelfInflictedError
<1> QED BY <1>1, AnswersHold, PTL

\* No answer, in any batch and at whatever moment it was made, says of a row
\* outside its caller's scope more than that it was not found.
THEOREM NothingForeignLeaks == Spec => []NothingForeignIsDisclosed
<1>1. AInv => NothingForeignIsDisclosed
  <2> SUFFICES ASSUME AInv, NEW c \in Calls, NEW i \in DOMAIN answers[c]
               PROVE  LET q == request[c]
                          InScope(row) == within_row_scope(CallPrincipal(c), Action(q.tool), row)
                          Row(id) == IF q.tool = "record_invoice" THEN OrderById(id)
                                     ELSE RequisitionById(id)
                      IN  /\ Told(c, i) \notin {Permitted, "role_missing", "not_found"}
                               => Row(q.ids[i]) # NoRow /\ InScope(Row(q.ids[i]))
                          /\ \A id \in answers[c][i].rows : InScope(Row(id))
    BY DEF NothingForeignIsDisclosed
  <2>1. Sound(request[c], i, answers[c][i])
    BY DEF AInv, Heard
  <2>2. CallPrincipal(c) = Asker(request[c])
    BY DEF CallPrincipal, Asker
  <2> QED BY <2>1, <2>2 DEF Sound, Within, RowFor, Told
<1> QED BY <1>1, AnswersHold, PTL
=============================================================================
