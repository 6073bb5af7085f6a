---------------------------- MODULE PurchaseToPay ----------------------------
(***************************************************************************)
(* The purchase-to-pay server at the grain of its database statements:     *)
(* concurrent tools/call requests, each run by one of the handlers of      *)
(* purchase_to_pay/handlers.py against the three PostgreSQL tables that    *)
(* purchase_to_pay/repository.py reads and writes.                         *)
(*                                                                         *)
(* A call reads in one transaction and writes in another, so anything may  *)
(* happen between the row it was decided against and the row it writes.    *)
(* Inside the writing transaction every statement sees what is committed   *)
(* when it starts (read committed), an UPDATE holds its row until the end, *)
(* and minting an identifier holds that table's advisory lock until the    *)
(* end.  What a transaction wrote is private until its commit.             *)
(***************************************************************************)
EXTENDS Policy, Sequences

CONSTANTS
  Calls,            \* the calls that may arrive, each answered once
  Offered,          \* the requests a call may carry
  NoRequest,        \* a call that has not arrived
  NoCall,           \* an advisory lock nobody holds
  Replicas,         \* server processes, each with a connection pool
  ServedBy,         \* [Calls -> Replicas], the gateway's choice
  PoolSize,         \* connections in one replica's pool
  MaximumBatch,     \* approve_requisition.MAXIMUM_BATCH
  MaxInteger,       \* largest value of the mint's ::integer cast
  MayFail,          \* calls whose connection or task may be lost
  SeedRequisition,  \* rows the suites load before the server runs
  SeedOrder,
  SeedInvoice

VARIABLES
  pc,               \* where each call's handler stands
  request,          \* what each call carries
  answers,          \* outcomes each handler has yielded so far
  minted,           \* identifier each open transaction has inserted, or 0
  response,         \* what dispatch or a gate answered each call with
  mintLock,         \* holder of each table's advisory lock
  requisition,      \* the committed tables, keyed by identifier
  purchase_order,
  invoice

vars == <<pc, request, answers, minted, response, mintLock,
          requisition, purchase_order, invoice>>

callVars == <<request, answers, response>>
tables == <<requisition, purchase_order, invoice>>

-----------------------------------------------------------------------------
(* Data *)

Statuses == {"submitted", "approved", "rejected"}
OrderStatuses == {"open", "invoiced"}
Tables == {"requisition", "purchase_order", "invoice"}

RequisitionRow ==
  [cost_centre : Partitions, amount : Nat, submitted_by : People,
   status : Statuses]
OrderRow ==
  [requisition_id : Nat, approved_by : People, status : OrderStatuses]
InvoiceRow ==
  [purchase_order_id : Nat, recorded_by : People]

\* A tools/call request.  "usable" stands for the argument checks that look at
\* shapes only (a string where one is declared, a known vendor, the currency,
\* the amount pattern); "ids" is the named row for the single-row tools.
Requests ==
  {q \in [tool : Tools, caller : People, granted : SUBSET Scopes,
          usable : BOOLEAN, ids : Seq(Nat),
          decision : {"approve", "reject", "unknown"}, amount : Nat] :
     q.tool \in {"get_requisition", "record_invoice"} => Len(q.ids) = 1}

\* An outcome: the refusal's reason, or Permitted with the rows it discloses
\* and the identifier it minted.  A refusal names no row.
Outcomes == [reason : Reasons \cup {Permitted}, rows : SUBSET Nat, minted : Nat]

Refusal(reason) == [reason |-> reason, rows |-> {}, minted |-> 0]
Payload(rows, id) == [reason |-> Permitted, rows |-> rows, minted |-> id]

Responses == {"none", "result", "tool_error", "role_denied", "forbidden",
              "invalid_params", "internal_error"}

PCs == {"idle", "next", "write", "update", "mint", "insert", "commit",
        "answered"}

\* Three tables that hold whole chains: an order exists exactly where its
\* requisition is approved, an invoice exactly where its order is invoiced,
\* and no link is doubled.  The fixtures are held to it when they are read.
WholeChains(reqs, orders, invs) ==
  /\ \A r \in DOMAIN reqs :
       reqs[r].status = "approved"
         <=> \E o \in DOMAIN orders : orders[o].requisition_id = r
  /\ \A o \in DOMAIN orders :
       /\ orders[o].requisition_id \in DOMAIN reqs
       /\ orders[o].status = "invoiced"
            <=> \E i \in DOMAIN invs : invs[i].purchase_order_id = o
  /\ \A o, p \in DOMAIN orders :
       orders[o].requisition_id = orders[p].requisition_id => o = p
  /\ \A i \in DOMAIN invs : invs[i].purchase_order_id \in DOMAIN orders
  /\ \A i, j \in DOMAIN invs :
       invs[i].purchase_order_id = invs[j].purchase_order_id => i = j

ASSUME SeedAssumption ==
  /\ SeedRequisition \in Seq(RequisitionRow)
  /\ SeedOrder \in Seq(OrderRow)
  /\ SeedInvoice \in Seq(InvoiceRow)
  /\ WholeChains(SeedRequisition, SeedOrder, SeedInvoice)

ASSUME ServingAssumption ==
  /\ Offered \subseteq Requests
  /\ NoCall \notin Calls
  /\ ServedBy \in [Calls -> Replicas]
  /\ MayFail \subseteq Calls
  /\ {PoolSize, MaximumBatch, MaxInteger} \subseteq Nat \ {0}

-----------------------------------------------------------------------------
(* A call, its principal and the row it stands at *)

CallPrincipal(c) == Principal(request[c].caller, request[c].granted)

\* The row an approve, get or record call is at: the next one unanswered.
Named(c) == request[c].ids[Len(answers[c]) + 1]

\* Mutant: one answer per distinct identifier of the batch.
WantedOncePerRow(q) ==
  IF q.tool = "approve_requisition" THEN Cardinality(Range(q.ids)) ELSE 1

\* How many outcomes the handler yields when nothing stops it.
Wanted(q) == IF q.tool = "approve_requisition" THEN Len(q.ids) ELSE 1

\* PostgresRequisitions.by_id and PostgresPurchaseOrders.by_id, as the entity
\* the chain reads; an order's partition is a join away.
RequisitionById(id) ==
  IF id \in DOMAIN requisition
  THEN [partition    |-> requisition[id].cost_centre,
        amount       |-> requisition[id].amount,
        submitted_by |-> requisition[id].submitted_by]
  ELSE NoRow

OrderById(id) ==
  IF id \in DOMAIN purchase_order
  THEN [partition   |-> requisition[purchase_order[id].requisition_id].cost_centre,
        approved_by |-> purchase_order[id].approved_by]
  ELSE NoRow

\* The table each writing tool mints in.
MintTable(tool) ==
  IF tool = "submit_requisition" THEN "requisition"
  ELSE IF tool = "approve_requisition" THEN "purchase_order" ELSE "invoice"

\* Mutant: the verb is written where the status belongs.
DecidedVerb(c) == request[c].decision

\* The status an approve call's verb writes.
DecidedStatus(c) ==
  IF request[c].decision = "approve" THEN "approved" ELSE "rejected"

Writes(c, tool) ==
  pc[c] \in {"mint", "insert", "commit"} /\ request[c].tool = tool

\* Mutant: an UPDATE does not wait for the row another has changed.
RowNeverHeld(tool, id) == FALSE

\* The row lock an uncommitted UPDATE holds.
RowHeld(tool, id) == \E c \in Calls : Writes(c, tool) /\ Named(c) = id

\* A connection is held from pool.connection() to the end of its block.
Connected(c) == pc[c] \in {"update", "mint", "insert", "commit"}
ConnectionFree(c) ==
  Cardinality({d \in Calls : Connected(d) /\ ServedBy[d] = ServedBy[c]})
    < PoolSize

-----------------------------------------------------------------------------
(* Dispatch: outcomes to a response (transport/dispatch.py) *)

Rendered(outcomes) ==
  LET Class(o) == DenialClass(o.reason)
      Refused == {o \in Range(outcomes) : o.reason # Permitted}
  IN  IF outcomes = << >> THEN "internal_error"
      ELSE IF Refused = {} THEN "result"
      ELSE IF \A o \in Refused : Class(o) = "tool_result" THEN "tool_error"
      ELSE IF Len(outcomes) = 1 /\ Class(outcomes[1]) = "protocol_error"
           THEN "role_denied"
           ELSE "internal_error"

\* The handler is done and dispatch renders what it yielded.
Finish(c, outcomes) ==
  /\ answers' = [answers EXCEPT ![c] = outcomes]
  /\ response' = [response EXCEPT ![c] = Rendered(outcomes)]
  /\ pc' = [pc EXCEPT ![c] = "answered"]

\* A gate or an exception answers instead.
Stop(c, answer) ==
  /\ response' = [response EXCEPT ![c] = answer]
  /\ pc' = [pc EXCEPT ![c] = "answered"]
  /\ UNCHANGED answers

\* The handler yields one outcome and goes on to its next item, if any.
Yield(c, outcome) ==
  LET outcomes == Append(answers[c], outcome) IN
  IF Len(outcomes) = Wanted(request[c])
  THEN Finish(c, outcomes)
  ELSE /\ answers' = [answers EXCEPT ![c] = outcomes]
       /\ pc' = [pc EXCEPT ![c] = "next"]
       /\ UNCHANGED response

Goto(c, label) ==
  /\ pc' = [pc EXCEPT ![c] = label]
  /\ UNCHANGED <<answers, response>>

-----------------------------------------------------------------------------
(* Transactions *)

\* coalesce(max(number), 0) + 1 over what is committed when the INSERT starts.
NextIdentifier(table) == Max(DOMAIN table \cup {0}) + 1

Committed(name) ==
  CASE name = "requisition"    -> requisition
    [] name = "purchase_order" -> purchase_order
    [] name = "invoice"        -> invoice

Put(table, id, row) ==
  [i \in DOMAIN table \cup {id} |-> IF i = id THEN row ELSE table[i]]

\* Mutant: a session's advisory lock, which outlives the transaction.
UnlockNothing(c) ==
  /\ UNCHANGED mintLock
  /\ minted' = [minted EXCEPT ![c] = 0]

\* pg_advisory_xact_lock is released by commit and rollback alike.
Unlock(c) ==
  /\ mintLock' = [t \in Tables |-> IF mintLock[t] = c THEN NoCall ELSE mintLock[t]]
  /\ minted' = [minted EXCEPT ![c] = 0]

\* Mutant: the UPDATE committed on its own, so only what follows is rolled back.
RollbackAfterUpdate(c) ==
  /\ Unlock(c)
  /\ Stop(c, "internal_error")
  /\ requisition' = IF Writes(c, "approve_requisition")
                    THEN [requisition EXCEPT ![Named(c)].status = DecidedStatus(c)]
                    ELSE requisition
  /\ UNCHANGED <<request, purchase_order, invoice>>

Rollback(c) ==
  /\ Unlock(c)
  /\ Stop(c, "internal_error")
  /\ UNCHANGED <<request, tables>>

\* What the transaction of call c makes visible.
Publish(c) ==
  LET q == request[c] IN
  CASE q.tool = "submit_requisition" ->
         /\ requisition' = Put(requisition, minted[c],
                               [cost_centre  |-> CallPrincipal(c).partition,
                                amount       |-> q.amount,
                                submitted_by |-> CallPrincipal(c).subject,
                                status       |-> "submitted"])
         /\ UNCHANGED <<purchase_order, invoice>>
    [] q.tool = "approve_requisition" ->
         /\ requisition' = [requisition EXCEPT ![Named(c)].status = DecidedStatus(c)]
         /\ purchase_order' =
              IF q.decision = "approve"
              THEN Put(purchase_order, minted[c],
                       [requisition_id |-> Named(c),
                        approved_by    |-> CallPrincipal(c).subject,
                        status         |-> "open"])
              ELSE purchase_order
         /\ UNCHANGED invoice
    [] q.tool = "record_invoice" ->
         /\ purchase_order' = [purchase_order EXCEPT ![Named(c)].status = "invoiced"]
         /\ invoice' = Put(invoice, minted[c],
                           [purchase_order_id |-> Named(c),
                            recorded_by       |-> CallPrincipal(c).subject])
         /\ UNCHANGED requisition

\* What the handler yields once its write has committed.
Written(c) ==
  IF request[c].tool = "submit_requisition"
  THEN Payload({minted[c]}, minted[c])
  ELSE Payload({Named(c)}, minted[c])

-----------------------------------------------------------------------------
Init ==
  /\ pc = [c \in Calls |-> "idle"]
  /\ request = [c \in Calls |-> NoRequest]
  /\ answers = [c \in Calls |-> << >>]
  /\ minted = [c \in Calls |-> 0]
  /\ response = [c \in Calls |-> "none"]
  /\ mintLock = [t \in Tables |-> NoCall]
  /\ requisition = SeedRequisition
  /\ purchase_order = SeedOrder
  /\ invoice = SeedInvoice

\* Mutant: approve_requisition leaves decide_call to the chain of each item.
GatedWithoutApprove(tool) == tool \in {"list_requisitions", "submit_requisition"}

\* The handlers that answer decide_call before they look at an argument.
Gated(tool) ==
  tool \in {"list_requisitions", "submit_requisition", "approve_requisition"}

\* Gate 5: a call whose token lacks the tool's scope never reaches dispatch.
ScopeGateRefuses(q) ==
  ~permits_scope(Principal(q.caller, q.granted), Action(q.tool))

\* The argument checks made before the first await.
Readable(q) ==
  /\ q.tool # "list_requisitions" => q.usable
  /\ q.tool = "approve_requisition" => Len(q.ids) \in 1..MaximumBatch

\* Gate 5, then the part of the handler that runs before its first await:
\* decide_call where the handler starts with it, and the argument checks.
\* get_requisition and record_invoice check the identifier before the chain.
Receive(c) ==
  /\ pc[c] = "idle"
  /\ \E q \in Offered :
       LET call == decide_call(Principal(q.caller, q.granted), Action(q.tool)) IN
       /\ request' = [request EXCEPT ![c] = q]
       /\ IF ScopeGateRefuses(q) THEN Stop(c, "forbidden")
          ELSE IF Gated(q.tool) /\ call # Permitted THEN Finish(c, <<Refusal(call)>>)
          ELSE IF ~Readable(q) THEN Stop(c, "invalid_params")
          ELSE Goto(c, IF q.tool = "submit_requisition" THEN "write" ELSE "next")
  /\ UNCHANGED <<minted, mintLock, tables>>

\* list_requisitions: read every row, keep those the chain permits.
ListRows(c) ==
  /\ pc[c] = "next" /\ request[c].tool = "list_requisitions"
  /\ ConnectionFree(c)
  /\ LET visible == {id \in DOMAIN requisition :
                       decide_item(CallPrincipal(c), ReadAction,
                                   RequisitionById(id)) = Permitted}
     IN  Yield(c, Payload(visible, 0))
  /\ UNCHANGED <<request, minted, mintLock, tables>>

\* get_requisition: hydrate, decide, answer.
GetRow(c) ==
  /\ pc[c] = "next" /\ request[c].tool = "get_requisition"
  /\ ConnectionFree(c)
  /\ LET reason == decide_item(CallPrincipal(c), ReadAction,
                               RequisitionById(Named(c)))
     IN  Yield(c, IF reason # Permitted THEN Refusal(reason)
                  ELSE Payload({Named(c)}, 0))
  /\ UNCHANGED <<request, minted, mintLock, tables>>

\* Mutant: an identifier nothing has is an unusable argument.
DecideItemOrReject(c) ==
  /\ pc[c] = "next" /\ request[c].tool = "approve_requisition"
  /\ ConnectionFree(c)
  /\ LET row == RequisitionById(Named(c))
         reason == decide_item(CallPrincipal(c), ApproveAction, row)
     IN  IF row = NoRow THEN Stop(c, "invalid_params")
         ELSE IF reason # Permitted THEN Yield(c, Refusal(reason))
         ELSE Goto(c, "write")
  /\ UNCHANGED <<request, minted, mintLock, tables>>

\* approve_requisition, one item: hydrate and decide, and read the decision
\* argument only once the chain has permitted the item.
DecideItem(c) ==
  /\ pc[c] = "next" /\ request[c].tool = "approve_requisition"
  /\ ConnectionFree(c)
  /\ LET reason == decide_item(CallPrincipal(c), ApproveAction,
                               RequisitionById(Named(c)))
     IN  IF reason # Permitted THEN Yield(c, Refusal(reason))
         ELSE IF request[c].decision = "unknown" THEN Stop(c, "invalid_params")
         ELSE Goto(c, "write")
  /\ UNCHANGED <<request, minted, mintLock, tables>>

\* record_invoice: hydrate the order and decide.
RecordItem(c) ==
  /\ pc[c] = "next" /\ request[c].tool = "record_invoice"
  /\ ConnectionFree(c)
  /\ LET reason == decide_item(CallPrincipal(c), RecordAction, OrderById(Named(c)))
     IN  IF reason # Permitted THEN Yield(c, Refusal(reason)) ELSE Goto(c, "write")
  /\ UNCHANGED <<request, minted, mintLock, tables>>

\* The writing store method checks a connection out of the pool.
Connect(c) ==
  /\ pc[c] = "write"
  /\ ConnectionFree(c)
  /\ Goto(c, IF request[c].tool = "submit_requisition" THEN "mint" ELSE "update")
  /\ UNCHANGED <<request, minted, mintLock, tables>>

\* Mutant: UPDATE ... WHERE id, trusting the row the chain was shown.
DecideRowUnconditionally(c) ==
  /\ pc[c] = "update" /\ request[c].tool = "approve_requisition"
  /\ ~RowHeld("approve_requisition", Named(c))
  /\ Goto(c, IF request[c].decision = "approve" THEN "mint" ELSE "commit")
  /\ UNCHANGED <<request, minted, mintLock, tables>>

\* UPDATE ... WHERE id AND status = 'submitted', evaluated when the row is free.
DecideRow(c) ==
  /\ pc[c] = "update" /\ request[c].tool = "approve_requisition"
  /\ ~RowHeld("approve_requisition", Named(c))
  /\ IF requisition[Named(c)].status # "submitted"
     THEN Yield(c, Refusal("already_decided"))
     ELSE Goto(c, IF request[c].decision = "approve" THEN "mint" ELSE "commit")
  /\ UNCHANGED <<request, minted, mintLock, tables>>

\* Mutant: the same for an order.
BillRowUnconditionally(c) ==
  /\ pc[c] = "update" /\ request[c].tool = "record_invoice"
  /\ ~RowHeld("record_invoice", Named(c))
  /\ Goto(c, "mint")
  /\ UNCHANGED <<request, minted, mintLock, tables>>

\* UPDATE ... WHERE id AND status = 'open'.
BillRow(c) ==
  /\ pc[c] = "update" /\ request[c].tool = "record_invoice"
  /\ ~RowHeld("record_invoice", Named(c))
  /\ IF purchase_order[Named(c)].status # "open"
     THEN Yield(c, Refusal("already_invoiced"))
     ELSE Goto(c, "mint")
  /\ UNCHANGED <<request, minted, mintLock, tables>>

\* Mutant: the mint is not serialised.
MintUnlocked(c) ==
  /\ pc[c] = "mint"
  /\ Goto(c, "insert")
  /\ UNCHANGED <<request, minted, mintLock, tables>>

\* SELECT pg_advisory_xact_lock(key)
AcquireMint(c) ==
  LET t == MintTable(request[c].tool) IN
  /\ pc[c] = "mint"
  /\ mintLock[t] = NoCall
  /\ mintLock' = [mintLock EXCEPT ![t] = c]
  /\ Goto(c, "insert")
  /\ UNCHANGED <<request, minted, tables>>

\* INSERT ... SELECT the next identifier; the cast fails past MaxInteger.
Insert(c) ==
  LET id == NextIdentifier(Committed(MintTable(request[c].tool))) IN
  /\ pc[c] = "insert"
  /\ id <= MaxInteger
  /\ minted' = [minted EXCEPT ![c] = id]
  /\ Goto(c, "commit")
  /\ UNCHANGED <<request, mintLock, tables>>

MintOverflow(c) ==
  /\ pc[c] = "insert"
  /\ NextIdentifier(Committed(MintTable(request[c].tool))) > MaxInteger
  /\ Rollback(c)

\* The connection block is left: COMMIT, and the handler yields the row.
Commit(c) ==
  /\ pc[c] = "commit"
  /\ Publish(c)
  /\ Unlock(c)
  /\ Yield(c, Written(c))
  /\ UNCHANGED request

\* The COMMIT takes effect and its acknowledgement is lost.
CommitUnacknowledged(c) ==
  /\ pc[c] = "commit" /\ c \in MayFail
  /\ Publish(c)
  /\ Unlock(c)
  /\ Stop(c, "internal_error")
  /\ UNCHANGED request

\* A statement, a checkout or the task fails: the transaction is rolled back.
Fail(c) ==
  /\ pc[c] \notin {"idle", "answered"} /\ c \in MayFail
  /\ Rollback(c)

\* Every call has been answered and no other arrives.
Quiet ==
  /\ \A c \in Calls : pc[c] = "answered"
  /\ UNCHANGED vars

Handle(c) ==
  \/ ListRows(c) \/ GetRow(c) \/ DecideItem(c) \/ RecordItem(c)
  \/ Connect(c) \/ DecideRow(c) \/ BillRow(c)
  \/ AcquireMint(c) \/ Insert(c) \/ MintOverflow(c) \/ Commit(c)

Fault(c) == Fail(c) \/ CommitUnacknowledged(c)

Next == (\E c \in Calls : Receive(c) \/ Handle(c) \/ Fault(c)) \/ Quiet

Spec == Init /\ [][Next]_vars

\* A call that has arrived keeps being run: its task is scheduled and the
\* database executes its statements.  Nothing makes a call arrive or fail.
FairSpec == Spec /\ \A c \in Calls : WF_vars(Handle(c))

-----------------------------------------------------------------------------
(* Properties *)

TypeOK ==
  /\ pc \in [Calls -> PCs]
  /\ request \in [Calls -> Offered \cup {NoRequest}]
  /\ \A c \in Calls : pc[c] # "idle" => request[c] \in Offered
  /\ answers \in [Calls -> Seq(Outcomes)]
  /\ minted \in [Calls -> Nat]
  /\ response \in [Calls -> Responses]
  /\ mintLock \in [Tables -> Calls \cup {NoCall}]
  /\ requisition \in Seq(RequisitionRow)
  /\ purchase_order \in Seq(OrderRow)
  /\ invoice \in Seq(InvoiceRow)

\* decide and bill each write two tables in one transaction, so that "a chain
\* with a missing link" is never visible: what is committed is whole chains.
ChainIntact == WholeChains(requisition, purchase_order, invoice)

\* The identifier an open transaction has inserted is in no committed row and
\* in no other open transaction: the primary keys are never what refuses a mint.
MintsAreFresh ==
  \A c \in Calls : minted[c] # 0 =>
    LET t == MintTable(request[c].tool) IN
    /\ minted[c] \notin DOMAIN Committed(t)
    /\ \A d \in Calls \ {c} :
         minted[d] # 0 /\ MintTable(request[d].tool) = t => minted[d] # minted[c]

\* A step that takes no row away, rewrites no column but a status, and leaves
\* every status that is not its table's first.
RowsOnlyAdvance ==
  /\ \A r \in DOMAIN requisition :
       /\ r \in DOMAIN requisition'
       /\ requisition'[r] = [requisition[r] EXCEPT !.status = requisition'[r].status]
       /\ requisition[r].status # "submitted" => requisition'[r] = requisition[r]
  /\ \A o \in DOMAIN purchase_order :
       /\ o \in DOMAIN purchase_order'
       /\ purchase_order'[o] =
            [purchase_order[o] EXCEPT !.status = purchase_order'[o].status]
       /\ purchase_order[o].status # "open" => purchase_order'[o] = purchase_order[o]
  /\ \A i \in DOMAIN invoice : i \in DOMAIN invoice' /\ invoice'[i] = invoice[i]

\* Nothing decided is decided again, billed again, rewritten or lost: a row keeps
\* its identifier and its immutable columns, and its status moves once.
DecisionsAreFinal == [][RowsOnlyAdvance]_tables

\* Every answer of a tool that writes to a row, with its call and position.
Answered(tool) ==
  {a \in UNION {{c} \X DOMAIN answers[c] : c \in Calls} :
     request[a[1]].tool = tool}

Told(c, i) == answers[c][i].reason

\* Of all the calls that name a requisition, whatever their batches and
\* however they interleave, at most one is told its decision was taken, and
\* the row and the order beside it say what that one asked for.
OneWinnerPerDecision ==
  LET Won(r) == {a \in Answered("approve_requisition") :
                   Told(a[1], a[2]) = Permitted /\ request[a[1]].ids[a[2]] = r}
  IN  \A r \in DOMAIN requisition : \A a \in Won(r) :
        /\ Won(r) = {a}
        /\ requisition[r].status = DecidedStatus(a[1])
        /\ request[a[1]].decision = "approve" =>
             \E o \in DOMAIN purchase_order :
               /\ purchase_order[o].requisition_id = r
               /\ purchase_order[o].approved_by = request[a[1]].caller
               /\ answers[a[1]][a[2]].minted = o

\* A batch that gets a result gets one answer per item it named, repetitions
\* kept, and a permitted answer carries the row its own position named.
OneAnswerPerItem ==
  \A c \in Calls :
    /\ request[c] # NoRequest
    /\ request[c].tool = "approve_requisition"
    /\ response[c] \in {"result", "tool_error"}
    => /\ Len(answers[c]) = Len(request[c].ids)
       /\ \A i \in DOMAIN answers[c] :
            Told(c, i) = Permitted => answers[c][i].rows = {request[c].ids[i]}

\* Whether a row exists, is decided, is over the threshold or is one's own is
\* told only to a caller whose partition or bypass covers it.
NothingForeignIsDisclosed ==
  \A c \in Calls : \A i \in DOMAIN answers[c] :
    LET q == request[c]
        InScope(row) == within_row_scope(CallPrincipal(c), Action(q.tool), row)
        Row(id) == IF q.tool = "record_invoice" THEN OrderById(id)
                   ELSE RequisitionById(id)
    IN  /\ Told(c, i) \notin {Permitted, "role_missing", "not_found"}
             => Row(q.ids[i]) # NoRow /\ InScope(Row(q.ids[i]))
        /\ \A id \in answers[c][i].rows : InScope(Row(id))

\* A call answered "invalid params" has written nothing, however late in its
\* batch the unusable argument was read.
InvalidParamsWroteNothing ==
  \A c \in Calls : response[c] = "invalid_params" =>
    \A i \in DOMAIN answers[c] : Told(c, i) # Permitted

MintExhausted == \E t \in Tables : NextIdentifier(Committed(t)) > MaxInteger

\* No call is answered "internal error" by the server's own doing: gate 5 keeps
\* the challenge class from dispatch and the call gate keeps caller-level
\* refusals out of a fold.
NoSelfInflictedError ==
  \A c \in Calls : response[c] = "internal_error" => c \in MayFail \/ MintExhausted

\* A call that has arrived is answered: nobody waits for ever for a row, an
\* advisory lock or a pooled connection.
EveryCallIsAnswered ==
  \A c \in Calls : pc[c] # "idle" ~> pc[c] = "answered"

-----------------------------------------------------------------------------
(* Refinement *)

\* One purchase, read off the three tables by their joins.
ChainOf(reqs, orders, invs, r) ==
  LET ordered == {o \in DOMAIN orders : orders[o].requisition_id = r}
      billed  == {i \in DOMAIN invs : invs[i].purchase_order_id \in ordered}
  IN  [partition |-> reqs[r].cost_centre,
       amount    |-> reqs[r].amount,
       submitter |-> reqs[r].submitted_by,
       stage     |-> IF billed # {} THEN "invoiced" ELSE reqs[r].status,
       approver  |-> IF ordered = {} THEN NoRow
                     ELSE orders[CHOOSE o \in ordered : TRUE].approved_by,
       recorder  |-> IF billed = {} THEN NoRow
                     ELSE invs[CHOOSE i \in billed : TRUE].recorded_by]

ChainsOf(reqs, orders, invs) ==
  [r \in DOMAIN reqs |-> ChainOf(reqs, orders, invs, r)]

Chain == INSTANCE PurchaseChain WITH
  Amounts <- {q.amount : q \in Offered},
  Seed    <- ChainsOf(SeedRequisition, SeedOrder, SeedInvoice),
  Nobody  <- NoRow,
  chain   <- ChainsOf(requisition, purchase_order, invoice)

\* What is committed only ever moves by one promised step at a time, taken by a
\* person entitled to it when it takes effect: the handlers' check on the row
\* they read and the store's predicate on the row it writes add up to that.
ImplementsChain == Chain!Spec
=============================================================================
