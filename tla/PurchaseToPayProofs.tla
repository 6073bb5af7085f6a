------------------------- MODULE PurchaseToPayProofs -------------------------
(***************************************************************************)
(* The inductive invariant of PurchaseToPay and what follows from it, for  *)
(* any number of calls and replicas, any directory, any seeded tables that *)
(* are whole chains, and any of the calls losing its connection or task.   *)
(***************************************************************************)
EXTENDS PurchaseToPay, SequenceTheorems, TLAPS

-----------------------------------------------------------------------------
(* The inductive invariant *)

Transacting == {"write", "update", "mint", "insert", "commit"}
Busy(c) == pc[c] \notin {"idle", "answered"}
Writers == {"submit_requisition", "approve_requisition", "record_invoice"}

\* A decision that rejects mints nothing.
Mints(q) == q.tool = "approve_requisition" => q.decision = "approve"

Minting(c) == pc[c] = "insert" \/ (pc[c] = "commit" /\ Mints(request[c]))

\* Where a handler can stand with what it carries and has answered so far.
Standing(c) ==
  /\ pc[c] = "idle" => answers[c] = << >>
  /\ Busy(c) => Len(answers[c]) < Wanted(request[c])
  /\ pc[c] = "next" => request[c].tool # "submit_requisition"
  /\ pc[c] \in Transacting => request[c].tool \in Writers
  /\ pc[c] = "update" => request[c].tool # "submit_requisition"
  /\ pc[c] \in {"mint", "insert"} => Mints(request[c])

\* What an open transaction has inserted, if anything: the next identifier still.
Inserted(c) ==
  IF pc[c] = "commit" /\ Mints(request[c])
  THEN NextIdentifier(Committed(MintTable(request[c].tool)))
  ELSE 0

\* The advisory lock of a table is held by exactly the call that is minting in
\* it.
Locks ==
  /\ \A t \in Tables, c \in Calls :
       mintLock[t] = c <=> Minting(c) /\ t = MintTable(request[c].tool)
  /\ \A c \in Calls : minted[c] = Inserted(c)

\* The row a writer was shown exists, and one it has updated is as it was, with
\* no other writer on it.
RowOf(c) ==
  /\ pc[c] \in Transacting =>
       /\ request[c].tool = "approve_requisition" => Named(c) \in DOMAIN requisition
       /\ request[c].tool = "record_invoice" => Named(c) \in DOMAIN purchase_order
  /\ Writes(c, "approve_requisition") => requisition[Named(c)].status = "submitted"
  /\ Writes(c, "record_invoice") => purchase_order[Named(c)].status = "open"
  /\ \A d \in Calls \ {c}, tool \in {"approve_requisition", "record_invoice"} :
       Writes(c, tool) /\ Writes(d, tool) => Named(c) # Named(d)

IInv ==
  /\ TypeOK
  /\ \A c \in Calls : Standing(c)
  /\ Locks
  /\ \A c \in Calls : RowOf(c)
  /\ ChainIntact

-----------------------------------------------------------------------------
(* The operators the model is built from *)

\* MintTable always names a table.
LEMMA MintTableType == \A tool : MintTable(tool) \in Tables
BY DEF MintTable, Tables

\* On a table without gaps the mint is one past its length: repository.py's
\* coalesce(max(...), 0) + 1 never meets a row that is there.
LEMMA NextIsOnePast ==
  ASSUME NEW S, NEW s \in Seq(S)
  PROVE  NextIdentifier(s) = Len(s) + 1
<1> DEFINE n == Len(s)
           m == Max(DOMAIN s \cup {0})
<1>1. n \in Nat /\ DOMAIN s = 1..n
  BY LenProperties
<1> HIDE DEF n
<1>2. (DOMAIN s) \cup {0} = 0..n
  BY <1>1
<1>3. n \in 0..n /\ \A y \in 0..n : n >= y
  BY <1>1
<1>4. m \in 0..n /\ \A y \in 0..n : m >= y
  BY <1>2, <1>3 DEF Max
<1> HIDE DEF m
<1>5. m = n
  <2>1. m >= n
    BY <1>3, <1>4
  <2> QED BY <1>1, <1>4, <2>1
<1> QED BY <1>5 DEF NextIdentifier, m, n

LEMMA NextOfTable ==
  ASSUME TypeOK, NEW t \in Tables
  PROVE  /\ NextIdentifier(Committed(t)) \in Nat \ {0}
         /\ NextIdentifier(Committed(t)) = Len(Committed(t)) + 1
         /\ DOMAIN Committed(t) = 1..Len(Committed(t))
<1>1. CASE t = "requisition"
  BY <1>1, NextIsOnePast, LenProperties DEF TypeOK, Committed
<1>2. CASE t = "purchase_order"
  BY <1>2, NextIsOnePast, LenProperties DEF TypeOK, Committed
<1>3. CASE t = "invoice"
  BY <1>3, NextIsOnePast, LenProperties DEF TypeOK, Committed
<1> QED BY <1>1, <1>2, <1>3 DEF Tables

\* Nothing is there yet.
LEMMA PastTheEnd ==
  ASSUME NEW S, NEW s \in Seq(S)
  PROVE  NextIdentifier(s) \notin DOMAIN s
<1>1. Len(s) \in Nat /\ DOMAIN s = 1..Len(s) /\ NextIdentifier(s) = Len(s) + 1
  BY LenProperties, NextIsOnePast
<1> QED BY <1>1

\* Putting a row there appends it.
LEMMA PutAppends ==
  ASSUME NEW S, NEW s \in Seq(S), NEW v \in S
  PROVE  /\ Put(s, NextIdentifier(s), v) \in Seq(S)
         /\ DOMAIN Put(s, NextIdentifier(s), v) = DOMAIN s \cup {NextIdentifier(s)}
         /\ NextIdentifier(s) \notin DOMAIN s
<1> DEFINE n == Len(s)
           t == Put(s, NextIdentifier(s), v)
<1>1. n \in Nat /\ DOMAIN s = 1..n /\ s \in [1..n -> S]
  BY LenProperties
<1>2. (DOMAIN s) \cup {n + 1} = 1..(n + 1)
  BY <1>1
<1>3. NextIdentifier(s) = n + 1
  BY NextIsOnePast
<1>4. t \in [1..(n + 1) -> S]
  BY <1>1, <1>2, <1>3 DEF Put
<1>5. t \in Seq(S)
  BY <1>1, <1>4, SeqDef
<1> QED BY <1>1, <1>2, <1>3, <1>4, <1>5 DEF Put

\* And the rows that were there are as they were.
LEMMA PutKeeps ==
  ASSUME NEW S, NEW s \in Seq(S), NEW v, NEW i \in DOMAIN s
  PROVE  Put(s, NextIdentifier(s), v)[i] = s[i]
<1>1. Len(s) \in Nat /\ DOMAIN s = 1..Len(s) /\ NextIdentifier(s) = Len(s) + 1
  BY LenProperties, NextIsOnePast
<1>2. i # NextIdentifier(s)
  BY <1>1
<1> QED BY <1>2 DEF Put

\* Rewriting one row keeps the table's shape.
LEMMA ExceptKeeps ==
  ASSUME NEW S, NEW s \in Seq(S), NEW i \in DOMAIN s, NEW row \in S,
         NEW t, t = [s EXCEPT ![i] = row]
  PROVE  /\ t \in Seq(S)
         /\ Len(t) = Len(s)
         /\ DOMAIN t = DOMAIN s
         /\ t[i] = row
         /\ \A j \in DOMAIN s \ {i} : t[j] = s[j]
<1>1. Len(s) \in Nat /\ DOMAIN s = 1..Len(s) /\ s \in [1..Len(s) -> S]
  BY LenProperties
<1>2. t \in [1..Len(s) -> S]
  BY <1>1
<1>3. t \in Seq(S)
  BY <1>1, <1>2, SeqDef
<1>4. Len(t) = Len(s)
  BY <1>1, <1>2, <1>3, LenProperties
<1> QED BY <1>1, <1>2, <1>3, <1>4

\* The chain answers with a declared reason or permits.
LEMMA DecideItemType ==
  ASSUME NEW principal, NEW resource,
         NEW action \in {ReadAction, ApproveAction, RecordAction}
  PROVE  decide_item(principal, action, resource) \in Reasons \cup {Permitted}
<1> DEFINE refusing == {i \in DOMAIN action.rules :
                          RuleAnswer(action.rules[i], principal, resource) # Permitted}
<1>1. \A i \in DOMAIN action.rules :
        RuleAnswer(action.rules[i], principal, resource) \in Reasons \cup {Permitted}
  BY DEF ReadAction, ApproveAction, RecordAction, RuleAnswer, Reasons, Permitted,
         refuse_over_threshold, refuse_own_requisition, refuse_own_approval
<1>2. ASSUME refusing # {} PROVE Min(refusing) \in DOMAIN action.rules
  <2>1. DOMAIN action.rules \subseteq 1..2
    BY DEF ReadAction, ApproveAction, RecordAction
  <2>2. \E x \in refusing : \A y \in refusing : x =< y
    BY <1>2, <2>1
  <2> QED BY <2>2 DEF Min
<1>3. FirstRefusal(principal, action, resource) \in Reasons \cup {Permitted}
  BY <1>1, <1>2 DEF FirstRefusal
<1> QED BY <1>3 DEF decide_item, decide_call, Reasons, Permitted

\* It permits no absent row.
LEMMA PermittedRowsExist ==
  ASSUME NEW principal, NEW action, NEW resource,
         decide_item(principal, action, resource) = Permitted
  PROVE  resource # NoRow
BY DEF decide_item, Permitted

\* Dispatch answers with one of the shapes it has.
LEMMA RenderedType == \A outcomes : Rendered(outcomes) \in Responses \ {"none"}
BY DEF Rendered, Responses

-----------------------------------------------------------------------------
(* How a handler moves *)

\* Every other call stands where it stood.
OthersStay(c) ==
  \A d \in Calls \ {c} :
    pc'[d] = pc[d] /\ request'[d] = request[d] /\ answers'[d] = answers[d]

TypeOfCalls ==
  /\ pc \in [Calls -> PCs]
  /\ answers \in [Calls -> Seq(Outcomes)]
  /\ response \in [Calls -> Responses]

\* The request of a call that has arrived.
LEMMA ArrivedRequest ==
  ASSUME TypeOK, NEW c \in Calls, pc[c] # "idle"
  PROVE  /\ request[c] \in Requests
         /\ Wanted(request[c]) \in Nat
         /\ request[c].tool \in {"submit_requisition", "list_requisitions"} =>
              Wanted(request[c]) = 1
         /\ \A i \in 1..Wanted(request[c]) :
              request[c].tool \notin {"submit_requisition", "list_requisitions"} =>
                request[c].ids[i] \in Nat
<1>1. request[c] \in Requests
  BY ServingAssumption DEF TypeOK
<1>2. request[c].ids \in Seq(Nat) /\ request[c].tool \in Tools
  BY <1>1 DEF Requests
<1>3. Len(request[c].ids) \in Nat /\ request[c].ids \in [1..Len(request[c].ids) -> Nat]
  BY <1>2, LenProperties
<1>4. Wanted(request[c]) = IF request[c].tool \in {"submit_requisition", "list_requisitions"}
                           THEN 1 ELSE Len(request[c].ids)
  BY <1>1, <1>2 DEF Wanted, Requests, Tools
<1> QED BY <1>1, <1>3, <1>4

\* A call that yields one more outcome goes on only while it wants another.
LEMMA YieldMoves ==
  ASSUME TypeOK, NEW c \in Calls, Standing(c), Busy(c), NEW o \in Outcomes,
         Yield(c, o), UNCHANGED request
  PROVE  /\ TypeOfCalls'
         /\ pc'[c] \in {"next", "answered"}
         /\ Standing(c)'
         /\ OthersStay(c)
<1> DEFINE q == request[c]
           outcomes == Append(answers[c], o)
<1>1. /\ pc \in [Calls -> PCs] /\ answers \in [Calls -> Seq(Outcomes)]
      /\ response \in [Calls -> Responses] /\ pc[c] # "idle"
  BY DEF TypeOK, Busy
<1>2. Wanted(q) \in Nat
      /\ (q.tool = "submit_requisition" => Wanted(q) = 1)
  BY <1>1, ArrivedRequest
<1>3. /\ outcomes \in Seq(Outcomes) /\ Len(outcomes) = Len(answers[c]) + 1
      /\ Len(answers[c]) \in Nat
  BY <1>1, AppendProperties, LenProperties
<1>4. Len(answers[c]) < Wanted(q)
  BY DEF Standing
<1>5. /\ answers' = [answers EXCEPT ![c] = outcomes]
      /\ \/ /\ Len(outcomes) = Wanted(q)
            /\ response' = [response EXCEPT ![c] = Rendered(outcomes)]
            /\ pc' = [pc EXCEPT ![c] = "answered"]
         \/ /\ Len(outcomes) # Wanted(q)
            /\ pc' = [pc EXCEPT ![c] = "next"]
            /\ UNCHANGED response
  BY DEF Yield, Finish
<1>6. TypeOfCalls'
  BY <1>1, <1>3, <1>5, RenderedType DEF TypeOfCalls, PCs
<1>7. pc'[c] = "answered" \/ (pc'[c] = "next" /\ Len(outcomes) # Wanted(q))
  BY <1>1, <1>5
<1>8. answers'[c] = outcomes /\ request'[c] = q
  BY <1>1, <1>5
<1>9. Standing(c)'
  <2>1. CASE pc'[c] = "answered"
    BY <2>1 DEF Standing, Busy, Transacting
  <2>2. CASE pc'[c] = "next" /\ Len(outcomes) # Wanted(q)
    <3>1. Len(outcomes) < Wanted(q)
      BY <1>2, <1>3, <1>4, <2>2
    <3>2. q.tool # "submit_requisition"
      BY <1>2, <1>3, <3>1
    <3> QED BY <1>8, <2>2, <3>1, <3>2 DEF Standing, Busy, Transacting
  <2> QED BY <1>7, <2>1, <2>2
<1>10. OthersStay(c)
  BY <1>1, <1>5 DEF OthersStay
<1> QED BY <1>6, <1>7, <1>9, <1>10

LEMMA StopMoves ==
  ASSUME TypeOK, NEW c \in Calls, NEW answer \in Responses, Stop(c, answer)
  PROVE  /\ TypeOfCalls'
         /\ pc'[c] = "answered"
         /\ Standing(c)'
         /\ \A d \in Calls \ {c} : pc'[d] = pc[d] /\ answers'[d] = answers[d]
<1>1. /\ pc \in [Calls -> PCs] /\ answers \in [Calls -> Seq(Outcomes)]
      /\ response \in [Calls -> Responses]
  BY DEF TypeOK
<1>2. TypeOfCalls' /\ pc'[c] = "answered"
      /\ \A d \in Calls \ {c} : pc'[d] = pc[d] /\ answers'[d] = answers[d]
  BY <1>1 DEF Stop, TypeOfCalls, PCs
<1> QED BY <1>2 DEF Standing, Busy, Transacting

LEMMA GotoMoves ==
  ASSUME TypeOK, NEW c \in Calls, NEW label \in PCs, Goto(c, label)
  PROVE  /\ TypeOfCalls'
         /\ pc'[c] = label
         /\ answers'[c] = answers[c]
         /\ \A d \in Calls \ {c} : pc'[d] = pc[d] /\ answers'[d] = answers[d]
BY DEF TypeOK, TypeOfCalls, Goto

\* A step that only moves one call, which is minting neither before nor after,
\* keeps the invariant when it leaves that call standing properly.
LEMMA MovingKeepsIInv ==
  ASSUME IInv, NEW c \in Calls, OthersStay(c), TypeOfCalls',
         request' \in [Calls -> Offered \cup {NoRequest}],
         pc'[c] # "idle" => request'[c] \in Offered,
         UNCHANGED <<minted, mintLock, tables>>,
         ~Minting(c), ~Minting(c)', Standing(c)', RowOf(c)'
  PROVE  IInv'
<1>1. UNCHANGED <<minted, mintLock, requisition, purchase_order, invoice>>
  BY DEF tables
<1>2. TypeOK'
  <2>1. \A d \in Calls : pc'[d] # "idle" => request'[d] \in Offered
    BY DEF IInv, TypeOK, OthersStay
  <2> QED BY <1>1, <2>1 DEF IInv, TypeOK, TypeOfCalls
<1>3. ASSUME NEW d \in Calls PROVE Standing(d)'
  <2>1. CASE d = c
    BY <2>1
  <2>2. CASE d # c
    BY <2>2 DEF IInv, OthersStay, Standing, Busy, Mints, Wanted
  <2> QED BY <2>1, <2>2
<1>4. Locks'
  <2>1. ASSUME NEW d \in Calls, d # c
        PROVE  (Minting(d)' <=> Minting(d)) /\ request'[d] = request[d]
               /\ pc'[d] = pc[d]
    BY <2>1 DEF OthersStay, Minting, Mints
  <2>2. ASSUME NEW t \in Tables, NEW d \in Calls
        PROVE  mintLock'[t] = d <=> Minting(d)' /\ t = MintTable(request'[d].tool)
    BY <1>1, <2>1 DEF IInv, Locks
  <2>3. ASSUME NEW d \in Calls
        PROVE  minted'[d] = Inserted(d)'
    <3>1. CASE d = c
      BY <1>1, <3>1 DEF IInv, Locks, Minting, Inserted
    <3>2. CASE d # c
      BY <1>1, <2>1, <3>2 DEF IInv, Locks, Inserted, Committed
    <3> QED BY <3>1, <3>2
  <2> QED BY <2>2, <2>3 DEF Locks
<1>5. ASSUME NEW d \in Calls PROVE RowOf(d)'
  <2>1. CASE d = c
    BY <2>1
  <2>2. CASE d # c
    <3>1. \A e \in Calls \ {c} : Named(e)' = Named(e)
            /\ \A tool : Writes(e, tool)' = Writes(e, tool)
      BY DEF OthersStay, Named, Writes
    <3>2. \A e \in Calls \ {d}, tool \in {"approve_requisition", "record_invoice"} :
            Writes(d, tool)' /\ Writes(e, tool)' => Named(d)' # Named(e)'
      <4>1. ASSUME NEW tool \in {"approve_requisition", "record_invoice"},
                   Writes(d, tool)', Writes(c, tool)'
            PROVE  Named(d)' # Named(c)'
        BY <2>2, <4>1 DEF RowOf
      <4> QED BY <2>2, <3>1, <4>1 DEF IInv, RowOf
    <3> QED BY <1>1, <2>2, <3>1, <3>2 DEF IInv, RowOf, OthersStay
  <2> QED BY <2>1, <2>2
<1>6. ChainIntact'
  BY <1>1 DEF IInv, ChainIntact, WholeChains
<1> QED BY <1>2, <1>3, <1>4, <1>5, <1>6 DEF IInv

-----------------------------------------------------------------------------
(* The steps that read, wait or check *)

\* A call that is not in its transaction holds no row and is on none.
LEMMA OffEveryRow ==
  ASSUME NEW c \in Calls, pc'[c] \in {"idle", "next", "answered"}
  PROVE  RowOf(c)' /\ ~Minting(c)'
BY DEF RowOf, Minting, Writes, Transacting

LEMMA NamedType ==
  ASSUME TypeOK, NEW c \in Calls, Standing(c), Busy(c),
         request[c].tool \notin {"submit_requisition", "list_requisitions"}
  PROVE  Named(c) \in Nat
<1>1. /\ Wanted(request[c]) \in Nat
      /\ \A i \in 1..Wanted(request[c]) : request[c].ids[i] \in Nat
  BY ArrivedRequest DEF Busy
<1>2. Len(answers[c]) \in Nat
  BY LenProperties DEF TypeOK
<1>3. Len(answers[c]) + 1 \in 1..Wanted(request[c])
  BY <1>1, <1>2 DEF Standing
<1> QED BY <1>1, <1>3 DEF Named

LEMMA ReceiveKeepsIInv ==
  ASSUME IInv, NEW c \in Calls, Receive(c)
  PROVE  IInv'
<1> USE DEF IInv
<1>1. PICK q \in Offered :
        LET call == decide_call(Principal(q.caller, q.granted), Action(q.tool)) IN
        /\ request' = [request EXCEPT ![c] = q]
        /\ IF ScopeGateRefuses(q) THEN Stop(c, "forbidden")
           ELSE IF Gated(q.tool) /\ call # Permitted THEN Finish(c, <<Refusal(call)>>)
           ELSE IF ~Readable(q) THEN Stop(c, "invalid_params")
           ELSE Goto(c, IF q.tool = "submit_requisition" THEN "write" ELSE "next")
  BY DEF Receive
<1>2. /\ pc[c] = "idle" /\ answers[c] = << >>
      /\ UNCHANGED <<minted, mintLock, tables>>
      /\ pc \in [Calls -> PCs] /\ answers \in [Calls -> Seq(Outcomes)]
      /\ response \in [Calls -> Responses]
      /\ request \in [Calls -> Offered \cup {NoRequest}]
  BY DEF Receive, TypeOK, Standing
<1>3. /\ request' = [request EXCEPT ![c] = q]
      /\ request' \in [Calls -> Offered \cup {NoRequest}]
      /\ request'[c] = q
      /\ \A d \in Calls \ {c} : request'[d] = request[d]
  BY <1>1, <1>2
<1>4. ~Minting(c)
  BY <1>2 DEF Minting
<1>5. CASE Stop(c, "forbidden") \/ Stop(c, "invalid_params")
  <2>1. /\ TypeOfCalls' /\ pc'[c] = "answered" /\ Standing(c)'
        /\ \A d \in Calls \ {c} : pc'[d] = pc[d] /\ answers'[d] = answers[d]
    BY <1>5, StopMoves DEF Responses
  <2> QED BY <1>2, <1>3, <1>4, <2>1, OffEveryRow, MovingKeepsIInv DEF OthersStay
<1>6. ASSUME NEW reason \in Reasons, Finish(c, <<Refusal(reason)>>)
      PROVE  IInv'
  <2>1. <<Refusal(reason)>> \in Seq(Outcomes)
    BY DEF Refusal, Outcomes
  <2>2. TypeOfCalls' /\ pc'[c] = "answered"
        /\ \A d \in Calls \ {c} : pc'[d] = pc[d] /\ answers'[d] = answers[d]
    BY <1>2, <1>6, <2>1, RenderedType DEF Finish, TypeOfCalls, PCs
  <2>3. Standing(c)'
    BY <2>2 DEF Standing, Busy, Transacting
  <2> QED BY <1>2, <1>3, <1>4, <2>2, <2>3, OffEveryRow, MovingKeepsIInv DEF OthersStay
<1>7. CASE /\ q.tool = "approve_requisition" => Len(q.ids) \in 1..MaximumBatch
           /\ Goto(c, IF q.tool = "submit_requisition" THEN "write" ELSE "next")
  <2> DEFINE label == IF q.tool = "submit_requisition" THEN "write" ELSE "next"
  <2>1. /\ TypeOfCalls' /\ pc'[c] = label /\ answers'[c] = << >>
        /\ \A d \in Calls \ {c} : pc'[d] = pc[d] /\ answers'[d] = answers[d]
    BY <1>2, <1>7, GotoMoves DEF PCs
  <2>2. Len(<< >>) < Wanted(q)
    <3>1. CASE q.tool = "approve_requisition"
      <4>1. MaximumBatch \in Nat /\ Wanted(q) = Len(q.ids)
        BY <3>1, ServingAssumption DEF Wanted
      <4> QED BY <1>7, <3>1, <4>1
    <3>2. CASE q.tool # "approve_requisition"
      BY <3>2 DEF Wanted
    <3> QED BY <3>1, <3>2
  <2>3. /\ pc'[c] \in {"write", "next"}
        /\ pc'[c] = "write" <=> request'[c].tool = "submit_requisition"
        /\ Len(answers'[c]) < Wanted(request'[c])
    BY <1>3, <2>1, <2>2
  <2>4. Standing(c)'
    BY <2>3 DEF Standing, Busy, Transacting, Writers
  <2>5. RowOf(c)' /\ ~Minting(c)'
    BY <2>3 DEF RowOf, Minting, Writes, Transacting
  <2> QED BY <1>2, <1>3, <1>4, <2>1, <2>4, <2>5, MovingKeepsIInv DEF OthersStay
<1>8. decide_call(Principal(q.caller, q.granted), Action(q.tool)) # Permitted
        => decide_call(Principal(q.caller, q.granted), Action(q.tool)) \in Reasons
  BY DEF decide_call, Reasons
<1> QED BY <1>1, <1>5, <1>6, <1>7, <1>8 DEF Readable

\* A reading step that yields an outcome keeps the invariant.
LEMMA YieldingKeepsIInv ==
  ASSUME IInv, NEW c \in Calls, Busy(c), ~Minting(c), NEW o \in Outcomes,
         Yield(c, o), UNCHANGED <<request, minted, mintLock, tables>>
  PROVE  IInv'
<1> USE DEF IInv
<1>1. TypeOfCalls' /\ pc'[c] \in {"next", "answered"} /\ Standing(c)' /\ OthersStay(c)
  BY YieldMoves
<1>2. request' \in [Calls -> Offered \cup {NoRequest}] /\ request'[c] \in Offered
  BY DEF TypeOK, Busy
<1> QED BY <1>1, <1>2, OffEveryRow, MovingKeepsIInv

LEMMA StoppingKeepsIInv ==
  ASSUME IInv, NEW c \in Calls, Busy(c), ~Minting(c), NEW answer \in Responses,
         Stop(c, answer), UNCHANGED <<request, minted, mintLock, tables>>
  PROVE  IInv'
<1> USE DEF IInv
<1>1. /\ TypeOfCalls' /\ pc'[c] = "answered" /\ Standing(c)'
      /\ \A d \in Calls \ {c} : pc'[d] = pc[d] /\ answers'[d] = answers[d]
  BY StopMoves
<1>2. request' \in [Calls -> Offered \cup {NoRequest}] /\ request'[c] \in Offered
  BY DEF TypeOK, Busy
<1> QED BY <1>1, <1>2, OffEveryRow, MovingKeepsIInv DEF OthersStay

\* So does one that goes on to a step which mints nothing.
LEMMA GoingKeepsIInv ==
  ASSUME IInv, NEW c \in Calls, Busy(c), ~Minting(c),
         NEW label \in Transacting \ {"insert"}, Goto(c, label),
         label = "commit" => ~Mints(request[c]),
         label = "mint" => Mints(request[c]),
         label = "update" => request[c].tool # "submit_requisition",
         request[c].tool \in Writers,
         UNCHANGED <<request, minted, mintLock, tables>>, RowOf(c)'
  PROVE  IInv'
<1> USE DEF IInv
<1>1. /\ TypeOfCalls' /\ pc'[c] = label /\ answers'[c] = answers[c]
      /\ \A d \in Calls \ {c} : pc'[d] = pc[d] /\ answers'[d] = answers[d]
  BY GotoMoves DEF Transacting, PCs
<1>2. Standing(c)'
  BY <1>1 DEF Standing, Busy, Transacting, Wanted, Mints
<1>3. ~Minting(c)'
  BY <1>1 DEF Minting, Mints
<1>4. request' \in [Calls -> Offered \cup {NoRequest}] /\ request'[c] \in Offered
  BY DEF TypeOK, Busy
<1> QED BY <1>1, <1>2, <1>3, <1>4, MovingKeepsIInv DEF OthersStay

LEMMA ListRowsKeepsIInv ==
  ASSUME IInv, NEW c \in Calls, ListRows(c)
  PROVE  IInv'
<1> DEFINE visible == {id \in DOMAIN requisition :
                         decide_item(CallPrincipal(c), ReadAction,
                                     RequisitionById(id)) = Permitted}
<1>1. DOMAIN requisition \subseteq Nat
  BY LenProperties DEF IInv, TypeOK
<1>2. Payload(visible, 0) \in Outcomes
  BY <1>1 DEF Payload, Outcomes
<1>3. Busy(c) /\ ~Minting(c) /\ UNCHANGED <<request, minted, mintLock, tables>>
      /\ Yield(c, Payload(visible, 0))
  BY DEF ListRows, Busy, Minting
<1> QED BY <1>2, <1>3, YieldingKeepsIInv

LEMMA GetRowKeepsIInv ==
  ASSUME IInv, NEW c \in Calls, GetRow(c)
  PROVE  IInv'
<1> DEFINE reason == decide_item(CallPrincipal(c), ReadAction, RequisitionById(Named(c)))
           o == IF reason # Permitted THEN Refusal(reason) ELSE Payload({Named(c)}, 0)
<1>1. Busy(c) /\ ~Minting(c) /\ UNCHANGED <<request, minted, mintLock, tables>>
      /\ Yield(c, o)
  BY DEF GetRow, Busy, Minting
<1>2. Named(c) \in Nat
  BY <1>1, NamedType DEF IInv, GetRow
<1>3. o \in Outcomes
  BY <1>2, DecideItemType DEF Refusal, Payload, Outcomes
<1> QED BY <1>1, <1>3, YieldingKeepsIInv

\* A refusal the chain gives is an outcome.
LEMMA RefusalType == \A reason \in Reasons : Refusal(reason) \in Outcomes
BY DEF Refusal, Outcomes

LEMMA DecideItemKeepsIInv ==
  ASSUME IInv, NEW c \in Calls, DecideItem(c)
  PROVE  IInv'
<1> DEFINE row == RequisitionById(Named(c))
           reason == decide_item(CallPrincipal(c), ApproveAction, row)
<1>1. /\ Busy(c) /\ ~Minting(c) /\ UNCHANGED <<request, minted, mintLock, tables>>
      /\ request[c].tool = "approve_requisition"
      /\ \/ reason # Permitted /\ Yield(c, Refusal(reason))
         \/ Stop(c, "invalid_params")
         \/ reason = Permitted /\ Goto(c, "write")
  BY DEF DecideItem, Busy, Minting
<1>2. CASE reason # Permitted /\ Yield(c, Refusal(reason))
  BY <1>1, <1>2, DecideItemType, RefusalType, YieldingKeepsIInv
<1>3. CASE Stop(c, "invalid_params")
  BY <1>1, <1>3, StoppingKeepsIInv DEF Responses
<1>4. CASE reason = Permitted /\ Goto(c, "write")
  <2>1. Named(c) \in DOMAIN requisition
    BY <1>4, PermittedRowsExist DEF RequisitionById
  <2>2. pc'[c] = "write" /\ Named(c)' = Named(c) /\ UNCHANGED requisition
    BY <1>1, <1>4 DEF Goto, Named, tables, IInv, TypeOK
  <2>3. RowOf(c)'
    BY <1>1, <2>1, <2>2 DEF RowOf, Writes
  <2> QED BY <1>1, <1>4, <2>3, GoingKeepsIInv DEF Transacting, Writers
<1> QED BY <1>1, <1>2, <1>3, <1>4

LEMMA RecordItemKeepsIInv ==
  ASSUME IInv, NEW c \in Calls, RecordItem(c)
  PROVE  IInv'
<1> DEFINE row == OrderById(Named(c))
           reason == decide_item(CallPrincipal(c), RecordAction, row)
<1>1. /\ Busy(c) /\ ~Minting(c) /\ UNCHANGED <<request, minted, mintLock, tables>>
      /\ request[c].tool = "record_invoice"
      /\ \/ reason # Permitted /\ Yield(c, Refusal(reason))
         \/ reason = Permitted /\ Goto(c, "write")
  BY DEF RecordItem, Busy, Minting
<1>2. CASE reason # Permitted /\ Yield(c, Refusal(reason))
  BY <1>1, <1>2, DecideItemType, RefusalType, YieldingKeepsIInv
<1>3. CASE reason = Permitted /\ Goto(c, "write")
  <2>1. Named(c) \in DOMAIN purchase_order
    BY <1>3, PermittedRowsExist DEF OrderById
  <2>2. pc'[c] = "write" /\ Named(c)' = Named(c) /\ UNCHANGED purchase_order
    BY <1>1, <1>3 DEF Goto, Named, tables, IInv, TypeOK
  <2>3. RowOf(c)'
    BY <1>1, <2>1, <2>2 DEF RowOf, Writes
  <2> QED BY <1>1, <1>3, <2>3, GoingKeepsIInv DEF Transacting, Writers
<1> QED BY <1>1, <1>2, <1>3

LEMMA ConnectKeepsIInv ==
  ASSUME IInv, NEW c \in Calls, Connect(c)
  PROVE  IInv'
<1> DEFINE label == IF request[c].tool = "submit_requisition" THEN "mint" ELSE "update"
<1>1. /\ Busy(c) /\ ~Minting(c) /\ UNCHANGED <<request, minted, mintLock, tables>>
      /\ pc[c] = "write" /\ Goto(c, label)
  BY DEF Connect, Busy, Minting
<1>2. request[c].tool \in Writers
  BY <1>1 DEF IInv, Standing, Transacting
<1>3. pc'[c] = label /\ Named(c)' = Named(c) /\ UNCHANGED <<requisition, purchase_order>>
  BY <1>1 DEF Goto, Named, tables, IInv, TypeOK
<1>4. RowOf(c)'
  BY <1>1, <1>3 DEF IInv, RowOf, Writes, Transacting
<1> QED BY <1>1, <1>2, <1>4, GoingKeepsIInv DEF Transacting, Mints

\* The UPDATE finds its row free and undecided, so no other writer is on it.
LEMMA DecideRowKeepsIInv ==
  ASSUME IInv, NEW c \in Calls, DecideRow(c)
  PROVE  IInv'
<1> DEFINE label == IF request[c].decision = "approve" THEN "mint" ELSE "commit"
<1>1. /\ Busy(c) /\ ~Minting(c) /\ UNCHANGED <<request, minted, mintLock, tables>>
      /\ pc[c] = "update" /\ request[c].tool = "approve_requisition"
      /\ \A d \in Calls : ~(Writes(d, "approve_requisition") /\ Named(d) = Named(c))
      /\ \/ Yield(c, Refusal("already_decided"))
         \/ requisition[Named(c)].status = "submitted" /\ Goto(c, label)
  BY DEF DecideRow, Busy, Minting, RowHeld
<1>2. CASE Yield(c, Refusal("already_decided"))
  BY <1>1, <1>2, RefusalType, YieldingKeepsIInv DEF Reasons
<1>3. CASE requisition[Named(c)].status = "submitted" /\ Goto(c, label)
  <2>1. /\ pc'[c] = label /\ Named(c)' = Named(c)
        /\ UNCHANGED <<requisition, purchase_order>>
        /\ \A d \in Calls \ {c} : Named(d)' = Named(d)
             /\ \A tool : Writes(d, tool)' = Writes(d, tool)
    BY <1>1, <1>3 DEF Goto, Named, Writes, tables, IInv, TypeOK
  <2>2. RowOf(c)'
    <3>1. \A tool : Writes(c, tool)' => tool = "approve_requisition"
      BY <1>1 DEF Writes
    <3>2. \A d \in Calls \ {c} :
            Writes(d, "approve_requisition")' => Named(c)' # Named(d)'
      BY <1>1, <2>1
    <3>3. Named(c) \in DOMAIN requisition
      BY <1>1 DEF IInv, RowOf, Transacting
    <3> QED BY <1>1, <1>3, <2>1, <3>1, <3>2, <3>3 DEF RowOf
  <2> QED BY <1>1, <1>3, <2>2, GoingKeepsIInv DEF Transacting, Writers, Mints
<1> QED BY <1>1, <1>2, <1>3

LEMMA BillRowKeepsIInv ==
  ASSUME IInv, NEW c \in Calls, BillRow(c)
  PROVE  IInv'
<1>1. /\ Busy(c) /\ ~Minting(c) /\ UNCHANGED <<request, minted, mintLock, tables>>
      /\ pc[c] = "update" /\ request[c].tool = "record_invoice"
      /\ \A d \in Calls : ~(Writes(d, "record_invoice") /\ Named(d) = Named(c))
      /\ \/ Yield(c, Refusal("already_invoiced"))
         \/ /\ purchase_order[Named(c)].status = "open"
            /\ Goto(c, "mint")
  BY DEF BillRow, Busy, Minting, RowHeld
<1>2. CASE Yield(c, Refusal("already_invoiced"))
  BY <1>1, <1>2, RefusalType, YieldingKeepsIInv DEF Reasons
<1>3. CASE purchase_order[Named(c)].status = "open" /\ Goto(c, "mint")
  <2>1. /\ pc'[c] = "mint" /\ Named(c)' = Named(c)
        /\ UNCHANGED <<requisition, purchase_order>>
        /\ \A d \in Calls \ {c} : Named(d)' = Named(d)
             /\ \A tool : Writes(d, tool)' = Writes(d, tool)
    BY <1>1, <1>3 DEF Goto, Named, Writes, tables, IInv, TypeOK
  <2>2. RowOf(c)'
    <3>1. \A tool : Writes(c, tool)' => tool = "record_invoice"
      BY <1>1 DEF Writes
    <3>2. \A d \in Calls \ {c} :
            Writes(d, "record_invoice")' => Named(c)' # Named(d)'
      BY <1>1, <2>1
    <3>3. Named(c) \in DOMAIN purchase_order
      BY <1>1 DEF IInv, RowOf, Transacting
    <3> QED BY <1>1, <1>3, <2>1, <3>1, <3>2, <3>3 DEF RowOf
  <2> QED BY <1>1, <1>3, <2>2, GoingKeepsIInv DEF Transacting, Writers, Mints
<1> QED BY <1>1, <1>2, <1>3

-----------------------------------------------------------------------------
(* The steps of a mint *)

\* A writer that goes on inside its transaction keeps its row and every other.
LEMMA AdvanceKeepsRows ==
  ASSUME IInv, NEW c \in Calls, pc[c] \in {"mint", "insert"},
         NEW label \in {"insert", "commit"}, Goto(c, label), UNCHANGED <<request, tables>>
  PROVE  /\ TypeOfCalls'
         /\ pc'[c] = label
         /\ OthersStay(c)
         /\ \A d \in Calls : Standing(d)' /\ RowOf(d)'
         /\ ChainIntact'
<1> USE DEF IInv
<1>1. /\ TypeOfCalls' /\ pc'[c] = label /\ OthersStay(c)
      /\ UNCHANGED <<request, answers, requisition, purchase_order, invoice>>
  BY GotoMoves DEF PCs, OthersStay, tables, Goto
<1>2. ASSUME NEW d \in Calls PROVE Standing(d)'
  BY <1>1 DEF OthersStay, Standing, Busy, Transacting, Wanted, Mints
<1>3. \A d \in Calls : Named(d)' = Named(d) /\ \A tool : Writes(d, tool)' = Writes(d, tool)
  BY <1>1 DEF OthersStay, Named, Writes
<1>4. \A d \in Calls : pc'[d] \in Transacting <=> pc[d] \in Transacting
  BY <1>1 DEF OthersStay, Transacting
<1>5. ASSUME NEW d \in Calls PROVE RowOf(d)'
  BY <1>1, <1>3, <1>4 DEF RowOf
<1> QED BY <1>1, <1>2, <1>5 DEF ChainIntact, WholeChains

LEMMA AcquireMintKeepsIInv ==
  ASSUME IInv, NEW c \in Calls, AcquireMint(c)
  PROVE  IInv'
<1> USE DEF IInv
<1> DEFINE t == MintTable(request[c].tool)
<1>1. /\ pc[c] = "mint" /\ mintLock[t] = NoCall /\ t \in Tables
      /\ mintLock' = [mintLock EXCEPT ![t] = c]
      /\ Goto(c, "insert") /\ UNCHANGED <<request, minted, tables>>
  BY MintTableType DEF AcquireMint
<1>2. /\ TypeOfCalls' /\ pc'[c] = "insert" /\ OthersStay(c)
      /\ \A d \in Calls : Standing(d)' /\ RowOf(d)'
      /\ ChainIntact'
  BY <1>1, AdvanceKeepsRows
<1>3. mintLock \in [Tables -> Calls \cup {NoCall}]
      /\ UNCHANGED <<requisition, purchase_order, invoice>>
  BY <1>1 DEF TypeOK, tables
<1>4. TypeOK'
  <2>1. \A d \in Calls : pc'[d] # "idle" => request'[d] \in Offered
    BY <1>1, <1>2 DEF TypeOK, OthersStay
  <2>2. mintLock' \in [Tables -> Calls \cup {NoCall}]
    BY <1>1, <1>3
  <2> QED BY <1>1, <1>2, <1>3, <2>1, <2>2 DEF TypeOK, TypeOfCalls
<1>5. Locks'
  <2>1. \A d \in Calls \ {c} : Minting(d)' <=> Minting(d)
    BY <1>1, <1>2 DEF OthersStay, Minting
  <2>2. ~Minting(c) /\ Minting(c)'
    BY <1>1, <1>2 DEF Minting
  <2>3. ASSUME NEW s \in Tables, NEW d \in Calls
        PROVE  mintLock'[s] = d <=> Minting(d)' /\ s = MintTable(request'[d].tool)
    BY <1>1, <1>3, <2>1, <2>2, ServingAssumption DEF Locks
  <2>4. ASSUME NEW d \in Calls PROVE minted'[d] = Inserted(d)'
    BY <1>1, <1>2, <1>3 DEF Locks, Inserted, Committed, OthersStay
  <2> QED BY <2>3, <2>4 DEF Locks
<1> QED BY <1>2, <1>4, <1>5

LEMMA InsertKeepsIInv ==
  ASSUME IInv, NEW c \in Calls, Insert(c)
  PROVE  IInv'
<1> USE DEF IInv
<1> DEFINE id == NextIdentifier(Committed(MintTable(request[c].tool)))
<1>1. /\ pc[c] = "insert" /\ minted' = [minted EXCEPT ![c] = id]
      /\ Goto(c, "commit") /\ UNCHANGED <<request, mintLock, tables>>
  BY DEF Insert
<1>2. /\ TypeOfCalls' /\ pc'[c] = "commit" /\ OthersStay(c)
      /\ \A d \in Calls : Standing(d)' /\ RowOf(d)'
      /\ ChainIntact'
  BY <1>1, AdvanceKeepsRows
<1>3. minted \in [Calls -> Nat] /\ UNCHANGED <<requisition, purchase_order, invoice>>
  BY <1>1 DEF TypeOK, tables
<1>4. id \in Nat
  BY MintTableType, NextOfTable
<1>5. TypeOK'
  <2>1. \A d \in Calls : pc'[d] # "idle" => request'[d] \in Offered
    BY <1>1, <1>2 DEF TypeOK, OthersStay
  <2>2. minted' \in [Calls -> Nat]
    BY <1>1, <1>3, <1>4
  <2> QED BY <1>1, <1>2, <1>3, <2>1, <2>2 DEF TypeOK, TypeOfCalls
<1>6. Locks'
  <2>1. Mints(request[c])
    BY <1>1 DEF Standing
  <2>2. \A d \in Calls : Minting(d)' <=> Minting(d)
    BY <1>1, <1>2, <2>1 DEF OthersStay, Minting
  <2>3. ASSUME NEW d \in Calls PROVE minted'[d] = Inserted(d)'
    <3>1. CASE d = c
      <4>1. minted'[c] = id
        BY <1>1, <1>3
      <4>2. Inserted(c)' = id
        BY <1>1, <1>2, <1>3, <2>1 DEF Inserted, Committed, Mints
      <4> QED BY <3>1, <4>1, <4>2
    <3>2. CASE d # c
      BY <1>1, <1>2, <1>3, <3>2 DEF Locks, Inserted, Committed, OthersStay
    <3> QED BY <3>1, <3>2
  <2> QED BY <1>1, <2>2, <2>3 DEF Locks
<1> QED BY <1>2, <1>5, <1>6

-----------------------------------------------------------------------------
(* The end of a transaction *)

\* What a commit leaves of the tables: whole chains, every row but the status of
\* the one it names as it was, and no table but the one it mints in longer.
Published(c) ==
  /\ requisition' \in Seq(RequisitionRow)
  /\ purchase_order' \in Seq(OrderRow)
  /\ invoice' \in Seq(InvoiceRow)
  /\ \A r \in DOMAIN requisition :
       /\ r \in DOMAIN requisition'
       /\ \/ requisition'[r] = requisition[r]
          \/ /\ request[c].tool = "approve_requisition" /\ r = Named(c)
             /\ requisition'[r] = [requisition[r] EXCEPT !.status = DecidedStatus(c)]
  /\ \A o \in DOMAIN purchase_order :
       /\ o \in DOMAIN purchase_order'
       /\ \/ purchase_order'[o] = purchase_order[o]
          \/ /\ request[c].tool = "record_invoice" /\ o = Named(c)
             /\ purchase_order'[o] = [purchase_order[o] EXCEPT !.status = "invoiced"]
  /\ \A i \in DOMAIN invoice : i \in DOMAIN invoice' /\ invoice'[i] = invoice[i]
  /\ \A t \in Tables :
       \/ t = MintTable(request[c].tool) /\ Mints(request[c])
       \/ NextIdentifier(Committed(t))' = NextIdentifier(Committed(t))
  /\ WholeChains(requisition', purchase_order', invoice')

\* Who commits, and where.
LEMMA Committing ==
  ASSUME IInv, NEW c \in Calls, pc[c] = "commit"
  PROVE  /\ request[c] \in Requests
         /\ request[c].tool \in Writers
         /\ CallPrincipal(c).subject \in People
         /\ CallPrincipal(c).partition \in Partitions
         /\ Mints(request[c]) =>
              minted[c] = NextIdentifier(Committed(MintTable(request[c].tool)))
         /\ request[c].tool = "approve_requisition" =>
              /\ Named(c) \in DOMAIN requisition
              /\ requisition[Named(c)].status = "submitted"
         /\ request[c].tool = "record_invoice" =>
              /\ Named(c) \in DOMAIN purchase_order
              /\ purchase_order[Named(c)].status = "open"
<1> USE DEF IInv
<1>1. request[c] \in Requests
  BY ArrivedRequest
<1>2. request[c].tool \in Writers
  BY DEF Standing, Transacting
<1>3. /\ CallPrincipal(c).subject \in People
      /\ CallPrincipal(c).partition \in Partitions
  BY <1>1, DirectoryAssumption DEF CallPrincipal, Principal, Requests
<1>4. Mints(request[c]) =>
        minted[c] = NextIdentifier(Committed(MintTable(request[c].tool)))
  BY DEF Locks, Inserted
<1>5. /\ request[c].tool = "approve_requisition" =>
           /\ Named(c) \in DOMAIN requisition
           /\ requisition[Named(c)].status = "submitted"
      /\ request[c].tool = "record_invoice" =>
           /\ Named(c) \in DOMAIN purchase_order
           /\ purchase_order[Named(c)].status = "open"
  BY DEF RowOf, Writes, Transacting
<1> QED BY <1>1, <1>2, <1>3, <1>4, <1>5

LEMMA SubmitPublishes ==
  ASSUME IInv, NEW c \in Calls, pc[c] = "commit", Publish(c),
         request[c].tool = "submit_requisition"
  PROVE  Published(c)
<1> USE DEF IInv
<1> DEFINE n == NextIdentifier(requisition)
           row == [cost_centre  |-> CallPrincipal(c).partition,
                   amount       |-> request[c].amount,
                   submitted_by |-> CallPrincipal(c).subject,
                   status       |-> "submitted"]
<1>1. Mints(request[c]) /\ MintTable(request[c].tool) = "requisition"
  BY DEF Mints, MintTable
<1>2. minted[c] = n
  BY <1>1, Committing DEF Committed
<1>3. /\ requisition' = Put(requisition, n, row)
      /\ UNCHANGED <<purchase_order, invoice>>
  BY <1>2 DEF Publish
<1>4. row \in RequisitionRow
  BY Committing DEF RequisitionRow, Requests, Statuses
<1>5. /\ requisition \in Seq(RequisitionRow) /\ purchase_order \in Seq(OrderRow)
      /\ invoice \in Seq(InvoiceRow)
  BY DEF TypeOK
<1>6. /\ requisition' \in Seq(RequisitionRow)
      /\ DOMAIN requisition' = DOMAIN requisition \cup {n}
      /\ requisition'[n].status = "submitted"
      /\ \A i \in DOMAIN requisition : requisition'[i] = requisition[i]
      /\ n \notin DOMAIN requisition
  <2> HIDE DEF row
  <2>0. /\ requisition \in Seq(RequisitionRow) /\ row \in RequisitionRow
        /\ requisition' = Put(requisition, n, row)
    BY <1>3, <1>4, <1>5
  <2>1. /\ requisition' \in Seq(RequisitionRow)
        /\ DOMAIN requisition' = DOMAIN requisition \cup {n}
        /\ n \notin DOMAIN requisition
    BY <2>0, PutAppends
  <2>2. \A i \in DOMAIN requisition : requisition'[i] = requisition[i]
    BY <2>0, PutKeeps
  <2>3. requisition'[n] = row
    BY <2>0 DEF Put
  <2> QED BY <2>1, <2>2, <2>3 DEF row
<1>7. WholeChains(requisition', purchase_order', invoice')
  <2> HIDE DEF n
  <2>1. \A o \in DOMAIN purchase_order :
          /\ purchase_order[o].requisition_id \in DOMAIN requisition
          /\ purchase_order[o].requisition_id # n
    BY <1>6 DEF ChainIntact, WholeChains
  <2>2. \A r \in DOMAIN requisition' :
          requisition'[r].status = "approved"
            <=> \E o \in DOMAIN purchase_order : purchase_order[o].requisition_id = r
    <3>1. ASSUME NEW r \in DOMAIN requisition
          PROVE  requisition'[r].status = "approved"
                   <=> \E o \in DOMAIN purchase_order :
                         purchase_order[o].requisition_id = r
      BY <1>6 DEF ChainIntact, WholeChains
    <3> QED BY <1>6, <2>1, <3>1
  <2> QED BY <1>3, <1>6, <2>1, <2>2 DEF ChainIntact, WholeChains
<1>8. \A t \in Tables : t = "requisition"
         \/ NextIdentifier(Committed(t))' = NextIdentifier(Committed(t))
  BY <1>3 DEF Tables, Committed
<1> QED BY <1>1, <1>3, <1>5, <1>6, <1>7, <1>8 DEF Published

LEMMA ApprovePublishes ==
  ASSUME IInv, NEW c \in Calls, pc[c] = "commit", Publish(c),
         request[c].tool = "approve_requisition"
  PROVE  Published(c)
<1> USE DEF IInv
<1> DEFINE r == Named(c)
           n == NextIdentifier(purchase_order)
           row == [requisition_id |-> Named(c),
                   approved_by    |-> CallPrincipal(c).subject,
                   status         |-> "open"]
<1>1. /\ requisition \in Seq(RequisitionRow) /\ purchase_order \in Seq(OrderRow)
      /\ invoice \in Seq(InvoiceRow)
  BY DEF TypeOK
<1>2. r \in DOMAIN requisition /\ requisition[r].status = "submitted" /\ r \in Nat
  BY <1>1, Committing, LenProperties
<1>3. /\ requisition' = [requisition EXCEPT ![r].status = DecidedStatus(c)]
      /\ UNCHANGED invoice
  BY DEF Publish
<1>4. /\ DecidedStatus(c) = IF Mints(request[c]) THEN "approved" ELSE "rejected"
      /\ DecidedStatus(c) \in Statuses
      /\ MintTable(request[c].tool) = "purchase_order"
  BY DEF DecidedStatus, Mints, Statuses, MintTable
<1>5. /\ requisition' \in Seq(RequisitionRow)
      /\ DOMAIN requisition' = DOMAIN requisition
      /\ requisition'[r].status = DecidedStatus(c)
      /\ requisition'[r] = [requisition[r] EXCEPT !.status = DecidedStatus(c)]
      /\ \A i \in DOMAIN requisition \ {r} : requisition'[i] = requisition[i]
      /\ Len(requisition') = Len(requisition)
  <2>1. requisition[r] \in RequisitionRow
    BY <1>1, <1>2, ElementOfSeq, LenProperties
  <2>2. [requisition[r] EXCEPT !.status = DecidedStatus(c)] \in RequisitionRow
    BY <1>4, <2>1 DEF RequisitionRow
  <2>3. /\ requisition' = [requisition EXCEPT ![r] =
                             [requisition[r] EXCEPT !.status = DecidedStatus(c)]]
        /\ [requisition[r] EXCEPT !.status = DecidedStatus(c)].status = DecidedStatus(c)
    BY <1>2, <1>3, <2>1 DEF RequisitionRow
  <2> DEFINE new == [requisition[r] EXCEPT !.status = DecidedStatus(c)]
  <2>4. new \in RequisitionRow /\ requisition' = [requisition EXCEPT ![r] = new]
        /\ new.status = DecidedStatus(c)
    BY <2>2, <2>3
  <2>5. /\ requisition' \in Seq(RequisitionRow)
        /\ DOMAIN requisition' = DOMAIN requisition
        /\ requisition'[r] = new
        /\ \A i \in DOMAIN requisition \ {r} : requisition'[i] = requisition[i]
        /\ Len(requisition') = Len(requisition)
    <3> HIDE DEF new, r
    <3> QED BY <1>1, <1>2, <2>4, ExceptKeeps
  <2> QED BY <2>4, <2>5
<1>6. NextIdentifier(requisition') = NextIdentifier(requisition)
  BY <1>1, <1>5, NextIsOnePast
<1>7. CASE Mints(request[c])
  <2>1. minted[c] = n
    BY <1>4, <1>7, Committing DEF Committed
  <2>2. purchase_order' = Put(purchase_order, n, row)
    BY <1>7, <2>1 DEF Publish, Mints
  <2>3. row \in OrderRow
    BY <1>2, Committing DEF OrderRow, OrderStatuses
  <2>4. /\ purchase_order' \in Seq(OrderRow)
        /\ DOMAIN purchase_order' = DOMAIN purchase_order \cup {n}
        /\ purchase_order'[n].status = "open"
        /\ purchase_order'[n].requisition_id = r
        /\ \A i \in DOMAIN purchase_order : purchase_order'[i] = purchase_order[i]
        /\ n \notin DOMAIN purchase_order
    <3> HIDE DEF row
    <3>0. /\ purchase_order \in Seq(OrderRow) /\ row \in OrderRow
          /\ purchase_order' = Put(purchase_order, n, row)
      BY <1>1, <2>2, <2>3
    <3>1. /\ purchase_order' \in Seq(OrderRow)
          /\ DOMAIN purchase_order' = DOMAIN purchase_order \cup {n}
          /\ n \notin DOMAIN purchase_order
      BY <3>0, PutAppends
    <3>2. \A i \in DOMAIN purchase_order : purchase_order'[i] = purchase_order[i]
      BY <3>0, PutKeeps
    <3>3. purchase_order'[n] = row
      BY <3>0 DEF Put
    <3> QED BY <3>1, <3>2, <3>3 DEF row
  <2>5. WholeChains(requisition', purchase_order', invoice')
    <3> HIDE DEF n, r
    <3> QED BY <1>2, <1>3, <1>4, <1>5, <1>7, <2>4 DEF ChainIntact, WholeChains
  <2>6. \A t \in Tables : t = "purchase_order"
           \/ NextIdentifier(Committed(t))' = NextIdentifier(Committed(t))
    BY <1>3, <1>6 DEF Tables, Committed
  <2> QED BY <1>1, <1>3, <1>4, <1>5, <1>7, <2>4, <2>5, <2>6 DEF Published
<1>8. CASE ~Mints(request[c])
  <2>1. purchase_order' = purchase_order
    BY <1>8 DEF Publish, Mints
  <2>2. WholeChains(requisition', purchase_order', invoice')
    <3> HIDE DEF r
    <3> QED BY <1>2, <1>3, <1>4, <1>5, <1>8, <2>1 DEF ChainIntact, WholeChains
  <2>3. \A t \in Tables : NextIdentifier(Committed(t))' = NextIdentifier(Committed(t))
    BY <1>3, <1>6, <2>1 DEF Tables, Committed
  <2> QED BY <1>1, <1>3, <1>5, <2>1, <2>2, <2>3 DEF Published
<1> QED BY <1>7, <1>8

LEMMA BillPublishes ==
  ASSUME IInv, NEW c \in Calls, pc[c] = "commit", Publish(c),
         request[c].tool = "record_invoice"
  PROVE  Published(c)
<1> USE DEF IInv
<1> DEFINE o == Named(c)
           n == NextIdentifier(invoice)
           row == [purchase_order_id |-> Named(c),
                   recorded_by       |-> CallPrincipal(c).subject]
<1>1. /\ requisition \in Seq(RequisitionRow) /\ purchase_order \in Seq(OrderRow)
      /\ invoice \in Seq(InvoiceRow)
  BY DEF TypeOK
<1>2. o \in DOMAIN purchase_order /\ purchase_order[o].status = "open" /\ o \in Nat
  BY <1>1, Committing, LenProperties
<1>3. Mints(request[c]) /\ MintTable(request[c].tool) = "invoice"
  BY DEF Mints, MintTable
<1>4. minted[c] = n
  BY <1>3, Committing DEF Committed
<1>5. /\ purchase_order' = [purchase_order EXCEPT ![o].status = "invoiced"]
      /\ invoice' = Put(invoice, n, row)
      /\ UNCHANGED requisition
  BY <1>4 DEF Publish
<1>6. /\ purchase_order' \in Seq(OrderRow)
      /\ DOMAIN purchase_order' = DOMAIN purchase_order
      /\ purchase_order'[o].status = "invoiced"
      /\ purchase_order'[o].requisition_id = purchase_order[o].requisition_id
      /\ \A i \in DOMAIN purchase_order \ {o} : purchase_order'[i] = purchase_order[i]
      /\ Len(purchase_order') = Len(purchase_order)
  <2> DEFINE new == [purchase_order[o] EXCEPT !.status = "invoiced"]
  <2>1. purchase_order[o] \in OrderRow
    BY <1>1, <1>2, ElementOfSeq, LenProperties
  <2>2. new \in OrderRow
    BY <2>1 DEF OrderRow, OrderStatuses
  <2>3. /\ purchase_order' = [purchase_order EXCEPT ![o] = new]
        /\ new.status = "invoiced"
        /\ new.requisition_id = purchase_order[o].requisition_id
    BY <1>2, <1>5, <2>1 DEF OrderRow
  <2>4. /\ purchase_order' \in Seq(OrderRow)
        /\ DOMAIN purchase_order' = DOMAIN purchase_order
        /\ purchase_order'[o] = new
        /\ \A i \in DOMAIN purchase_order \ {o} : purchase_order'[i] = purchase_order[i]
        /\ Len(purchase_order') = Len(purchase_order)
    <3> HIDE DEF new, o
    <3> QED BY <1>1, <1>2, <2>2, <2>3, ExceptKeeps
  <2> QED BY <2>3, <2>4
<1>7. NextIdentifier(purchase_order') = NextIdentifier(purchase_order)
  BY <1>1, <1>6, NextIsOnePast
<1>8. row \in InvoiceRow
  BY <1>2, Committing DEF InvoiceRow
<1>9. /\ invoice' \in Seq(InvoiceRow)
      /\ DOMAIN invoice' = DOMAIN invoice \cup {n}
      /\ invoice'[n].purchase_order_id = o
      /\ \A i \in DOMAIN invoice : invoice'[i] = invoice[i]
      /\ n \notin DOMAIN invoice
  <2> HIDE DEF row
  <2>0. /\ invoice \in Seq(InvoiceRow) /\ row \in InvoiceRow
        /\ invoice' = Put(invoice, n, row)
    BY <1>1, <1>5, <1>8
  <2>1. /\ invoice' \in Seq(InvoiceRow)
        /\ DOMAIN invoice' = DOMAIN invoice \cup {n}
        /\ n \notin DOMAIN invoice
    BY <2>0, PutAppends
  <2>2. \A i \in DOMAIN invoice : invoice'[i] = invoice[i]
    BY <2>0, PutKeeps
  <2>3. invoice'[n] = row
    BY <2>0 DEF Put
  <2> QED BY <2>1, <2>2, <2>3 DEF row
<1>10. WholeChains(requisition', purchase_order', invoice')
  <2> HIDE DEF n, o
  <2>1. \A r \in DOMAIN requisition' :
          requisition'[r].status = "approved"
            <=> \E p \in DOMAIN purchase_order' : purchase_order'[p].requisition_id = r
    BY <1>5, <1>6 DEF ChainIntact, WholeChains
  <2>2. \A p \in DOMAIN purchase_order' :
          /\ purchase_order'[p].requisition_id = purchase_order[p].requisition_id
          /\ purchase_order'[p].requisition_id \in DOMAIN requisition'
    BY <1>5, <1>6 DEF ChainIntact, WholeChains
  <2>3. \A i \in DOMAIN invoice : invoice[i].purchase_order_id # o
    BY <1>2 DEF ChainIntact, WholeChains
  <2>4. \A p \in DOMAIN purchase_order' :
          purchase_order'[p].status = "invoiced"
            <=> \E i \in DOMAIN invoice' : invoice'[i].purchase_order_id = p
    BY <1>6, <1>9 DEF ChainIntact, WholeChains
  <2>5. \A p, q \in DOMAIN purchase_order' :
          purchase_order'[p].requisition_id = purchase_order'[q].requisition_id => p = q
    BY <1>6, <2>2 DEF ChainIntact, WholeChains
  <2>6. \A i \in DOMAIN invoice' : invoice'[i].purchase_order_id \in DOMAIN purchase_order'
    BY <1>2, <1>6, <1>9 DEF ChainIntact, WholeChains
  <2>7. \A i, j \in DOMAIN invoice' :
          invoice'[i].purchase_order_id = invoice'[j].purchase_order_id => i = j
    BY <1>9, <2>3 DEF ChainIntact, WholeChains
  <2> QED BY <2>1, <2>2, <2>4, <2>5, <2>6, <2>7 DEF WholeChains
<1>11. \A t \in Tables : t = "invoice"
          \/ NextIdentifier(Committed(t))' = NextIdentifier(Committed(t))
  BY <1>5, <1>7 DEF Tables, Committed
<1>12. purchase_order'[o] = [purchase_order[o] EXCEPT !.status = "invoiced"]
  BY <1>1, <1>2, <1>5
<1> QED BY <1>1, <1>2, <1>3, <1>5, <1>6, <1>9, <1>10, <1>11, <1>12 DEF Published

\* Every commit, by whichever tool, leaves the tables so.
LEMMA PublishPublishes ==
  ASSUME IInv, NEW c \in Calls, pc[c] = "commit", Publish(c)
  PROVE  Published(c)
BY Committing, SubmitPublishes, ApprovePublishes, BillPublishes DEF Writers

\* Once a call is out of its transaction, with its locks released and what it
\* wrote either published or gone, the invariant holds of everyone again.
LEMMA LeavingKeepsIInv ==
  ASSUME IInv, NEW c \in Calls, Busy(c), Unlock(c), UNCHANGED request,
         TypeOfCalls', pc'[c] \in {"next", "answered"}, Standing(c)', OthersStay(c),
         \/ UNCHANGED tables
         \/ pc[c] = "commit" /\ Published(c)
  PROVE  IInv'
<1> USE DEF IInv
<1>1. /\ mintLock \in [Tables -> Calls \cup {NoCall}] /\ minted \in [Calls -> Nat]
      /\ mintLock' = [t \in Tables |-> IF mintLock[t] = c THEN NoCall ELSE mintLock[t]]
      /\ minted' = [minted EXCEPT ![c] = 0]
  BY DEF TypeOK, Unlock
<1>2. /\ requisition' \in Seq(RequisitionRow) /\ purchase_order' \in Seq(OrderRow)
      /\ invoice' \in Seq(InvoiceRow)
      /\ WholeChains(requisition', purchase_order', invoice')
  BY DEF Published, tables, TypeOK, ChainIntact
<1>3. TypeOK'
  <2>1. \A d \in Calls : pc'[d] # "idle" => request'[d] \in Offered
    BY DEF TypeOK, OthersStay, Busy
  <2>2. mintLock' \in [Tables -> Calls \cup {NoCall}] /\ minted' \in [Calls -> Nat]
    BY <1>1
  <2> QED BY <1>2, <2>1, <2>2 DEF TypeOK, TypeOfCalls
<1>4. ASSUME NEW d \in Calls PROVE Standing(d)'
  <2>1. CASE d = c
    BY <2>1
  <2>2. CASE d # c
    BY <2>2 DEF OthersStay, Standing, Busy, Mints, Wanted
  <2> QED BY <2>1, <2>2
<1>5. Locks'
  <2>1. ASSUME NEW d \in Calls, d # c
        PROVE  /\ Minting(d)' <=> Minting(d)
               /\ request'[d] = request[d] /\ pc'[d] = pc[d]
    BY <2>1 DEF OthersStay, Minting, Mints
  <2>2. ~Minting(c)'
    BY DEF Minting
  <2>3. ASSUME NEW t \in Tables, NEW d \in Calls
        PROVE  mintLock'[t] = d <=> Minting(d)' /\ t = MintTable(request'[d].tool)
    <3>1. CASE d = c
      BY <1>1, <2>2, <3>1, ServingAssumption
    <3>2. CASE d # c
      BY <1>1, <2>1, <3>2, ServingAssumption DEF Locks
    <3> QED BY <3>1, <3>2
  <2>4. ASSUME NEW d \in Calls PROVE minted'[d] = Inserted(d)'
    <3>1. CASE d = c
      BY <1>1, <3>1 DEF Inserted
    <3>2. CASE d # c
      <4> DEFINE t == MintTable(request[d].tool)
      <4>1. minted'[d] = Inserted(d) /\ t \in Tables
        BY <1>1, <3>2, MintTableType DEF Locks
      <4>2. CASE Minting(d)
        <5>1. mintLock[t] = d
          BY <4>1, <4>2 DEF Locks
        <5>2. ~(Minting(c) /\ t = MintTable(request[c].tool))
          BY <3>2, <4>1, <5>1 DEF Locks
        <5>3. NextIdentifier(Committed(t))' = NextIdentifier(Committed(t))
          BY <4>1, <5>2 DEF Published, tables, Committed, Minting
        <5> QED BY <2>1, <3>2, <4>1, <5>3 DEF Inserted
      <4>3. CASE ~Minting(d)
        BY <2>1, <3>2, <4>1, <4>3 DEF Inserted, Minting
      <4> QED BY <4>2, <4>3
    <3> QED BY <3>1, <3>2
  <2> QED BY <2>3, <2>4 DEF Locks
<1>6. ASSUME NEW d \in Calls PROVE RowOf(d)'
  <2>1. CASE d = c
    BY <2>1, OffEveryRow
  <2>2. CASE d # c
    <3>1. ~Writes(c, "approve_requisition")' /\ ~Writes(c, "record_invoice")'
      BY DEF Writes
    <3>2. /\ pc'[d] = pc[d] /\ request'[d] = request[d] /\ Named(d)' = Named(d)
          /\ \A e \in Calls \ {c} : Named(e)' = Named(e)
               /\ \A tool : Writes(e, tool)' = Writes(e, tool)
      BY <2>2 DEF OthersStay, Named, Writes
    <3>3. \A r \in DOMAIN requisition :
            /\ r \in DOMAIN requisition'
            /\ \/ requisition'[r].status = requisition[r].status
               \/ Writes(c, "approve_requisition") /\ r = Named(c)
      BY DEF Published, tables, Writes
    <3>4. \A o \in DOMAIN purchase_order :
            /\ o \in DOMAIN purchase_order'
            /\ \/ purchase_order'[o].status = purchase_order[o].status
               \/ Writes(c, "record_invoice") /\ o = Named(c)
      BY DEF Published, tables, Writes
    <3>5. pc'[d] \in Transacting =>
            /\ request'[d].tool = "approve_requisition" => Named(d)' \in DOMAIN requisition'
            /\ request'[d].tool = "record_invoice" => Named(d)' \in DOMAIN purchase_order'
      BY <3>2, <3>3, <3>4 DEF RowOf
    <3>6. Writes(d, "approve_requisition")' =>
            requisition'[Named(d)'].status = "submitted"
      BY <2>2, <3>2, <3>3 DEF RowOf, Writes, Transacting
    <3>7. Writes(d, "record_invoice")' =>
            purchase_order'[Named(d)'].status = "open"
      BY <2>2, <3>2, <3>4 DEF RowOf, Writes, Transacting
    <3>8. \A e \in Calls \ {d}, tool \in {"approve_requisition", "record_invoice"} :
            Writes(d, tool)' /\ Writes(e, tool)' => Named(d)' # Named(e)'
      BY <2>2, <3>1, <3>2 DEF RowOf
    <3> QED BY <3>5, <3>6, <3>7, <3>8 DEF RowOf
  <2> QED BY <2>1, <2>2
<1> QED BY <1>2, <1>3, <1>4, <1>5, <1>6 DEF ChainIntact

LEMMA CommitKeepsIInv ==
  ASSUME IInv, NEW c \in Calls, Commit(c) \/ CommitUnacknowledged(c)
  PROVE  IInv'
<1>1. /\ pc[c] = "commit" /\ Publish(c) /\ Unlock(c) /\ UNCHANGED request /\ Busy(c)
      /\ Yield(c, Written(c)) \/ Stop(c, "internal_error")
  BY DEF Commit, CommitUnacknowledged, Busy
<1>2. Published(c)
  BY <1>1, PublishPublishes
<1>3. Written(c) \in Outcomes
  <2>1. minted[c] \in Nat
    BY DEF IInv, TypeOK
  <2>2. request[c].tool # "submit_requisition" => Named(c) \in Nat
    BY <1>1, NamedType, Committing DEF IInv, Writers
  <2> QED BY <2>1, <2>2 DEF Written, Payload, Outcomes
<1>4. /\ TypeOfCalls' /\ pc'[c] \in {"next", "answered"} /\ Standing(c)'
      /\ OthersStay(c)
  <2>1. CASE Yield(c, Written(c))
    BY <1>1, <1>3, <2>1, YieldMoves DEF IInv
  <2>2. CASE Stop(c, "internal_error")
    BY <1>1, <2>2, StopMoves DEF IInv, Responses, OthersStay
  <2> QED BY <1>1, <2>1, <2>2
<1> QED BY <1>1, <1>2, <1>4, LeavingKeepsIInv

LEMMA RollbackKeepsIInv ==
  ASSUME IInv, NEW c \in Calls, Fail(c) \/ MintOverflow(c)
  PROVE  IInv'
<1>1. /\ Busy(c) /\ Unlock(c) /\ Stop(c, "internal_error")
      /\ UNCHANGED <<request, tables>>
  BY DEF Fail, MintOverflow, Rollback, Busy
<1>2. /\ TypeOfCalls' /\ pc'[c] = "answered" /\ Standing(c)' /\ OthersStay(c)
  BY <1>1, StopMoves DEF IInv, Responses, OthersStay
<1> QED BY <1>1, <1>2, LeavingKeepsIInv

-----------------------------------------------------------------------------
(* The theorems *)

LEMMA InitIInv == Init => IInv
<1> SUFFICES ASSUME Init PROVE IInv
  OBVIOUS
<1>1. TypeOK
  BY SeedAssumption DEF Init, TypeOK, PCs, Responses
<1>2. \A c \in Calls : Standing(c) /\ RowOf(c)
  BY DEF Init, Standing, Busy, RowOf, Writes, Transacting
<1>3. Locks
  BY ServingAssumption DEF Init, Locks, Minting, Inserted
<1>4. ChainIntact
  BY SeedAssumption DEF Init, ChainIntact
<1> QED BY <1>1, <1>2, <1>3, <1>4 DEF IInv

LEMMA StutterKeepsIInv ==
  ASSUME IInv, UNCHANGED vars
  PROVE  IInv'
<1>1. UNCHANGED <<pc, request, answers, minted, response, mintLock,
                  requisition, purchase_order, invoice>>
  BY DEF vars
<1>2. TypeOK'
  BY <1>1 DEF IInv, TypeOK
<1>3. \A c \in Calls : Standing(c)'
  BY <1>1 DEF IInv, Standing, Busy
<1>4. Locks'
  <2>1. \A c \in Calls : Inserted(c)' = Inserted(c)
    BY <1>1 DEF Inserted, Committed
  <2>2. \A c \in Calls : Minting(c)' <=> Minting(c)
    BY <1>1 DEF Minting
  <2> QED BY <1>1, <2>1, <2>2 DEF IInv, Locks
<1>5. \A c \in Calls : RowOf(c)'
  BY <1>1 DEF IInv, RowOf, Named, Writes
<1>6. ChainIntact'
  BY <1>1 DEF IInv, ChainIntact
<1> QED BY <1>2, <1>3, <1>4, <1>5, <1>6 DEF IInv

LEMMA NextKeepsIInv == IInv /\ [Next]_vars => IInv'
<1> SUFFICES ASSUME IInv, [Next]_vars PROVE IInv'
  OBVIOUS
<1>1. ASSUME NEW c \in Calls, Receive(c) PROVE IInv'
  BY <1>1, ReceiveKeepsIInv
<1>2. ASSUME NEW c \in Calls, Handle(c) PROVE IInv'
  BY <1>2, ListRowsKeepsIInv, GetRowKeepsIInv, DecideItemKeepsIInv,
     RecordItemKeepsIInv, ConnectKeepsIInv, DecideRowKeepsIInv, BillRowKeepsIInv,
     AcquireMintKeepsIInv, InsertKeepsIInv, RollbackKeepsIInv, CommitKeepsIInv
     DEF Handle
<1>3. ASSUME NEW c \in Calls, Fault(c) PROVE IInv'
  BY <1>3, RollbackKeepsIInv, CommitKeepsIInv DEF Fault
<1>4. CASE Quiet \/ UNCHANGED vars
  BY <1>4, StutterKeepsIInv DEF Quiet
<1> QED BY <1>1, <1>2, <1>3, <1>4 DEF Next

\* The inductive invariant holds throughout.
THEOREM Invariance == Spec => []IInv
<1> QED BY InitIInv, NextKeepsIInv, PTL DEF Spec

\* Every variable keeps its type: in particular no table ever has a gap or a
\* doubled identifier, which is what makes the mint's max(...) + 1 fresh.
THEOREM TypeCorrect == Spec => []TypeOK
<1>1. IInv => TypeOK
  BY DEF IInv
<1> QED BY <1>1, Invariance, PTL

\* What is committed is whole chains, whatever calls race and whichever fail:
\* repository.py's decide and bill never leave "a chain with a missing link".
THEOREM ChainsStayWhole == Spec => []ChainIntact
<1>1. IInv => ChainIntact
  BY DEF IInv
<1> QED BY <1>1, Invariance, PTL

\* No mint is refused by a primary key: what an open transaction has inserted is
\* in no committed row, and no other transaction has inserted it too.
THEOREM MintsStayFresh == Spec => []MintsAreFresh
<1>1. IInv => MintsAreFresh
  <2> SUFFICES ASSUME IInv, NEW c \in Calls, minted[c] # 0
               PROVE  LET t == MintTable(request[c].tool) IN
                      /\ minted[c] \notin DOMAIN Committed(t)
                      /\ \A d \in Calls \ {c} :
                           minted[d] # 0 /\ MintTable(request[d].tool) = t
                             => minted[d] # minted[c]
    BY DEF MintsAreFresh
  <2> DEFINE t == MintTable(request[c].tool)
  <2>1. /\ t \in Tables /\ mintLock[t] = c
        /\ minted[c] = NextIdentifier(Committed(t))
    BY MintTableType DEF IInv, Locks, Inserted, Minting
  <2>2. minted[c] \notin DOMAIN Committed(t)
    <3>1. /\ TypeOK
          /\ Committed(t) \in Seq(RequisitionRow) \cup Seq(OrderRow) \cup Seq(InvoiceRow)
      BY <2>1 DEF IInv, TypeOK, Committed, Tables
    <3> QED BY <2>1, <3>1, PastTheEnd
  <2>3. ASSUME NEW d \in Calls \ {c}, minted[d] # 0, MintTable(request[d].tool) = t
        PROVE  FALSE
    BY <2>1, <2>3 DEF IInv, Locks, Inserted, Minting
  <2> QED BY <2>2, <2>3
<1> QED BY <1>1, Invariance, PTL

\* A commit moves a status only where its statement found it unmoved.
LEMMA CommitsAdvance ==
  ASSUME IInv, NEW c \in Calls, pc[c] = "commit", Published(c)
  PROVE  RowsOnlyAdvance
<1>1. /\ requisition \in [DOMAIN requisition -> RequisitionRow]
      /\ purchase_order \in [DOMAIN purchase_order -> OrderRow]
  BY LenProperties DEF IInv, TypeOK
<1>2. ASSUME NEW r \in DOMAIN requisition
      PROVE  /\ r \in DOMAIN requisition'
             /\ requisition'[r] = [requisition[r] EXCEPT !.status = requisition'[r].status]
             /\ requisition[r].status # "submitted" => requisition'[r] = requisition[r]
  <2>1. requisition[r] \in RequisitionRow
    BY <1>1
  <2>2. CASE requisition'[r] = requisition[r]
    BY <2>1, <2>2 DEF Published, RequisitionRow
  <2>3. CASE /\ request[c].tool = "approve_requisition" /\ r = Named(c)
             /\ requisition'[r] = [requisition[r] EXCEPT !.status = DecidedStatus(c)]
    <3>1. requisition[r].status = "submitted"
      BY <2>3, Committing
    <3>2. requisition'[r].status = DecidedStatus(c)
      BY <2>1, <2>3 DEF RequisitionRow
    <3> QED BY <2>3, <3>1, <3>2 DEF Published
  <2> QED BY <2>2, <2>3 DEF Published
<1>3. ASSUME NEW o \in DOMAIN purchase_order
      PROVE  /\ o \in DOMAIN purchase_order'
             /\ purchase_order'[o] =
                  [purchase_order[o] EXCEPT !.status = purchase_order'[o].status]
             /\ purchase_order[o].status # "open" => purchase_order'[o] = purchase_order[o]
  <2>1. purchase_order[o] \in OrderRow
    BY <1>1
  <2>2. CASE purchase_order'[o] = purchase_order[o]
    BY <2>1, <2>2 DEF Published, OrderRow
  <2>3. CASE /\ request[c].tool = "record_invoice" /\ o = Named(c)
             /\ purchase_order'[o] = [purchase_order[o] EXCEPT !.status = "invoiced"]
    <3>1. purchase_order[o].status = "open"
      BY <2>3, Committing
    <3>2. purchase_order'[o].status = "invoiced"
      BY <2>1, <2>3 DEF OrderRow
    <3> QED BY <2>3, <3>1, <3>2 DEF Published
  <2> QED BY <2>2, <2>3 DEF Published
<1>4. \A i \in DOMAIN invoice : i \in DOMAIN invoice' /\ invoice'[i] = invoice[i]
  BY DEF Published
<1> QED BY <1>2, <1>3, <1>4 DEF RowsOnlyAdvance

\* Whatever a step does to the tables, their rows only advance.
LEMMA StepsAdvance ==
  ASSUME IInv, [Next]_vars
  PROVE  [RowsOnlyAdvance]_tables
<1> SUFFICES ASSUME ~UNCHANGED tables PROVE RowsOnlyAdvance
  OBVIOUS
<1>1. PICK c \in Calls : Commit(c) \/ CommitUnacknowledged(c)
  BY DEF Next, vars, tables, Quiet, Receive, Handle, Fault, ListRows, GetRow,
         DecideItem, RecordItem, Connect, DecideRow, BillRow, AcquireMint, Insert,
         MintOverflow, Fail, Rollback
<1>2. pc[c] = "commit" /\ Publish(c)
  BY <1>1 DEF Commit, CommitUnacknowledged
<1> QED BY <1>2, PublishPublishes, CommitsAdvance

\* A decision is final: no interleaving and no failure takes a row away, rewrites
\* one, or moves a status a second time, for the predicates in _DECIDE and _RECORD.
THEOREM DecisionsStayFinal == Spec => DecisionsAreFinal
<1>1. IInv /\ [Next]_vars => [RowsOnlyAdvance]_tables
  BY StepsAdvance
<1> QED BY <1>1, Invariance, PTL DEF Spec, DecisionsAreFinal
=============================================================================
