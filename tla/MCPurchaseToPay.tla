--------------------------- MODULE MCPurchaseToPay ---------------------------
(***************************************************************************)
(* Small instances of PurchaseToPay: people of the seeded organisation     *)
(* and one more, a handful of seeded rows and the requests each run lets   *)
(* callers make.                                                           *)
(***************************************************************************)
EXTENDS PurchaseToPay, TLC

MCPartitions == {"CC-4100", "CC-4200"}

\* Everyone but olive is in the seed.  Nobody there audits and decides or bills,
\* and nothing refuses an edit of the directory that would let somebody.
MCDirectory ==
  [priya  |-> [partition |-> "CC-4100", roles |-> {}],
   tomas  |-> [partition |-> "CC-4100", roles |-> {"approver"}],
   ingrid |-> [partition |-> "CC-4100",
               roles |-> {"invoice_clerk", "unlimited_approver"}],
   rafael |-> [partition |-> "CC-4100", roles |-> {"invoice_clerk"}],
   yusuf  |-> [partition |-> "CC-4200", roles |-> {"approver"}],
   anna   |-> [partition |-> "CC-4200", roles |-> {"auditor"}],
   olive  |-> [partition |-> "CC-4200",
               roles |-> {"auditor", "approver", "invoice_clerk"}]]

MCPeople == DOMAIN MCDirectory

\* One server process; two, to which the gateway sends calls at will.
OneReplica == [c \in Calls |-> CHOOSE s \in Replicas : TRUE]

TwoReplicas == [c \in Calls |-> IF c = "c3" THEN "s2" ELSE "s1"]

Empty == << >>

CallSymmetry == Permutations(Calls)

Submitted(by, sum) ==
  [cost_centre |-> MCDirectory[by].partition, amount |-> sum,
   submitted_by |-> by, status |-> "submitted"]

\* Two rows of CC-4100 (the second over the threshold), one of CC-4200.
MCSeedRequisition ==
  <<Submitted("priya", 1), Submitted("priya", 2), Submitted("anna", 1)>>

Ask(tool, who, granted, ids) ==
  [tool |-> tool, caller |-> who, granted |-> granted, usable |-> TRUE,
   ids |-> ids, decision |-> "approve", amount |-> 1]

Approve(who, ids) == Ask("approve_requisition", who, {"erp.decide"}, ids)
Reject(who, ids) == [Approve(who, ids) EXCEPT !.decision = "reject"]
Muddle(who, ids) == [Approve(who, ids) EXCEPT !.decision = "unknown"]

\* Racing batches: every order of two rows, repetitions, foreign and absent
\* rows, an empty batch and one past the ceiling.
RaceRequests ==
  {Approve("tomas", <<1, 2>>), Approve("ingrid", <<2, 1>>), Approve("ingrid", <<1, 1>>),
   Reject("tomas", <<1>>), Reject("ingrid", <<1, 2>>),
   Approve("yusuf", <<1, 3>>), Approve("priya", <<1, 2>>),
   Muddle("tomas", <<2, 1>>), Approve("tomas", << >>), Approve("tomas", <<1, 2, 2>>),
   Approve("tomas", <<1, 9>>),
   [Approve("tomas", <<1, 2>>) EXCEPT !.granted = {"erp.read"}]}

Submit(who, sum) ==
  [Ask("submit_requisition", who, {"erp.write"}, << >>) EXCEPT !.amount = sum]
Record(who, ids) == Ask("record_invoice", who, {"erp.write"}, ids)
Get(who, ids) == Ask("get_requisition", who, {"erp.read"}, ids)
List(who) == Ask("list_requisitions", who, {"erp.read"}, << >>)

\* The whole chain, by people who may and people who may not: own requisition,
\* over the threshold, own approval, foreign partition, no role, auditors.
ChainRequests ==
  {Submit("priya", 1), Submit("ingrid", 2),
   [Submit("priya", 1) EXCEPT !.usable = FALSE],
   Approve("tomas", <<1>>), Approve("ingrid", <<1>>), Approve("olive", <<1>>),
   Record("ingrid", <<1>>), Record("rafael", <<1>>), Record("priya", <<1>>), Record("olive", <<1>>),
   [Record("rafael", <<1>>) EXCEPT !.usable = FALSE],
   Get("anna", <<1>>), Get("yusuf", <<1>>), List("anna"), List("yusuf")}

\* Writers that meet on a row, on a mint and in a pool, and a table whose next
\* identifier no longer fits.
FaultRequests ==
  {Approve("tomas", <<1>>), Approve("ingrid", <<1, 2>>), Reject("ingrid", <<1>>),
   Record("rafael", <<1>>), Submit("priya", 1), List("anna")}

\* The fourth row is approved and its order is open.
FaultSeedRequisition ==
  Append(MCSeedRequisition, [Submitted("priya", 1) EXCEPT !.status = "approved"])
FaultSeedOrder ==
  <<[requisition_id |-> 4, approved_by |-> "tomas", status |-> "open"]>>
=============================================================================
