---------------------------- MODULE PurchaseChain ----------------------------
(***************************************************************************)
(* What the server promises about a purchase, with no calls, transactions, *)
(* locks or tables: each chain is raised by a person, decided at most once *)
(* by a second person entitled to decide it, and billed at most once by a  *)
(* person entitled to bill it, and each of those is one step.              *)
(*                                                                         *)
(* The rules are stated here for themselves, as the submit, approve and    *)
(* record tools declare them, and not by way of the policy chain.          *)
(***************************************************************************)
EXTENDS Naturals, Sequences

CONSTANTS
  People,      \* everyone who may act
  Directory,   \* [People -> [partition, roles]]
  Threshold,   \* largest sum an ordinary approver decides
  Amounts,     \* sums a requisition may be raised for
  Seed,        \* chains that exist before anyone acts
  Nobody       \* a position not yet occupied

VARIABLE chain \* chain[r]: the purchase that starts at requisition r

Has(person, roles) == Directory[person].roles \cap roles # {}

MayDecide(person, c) ==
  /\ Has(person, {"approver", "unlimited_approver"})
  /\ Directory[person].partition = c.partition
  /\ person # c.submitter
  /\ c.amount <= Threshold \/ Has(person, {"unlimited_approver"})

MayBill(person, c) ==
  /\ Has(person, {"invoice_clerk"})
  /\ Directory[person].partition = c.partition
  /\ person # c.approver

Init == chain = Seed

Submit(person) ==
  \E amount \in Amounts :
    chain' = Append(chain, [partition |-> Directory[person].partition,
                            amount    |-> amount,
                            submitter |-> person,
                            stage     |-> "submitted",
                            approver  |-> Nobody,
                            recorder  |-> Nobody])

Approve(person, r) ==
  /\ chain[r].stage = "submitted" /\ MayDecide(person, chain[r])
  /\ chain' = [chain EXCEPT ![r].stage = "approved", ![r].approver = person]

Reject(person, r) ==
  /\ chain[r].stage = "submitted" /\ MayDecide(person, chain[r])
  /\ chain' = [chain EXCEPT ![r].stage = "rejected"]

Bill(person, r) ==
  /\ chain[r].stage = "approved" /\ MayBill(person, chain[r])
  /\ chain' = [chain EXCEPT ![r].stage = "invoiced", ![r].recorder = person]

Next ==
  \E person \in People :
    \/ Submit(person)
    \/ \E r \in DOMAIN chain :
         Approve(person, r) \/ Reject(person, r) \/ Bill(person, r)

Spec == Init /\ [][Next]_chain
=============================================================================
