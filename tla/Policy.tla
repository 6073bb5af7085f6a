------------------------------- MODULE Policy -------------------------------
(***************************************************************************)
(* Layer 2's policy chain (authorization/policy.py) together with the five *)
(* declarations layer 3 hands it (purchase_to_pay/<tool>.py, ACTION) and   *)
(* the three relationship rules those declarations name.                   *)
(*                                                                         *)
(* The chain is pure: it is given a principal, an action and a row that    *)
(* has been hydrated already, and answers with a reason or with none.      *)
(***************************************************************************)
EXTENDS Naturals, FiniteSetsExt

CONSTANTS
  People,       \* subjects the shipped directory resolves
  Directory,    \* [People -> [partition, roles]], authored in the seed
  Partitions,   \* cost centres
  Threshold,    \* approve_requisition.THRESHOLD, in the model's amount unit
  NoRow         \* what hydration answers when nothing has that identifier

Roles == {"approver", "unlimited_approver", "invoice_clerk", "auditor"}
Scopes == {"erp.read", "erp.write", "erp.decide"}

ASSUME DirectoryAssumption ==
  /\ Directory \in [People -> [partition : Partitions, roles : SUBSET Roles]]
  /\ Threshold \in Nat

-----------------------------------------------------------------------------
(* Principals, reasons and denial classes *)

\* Principal: what the directory says of a subject, plus the token's scopes.
Principal(person, granted) ==
  [subject        |-> person,
   partition      |-> Directory[person].partition,
   roles          |-> Directory[person].roles,
   granted_scopes |-> granted]

\* Decision(reason=None): the chain permits.
Permitted == "none"

Reasons ==
  {"insufficient_scope", "role_missing", "not_found", "over_threshold",
   "segregation_of_duties", "already_decided", "already_invoiced"}

\* The shape a refusal takes on the wire is a property of its reason alone.
DenialClass(reason) ==
  CASE reason = "insufficient_scope" -> "challenge"
    [] reason = "role_missing"       -> "protocol_error"
    [] OTHER                         -> "tool_result"

-----------------------------------------------------------------------------
(* The relationship rules: a reason, or Permitted *)

refuse_over_threshold(principal, resource) ==
  IF /\ resource.amount > Threshold
     /\ "unlimited_approver" \notin principal.roles
  THEN "over_threshold"
  ELSE Permitted

refuse_own_requisition(principal, resource) ==
  IF principal.subject = resource.submitted_by
  THEN "segregation_of_duties"
  ELSE Permitted

refuse_own_approval(principal, resource) ==
  IF principal.subject = resource.approved_by
  THEN "segregation_of_duties"
  ELSE Permitted

RuleAnswer(rule, principal, resource) ==
  CASE rule = "refuse_over_threshold"  -> refuse_over_threshold(principal, resource)
    [] rule = "refuse_own_requisition" -> refuse_own_requisition(principal, resource)
    [] rule = "refuse_own_approval"    -> refuse_own_approval(principal, resource)

-----------------------------------------------------------------------------
(* The five declarations *)

Tools == {"list_requisitions", "get_requisition", "submit_requisition",
          "approve_requisition", "record_invoice"}

ReadAction ==
  [scope |-> "erp.read", required_roles |-> {}, rules |-> << >>,
   partition_bypass |-> {"auditor"}]

SubmitAction ==
  [scope |-> "erp.write", required_roles |-> {}, rules |-> << >>,
   partition_bypass |-> {}]

\* Mutant: the auditing role is added to a write, as on the two read tools.
ApproveActionOfAuditors ==
  [scope |-> "erp.decide",
   required_roles |-> {"approver", "unlimited_approver"},
   rules |-> <<"refuse_over_threshold", "refuse_own_requisition">>,
   partition_bypass |-> {"auditor"}]

ApproveAction ==
  [scope |-> "erp.decide",
   required_roles |-> {"approver", "unlimited_approver"},
   rules |-> <<"refuse_over_threshold", "refuse_own_requisition">>,
   partition_bypass |-> {}]

RecordAction ==
  [scope |-> "erp.write", required_roles |-> {"invoice_clerk"},
   rules |-> <<"refuse_own_approval">>, partition_bypass |-> {}]

Action(tool) ==
  CASE tool \in {"list_requisitions", "get_requisition"} -> ReadAction
    [] tool = "submit_requisition"                       -> SubmitAction
    [] tool = "approve_requisition"                      -> ApproveAction
    [] tool = "record_invoice"                           -> RecordAction

-----------------------------------------------------------------------------
(* The chain *)

permits_scope(principal, action) == action.scope \in principal.granted_scopes

decide_call(principal, action) ==
  IF ~permits_scope(principal, action)
  THEN "insufficient_scope"
  ELSE IF /\ action.required_roles # {}
          /\ action.required_roles \cap principal.roles = {}
       THEN "role_missing"
       ELSE Permitted

within_row_scope(principal, action, resource) ==
  \/ principal.roles \cap action.partition_bypass # {}
  \/ principal.partition = resource.partition

\* Step 4: the declared rules in their order, and the first refusal wins.
FirstRefusal(principal, action, resource) ==
  LET refusing == {i \in DOMAIN action.rules :
                     RuleAnswer(action.rules[i], principal, resource) # Permitted}
  IN  IF refusing = {}
      THEN Permitted
      ELSE RuleAnswer(action.rules[Min(refusing)], principal, resource)

\* Mutant: the rules speak before the row scope does.
decide_item_rules_first(principal, action, resource) ==
  LET call == decide_call(principal, action) IN
  IF call # Permitted THEN call
  ELSE IF resource = NoRow THEN "not_found"
  ELSE IF FirstRefusal(principal, action, resource) # Permitted
       THEN FirstRefusal(principal, action, resource)
  ELSE IF within_row_scope(principal, action, resource) THEN Permitted ELSE "not_found"

\* One return site for an absent row and a foreign one.
decide_item(principal, action, resource) ==
  LET call == decide_call(principal, action) IN
  IF call # Permitted THEN call
  ELSE IF resource = NoRow \/ ~within_row_scope(principal, action, resource)
       THEN "not_found"
       ELSE FirstRefusal(principal, action, resource)
=============================================================================
