--------------------------------- MODULE MCSeed ---------------------------------
(* An authored seed and the slips of the pen around it. *)
EXTENDS Seed

Role == {"approver", "auditor"}
Some == [list |-> TRUE, names |-> {"approver"}]
Nil == [list |-> TRUE, names |-> {}]
Word == [list |-> FALSE, names |-> {"approver"}]

Who(subject, username, centre, roles) ==
  [subject |-> subject, username |-> username, cost_centre |-> centre, roles |-> roles]
At(scheme, host, realm) ==
  [scheme |-> scheme, host |-> host, realm |-> realm, canonical |-> TRUE]

Http == At("http", "keycloak", "erp")
Https == At("https", "keycloak", "erp")

Good ==
  [issuers |-> <<Http, Https>>,
   cost_centres |-> <<[code |-> "c1"], [code |-> "c2"]>>,
   people |-> <<Who("p1", "u1", "c1", Some), Who("p2", "u2", "c2", Nil)>>,
   vendors |-> <<[id |-> "v1", name |-> "n1"], [id |-> "v2", name |-> "n2"]>>]

\* Seeds either generator may render: another centre, other roles, one person,
\* one issuer.
Legal ==
  {Good,
   [Good EXCEPT !.people[2].cost_centre = "c1"],
   [Good EXCEPT !.people[2].roles = Some],
   [Good EXCEPT !.people = <<Good.people[1]>>],
   [Good EXCEPT !.issuers = <<Http>>]}

\* Seeds one or both readers refuse, one slip each.
Slips ==
  {[Good EXCEPT !.people[2].subject = "p1"],
   [Good EXCEPT !.people[2].subject = "overlong"],
   [Good EXCEPT !.people[2].username = "u1"],
   [Good EXCEPT !.people[2].cost_centre = "c3"],
   [Good EXCEPT !.people[2].roles = Word],
   [Good EXCEPT !.cost_centres[2].code = "c1", !.people[2].cost_centre = "c1"],
   [Good EXCEPT !.vendors[2].id = "v1"],
   [Good EXCEPT !.issuers[1].realm = "", !.issuers[2].realm = ""],
   [Good EXCEPT !.issuers[2].canonical = FALSE],
   [Good EXCEPT !.issuers[2] = Http],
   [Good EXCEPT !.issuers[2].host = "elsewhere"]}

\* Two vendors under one display name, which no reader of the seed refuses.
SameNames == {Good, [Good EXCEPT !.vendors[2].name = "n1"]}
Authored == Legal \cup Slips \cup SameNames
Usable == {"p1", "p2"}
=============================================================================
