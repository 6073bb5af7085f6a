------------------------------ MODULE SeedProofs ------------------------------
(***************************************************************************)
(* What the job lets through, for any seeds an author may write: the two   *)
(* readers, neither of which knows of the other, refuse between them every *)
(* seed whose renderings a stack could not be brought up from.             *)
(***************************************************************************)
EXTENDS Seed, FiniteSetTheorems, SequenceTheorems, TLAPS

-----------------------------------------------------------------------------
(* The inductive invariant *)

\* What identity.py has written was rendered from seeds it accepts, the two files
\* not always from one; what was shipped is all of it from one both accept.
Renderings(s) ==
  [directory |-> render_directory(s), users |-> render_user_import(s),
   organisation |-> render_organisation(s)]

Identified(s) == s \in Seeds /\ read_identity_seed(s)

SInv ==
  /\ seed \in Seeds
  /\ run.of \in Seeds /\ run = [next |-> run.next, of |-> run.of]
  /\ run.next # Idle => Identified(run.of)
  /\ tree = [directory |-> tree.directory, users |-> tree.users,
             organisation |-> tree.organisation]
  /\ \E s : Identified(s) /\ tree.directory = render_directory(s)
  /\ \E s : Identified(s) /\ tree.users = render_user_import(s)
  /\ \E s : /\ Identified(s) /\ read_organisation(s)
            /\ shipped = Renderings(s) /\ VendorsBuild(shipped)

-----------------------------------------------------------------------------
(* What the readers refuse *)

\* A column without repetitions tells its rows apart.
LEMMA UniqueTellsApart ==
  ASSUME NEW S, NEW rows \in Seq(S), NEW field, Unique(rows, field)
  PROVE  \A i, j \in DOMAIN rows : rows[i][field] = rows[j][field] => i = j
<1> DEFINE n == Len(rows)
           T == Values(rows, field)
           f == [i \in 1..n |-> rows[i][field]]
<1>1. n \in Nat /\ DOMAIN rows = 1..n
  BY LenProperties
<1>2. T = {rows[i][field] : i \in 1..n}
  BY <1>1 DEF Values
<1>3. f \in Surjection(1..n, T)
  BY <1>2 DEF Surjection
<1>4. IsFiniteSet(1..n) /\ Cardinality(1..n) = n
  BY <1>1, FS_Interval
<1>5. Cardinality(T) = n
  BY DEF Unique
<1> HIDE DEF n, T, f
<1>6. f \in Injection(1..n, T)
  BY <1>3, <1>4, <1>5, FS_Surjection
<1>7. \A i, j \in 1..n : f[i] = f[j] => i = j
  BY <1>6 DEF Injection, IsInjective
<1> QED BY <1>1, <1>7 DEF f

\* And conversely: as many values as rows.
LEMMA AsManyAsRows ==
  ASSUME NEW S, NEW rows \in Seq(S), NEW T, NEW f, f \in Bijection(DOMAIN rows, T)
  PROVE  Cardinality(T) = Len(rows)
<1>1. Len(rows) \in Nat /\ DOMAIN rows = 1..Len(rows)
  BY LenProperties
<1>2. IsFiniteSet(1..Len(rows)) /\ Cardinality(1..Len(rows)) = Len(rows)
  BY <1>1, FS_Interval
<1>3. ExistsBijection(DOMAIN rows, T)
  BY DEF ExistsBijection
<1> QED BY <1>1, <1>2, <1>3, FS_Bijection

\* A table's lines are as many as its rows, and its rows are what they hold.
LEMMA LinesOfATable ==
  ASSUME NEW S, NEW rows \in Seq(S), NEW table, NEW others,
         \A l \in others : l.line[1] # table
  PROVE  /\ NumberOfLines(Lines(table, rows) \cup others, table) = Len(rows)
         /\ Table(Lines(table, rows) \cup others, table) = {rows[i] : i \in DOMAIN rows}
<1> DEFINE all == Lines(table, rows) \cup others
           own == {k \in all : k.line[1] = table}
           f == [i \in DOMAIN rows |-> [line |-> <<table, i>>, row |-> rows[i]]]
<1>1. own = Lines(table, rows)
  BY DEF Lines
<1>2. f \in Bijection(DOMAIN rows, own)
  <2>1. f \in [DOMAIN rows -> own]
    BY <1>1 DEF Lines
  <2>2. \A i, j \in DOMAIN rows : f[i] = f[j] => i = j
    OBVIOUS
  <2>3. \A k \in own : \E i \in DOMAIN rows : f[i] = k
    BY <1>1 DEF Lines
  <2> HIDE DEF f, own
  <2> QED BY <2>1, <2>2, <2>3 DEF Bijection, Injection, Surjection, IsInjective
<1>3. NumberOfLines(all, table) = Len(rows)
  <2> HIDE DEF f
  <2> QED BY <1>2, AsManyAsRows DEF NumberOfLines
<1>4. Table(all, table) = {rows[i] : i \in DOMAIN rows}
  <2>1. Table(all, table) = {l.row : l \in Lines(table, rows)}
    BY <1>1 DEF Table
  <2>2. {l.row : l \in Lines(table, rows)} = {rows[i] : i \in DOMAIN rows}
    <3>1. \A i \in DOMAIN rows : f[i] \in Lines(table, rows) /\ f[i].row = rows[i]
      BY DEF Lines
    <3>2. \A l \in Lines(table, rows) : \E i \in DOMAIN rows : l.row = rows[i]
      BY DEF Lines
    <3> HIDE DEF f
    <3> QED BY <3>1, <3>2
  <2> QED BY <2>1, <2>2
<1> QED BY <1>3, <1>4

-----------------------------------------------------------------------------
(* What an accepted seed renders to *)

\* The lists of an authored seed.
LEMMA Authored ==
  ASSUME NEW s \in Seeds
  PROVE  /\ s.people \in Seq(Person) /\ DOMAIN s.people = 1..Len(s.people)
         /\ \A p \in DOMAIN s.people : s.people[p] \in Person
         /\ s.issuers \in Seq(Issuer) /\ 1 \in DOMAIN s.issuers
         /\ DOMAIN s.issuers \subseteq {1, 2} /\ Len(s.issuers) \in {1, 2}
         /\ 2 \in DOMAIN s.issuers => Len(s.issuers) = 2
         /\ \A i \in DOMAIN s.issuers : s.issuers[i] \in Issuer
         /\ s.cost_centres \in Seq([code : STRING])
         /\ s.vendors \in Seq([id : STRING, name : STRING])
<1>1. /\ s.people \in Seq(Person) /\ s.issuers \in Seq(Issuer) /\ Len(s.issuers) \in {1, 2}
      /\ s.cost_centres \in Seq([code : STRING])
      /\ s.vendors \in Seq([id : STRING, name : STRING])
  BY SeedsAssumption
<1>2. /\ DOMAIN s.people = 1..Len(s.people) /\ \A p \in DOMAIN s.people : s.people[p] \in Person
  BY <1>1, LenProperties
<1>3. /\ DOMAIN s.issuers = 1..Len(s.issuers)
      /\ \A i \in DOMAIN s.issuers : s.issuers[i] \in Issuer
  BY <1>1, LenProperties
<1>4. \/ Len(s.issuers) = 1 /\ DOMAIN s.issuers = {1}
      \/ Len(s.issuers) = 2 /\ DOMAIN s.issuers = {1, 2}
  <2>1. CASE Len(s.issuers) = 1
    BY <1>3, <2>1
  <2>2. CASE Len(s.issuers) = 2
    BY <1>3, <2>2
  <2> QED BY <1>1, <2>1, <2>2
<1> QED
  <2>1. /\ 1 \in DOMAIN s.issuers /\ DOMAIN s.issuers \subseteq {1, 2}
        /\ 2 \in DOMAIN s.issuers => Len(s.issuers) = 2
    BY <1>4
  <2> QED BY <1>1, <1>2, <1>3, <2>1

\* Two issuers are one realm reached under two schemes.
LEMMA IssuersAgree ==
  ASSUME NEW s, Identified(s)
  PROVE  /\ \A i \in DOMAIN s.issuers :
              /\ s.issuers[i].canonical
              /\ s.issuers[i].host = s.issuers[1].host
              /\ s.issuers[i].realm = s.issuers[1].realm
         /\ \A i, j \in DOMAIN s.issuers : s.issuers[i] = s.issuers[j] => i = j
         /\ s.issuers[1].realm # ""
<1>1. /\ Canonical(s) /\ OneRealm(s)
      /\ 1 \in DOMAIN s.issuers /\ DOMAIN s.issuers \subseteq {1, 2}
      /\ 2 \in DOMAIN s.issuers => Len(s.issuers) = 2
  BY Authored DEF Identified, read_identity_seed
<1> QED BY <1>1 DEF Canonical, OneRealm

\* A subject and a username name one person.
LEMMA PeopleApart ==
  ASSUME NEW s, Identified(s)
  PROVE  \A p, q \in DOMAIN s.people :
           \/ s.people[p].subject = s.people[q].subject
           \/ s.people[p].username = s.people[q].username
           => p = q
<1>1. s.people \in Seq(Person) /\ Unique(s.people, "subject") /\ Unique(s.people, "username")
  BY Authored DEF Identified, read_identity_seed
<1>2. \A p, q \in DOMAIN s.people : s.people[p]["subject"] = s.people[q]["subject"] => p = q
  BY <1>1, UniqueTellsApart
<1>3. \A p, q \in DOMAIN s.people : s.people[p]["username"] = s.people[q]["username"] => p = q
  BY <1>1, UniqueTellsApart
<1> QED BY <1>2, <1>3

\* The rows of the directory.
LEMMA DirectoryRows ==
  ASSUME NEW s, NEW row \in render_directory(s)
  PROVE  \E i \in DOMAIN s.issuers, p \in DOMAIN s.people :
           /\ row.line = <<i, p>> /\ row.issuer = s.issuers[i]
           /\ row.subject = s.people[p].subject
           /\ row.roles = Names(s.people[p].roles)
           /\ row.partition = s.people[p].cost_centre
           /\ row = [line |-> <<i, p>>, issuer |-> s.issuers[i],
                     subject |-> s.people[p].subject,
                     roles |-> Names(s.people[p].roles),
                     partition |-> s.people[p].cost_centre]
BY DEF render_directory

LEMMA UserRows ==
  ASSUME NEW s, NEW u \in render_user_import(s)
  PROVE  \E p \in DOMAIN s.people :
           /\ u.line = p /\ u.realm = s.issuers[1].realm
           /\ u.id = s.people[p].subject /\ u.username = s.people[p].username
           /\ u = [line |-> p, realm |-> s.issuers[1].realm,
                   id |-> s.people[p].subject, username |-> s.people[p].username]
BY DEF render_user_import

LEMMA IdentityComesUp ==
  ASSUME NEW s, Identified(s), NEW t, t = Renderings(s)
  PROVE  DirectoryBuilds(t) /\ RealmImports(t)
<1>1. t.directory = render_directory(s) /\ t.users = render_user_import(s)
  BY DEF Renderings
<1>2. ASSUME NEW a \in t.directory, NEW b \in t.directory,
             a.issuer = b.issuer, a.subject = b.subject
      PROVE  a = b
  <2>1. PICK i \in DOMAIN s.issuers, p \in DOMAIN s.people :
          /\ a.issuer = s.issuers[i] /\ a.subject = s.people[p].subject
          /\ a = [line |-> <<i, p>>, issuer |-> s.issuers[i],
                  subject |-> s.people[p].subject,
                  roles |-> Names(s.people[p].roles),
                  partition |-> s.people[p].cost_centre]
    BY <1>1, DirectoryRows
  <2>2. PICK j \in DOMAIN s.issuers, q \in DOMAIN s.people :
          /\ b.issuer = s.issuers[j] /\ b.subject = s.people[q].subject
          /\ b = [line |-> <<j, q>>, issuer |-> s.issuers[j],
                  subject |-> s.people[q].subject,
                  roles |-> Names(s.people[q].roles),
                  partition |-> s.people[q].cost_centre]
    BY <1>1, DirectoryRows
  <2>3. i = j /\ p = q
    BY <1>2, <2>1, <2>2, IssuersAgree, PeopleApart
  <2> QED BY <2>1, <2>2, <2>3
<1>3. ASSUME NEW a \in t.users, NEW b \in t.users, a.id = b.id \/ a.username = b.username
      PROVE  a = b
  <2>1. PICK p \in DOMAIN s.people :
          /\ a.id = s.people[p].subject /\ a.username = s.people[p].username
          /\ a = [line |-> p, realm |-> s.issuers[1].realm,
                  id |-> s.people[p].subject, username |-> s.people[p].username]
    BY <1>1, UserRows
  <2>2. PICK q \in DOMAIN s.people :
          /\ b.id = s.people[q].subject /\ b.username = s.people[q].username
          /\ b = [line |-> q, realm |-> s.issuers[1].realm,
                  id |-> s.people[q].subject, username |-> s.people[q].username]
    BY <1>1, UserRows
  <2>3. p = q
    BY <1>3, <2>1, <2>2, PeopleApart
  <2> QED BY <2>1, <2>2, <2>3
<1>4. ASSUME NEW u \in t.users PROVE u.id \in RealmIds /\ u.realm # ""
  <2>1. PICK p \in DOMAIN s.people :
          u.id = s.people[p].subject /\ u.realm = s.issuers[1].realm
    BY <1>1, UserRows
  <2>2. s.people[p].subject \in RealmIds
    BY DEF Identified, read_identity_seed, Values
  <2> QED BY <2>1, <2>2, IssuersAgree
<1> QED BY <1>2, <1>3, <1>4 DEF DirectoryBuilds, RealmImports

\* The rows of the ERP's person table, as organisation.py writes them.
PersonRows(s) == [p \in DOMAIN s.people |->
                    [subject |-> s.people[p].subject, cost_centre |-> s.people[p].cost_centre]]

\* A rendering whose lines of a table are those of these rows.
Holds(org, table, rows) == org = Lines(table, rows) \cup {l \in org : l.line[1] # table}

LEMMA RowsHeld ==
  ASSUME NEW S, NEW rows \in Seq(S), NEW table, NEW all, Holds(all, table, rows)
  PROVE  /\ NumberOfLines(all, table) = Len(rows)
         /\ Table(all, table) = {rows[i] : i \in DOMAIN rows}
<1> DEFINE others == {l \in all : l.line[1] # table}
<1>1. all = Lines(table, rows) \cup others /\ \A l \in others : l.line[1] # table
  BY DEF Holds
<1> HIDE DEF others
<1>2. /\ NumberOfLines(Lines(table, rows) \cup others, table) = Len(rows)
      /\ Table(Lines(table, rows) \cup others, table) = {rows[i] : i \in DOMAIN rows}
  BY <1>1, LinesOfATable
<1> QED BY <1>1, <1>2

\* A table whose key the reader found unique is keyed in the rendering.
LEMMA KeyedTable ==
  ASSUME NEW S, NEW rows \in Seq(S), NEW field, Unique(rows, field), NEW table,
         NEW all, Holds(all, table, rows)
  PROVE  Cardinality({r[field] : r \in Table(all, table)}) = NumberOfLines(all, table)
<1>1. /\ NumberOfLines(all, table) = Len(rows)
      /\ Table(all, table) = {rows[i] : i \in DOMAIN rows}
  BY RowsHeld
<1>2. {r[field] : r \in Table(all, table)} = Values(rows, field)
  <2>1. \A r \in Table(all, table) : r[field] \in Values(rows, field)
    BY <1>1 DEF Values
  <2>2. \A v \in Values(rows, field) : \E r \in Table(all, table) : v = r[field]
    BY <1>1 DEF Values
  <2> QED BY <2>1, <2>2
<1> QED BY <1>1, <1>2 DEF Unique

\* The three tables of the ERP's rendering, each beside the other two.
LEMMA TablesOfTheRendering ==
  ASSUME NEW s \in Seeds, NEW org, org = render_organisation(s)
  PROVE  /\ Holds(org, "cost_centre", s.cost_centres)
         /\ Holds(org, "vendor", s.vendors)
         /\ Holds(org, "person", PersonRows(s))
         /\ PersonRows(s) \in Seq([subject : STRING, cost_centre : STRING])
         /\ Len(PersonRows(s)) = Len(s.people)
         /\ DOMAIN PersonRows(s) = DOMAIN s.people
<1> DEFINE c == Lines("cost_centre", s.cost_centres)
           v == Lines("vendor", s.vendors)
           p == Lines("person", PersonRows(s))
<1>1. org = c \cup v \cup p
  BY DEF render_organisation, PersonRows
<1>2. /\ \A l \in c : l.line[1] = "cost_centre"
      /\ \A l \in v : l.line[1] = "vendor"
      /\ \A l \in p : l.line[1] = "person"
  BY DEF Lines
<1>3. /\ org = c \cup (v \cup p) /\ org = v \cup (c \cup p) /\ org = p \cup (c \cup v)
  BY <1>1
<1>4. PersonRows(s) \in Seq([subject : STRING, cost_centre : STRING])
      /\ Len(PersonRows(s)) = Len(s.people) /\ DOMAIN PersonRows(s) = DOMAIN s.people
  <2>1. s.people \in Seq(Person) /\ DOMAIN s.people = 1..Len(s.people)
        /\ \A i \in DOMAIN s.people : s.people[i] \in Person
    BY Authored
  <2>2. Len(s.people) \in Nat
    BY <2>1, LenProperties
  <2>3. PersonRows(s) \in [1..Len(s.people) -> [subject : STRING, cost_centre : STRING]]
    BY <2>1 DEF PersonRows, Person
  <2>4. PersonRows(s) \in Seq([subject : STRING, cost_centre : STRING])
    <3> DEFINE R == [subject : STRING, cost_centre : STRING]
               n == Len(s.people)
               rows == PersonRows(s)
    <3>1. n \in Nat /\ rows \in [1..n -> R]
      BY <2>2, <2>3
    <3> HIDE DEF R, n, rows
    <3>2. rows \in Seq(R)
      BY <3>1, SeqDef
    <3> QED BY <3>2 DEF R, rows
  <2>5. DOMAIN PersonRows(s) = DOMAIN s.people
    BY DEF PersonRows
  <2> QED BY <2>1, <2>2, <2>4, <2>5, LenProperties
<1> HIDE DEF c, v, p
<1>5. /\ \A l \in v \cup p : l.line[1] # "cost_centre"
      /\ \A l \in c \cup p : l.line[1] # "vendor"
      /\ \A l \in c \cup v : l.line[1] # "person"
  BY <1>2
<1>6. /\ org = c \cup {l \in org : l.line[1] # "cost_centre"}
      /\ org = v \cup {l \in org : l.line[1] # "vendor"}
      /\ org = p \cup {l \in org : l.line[1] # "person"}
  BY <1>2, <1>3, <1>5
<1>7. /\ Holds(org, "cost_centre", s.cost_centres) /\ Holds(org, "vendor", s.vendors)
      /\ Holds(org, "person", PersonRows(s))
  BY <1>6 DEF Holds, c, v, p
<1> QED BY <1>4, <1>7

\* The rows a table of the rendering holds.
LEMMA RowsOfTheRendering ==
  ASSUME NEW s \in Seeds, NEW org, org = render_organisation(s)
  PROVE  /\ Table(org, "cost_centre") = {s.cost_centres[i] : i \in DOMAIN s.cost_centres}
         /\ Table(org, "vendor") = {s.vendors[i] : i \in DOMAIN s.vendors}
         /\ Table(org, "person") =
              {[subject |-> s.people[p].subject, cost_centre |-> s.people[p].cost_centre] :
                 p \in DOMAIN s.people}
<1>1. Table(org, "cost_centre") = {s.cost_centres[i] : i \in DOMAIN s.cost_centres}
  <2>1. Holds(org, "cost_centre", s.cost_centres)
    BY TablesOfTheRendering
  <2>2. s.cost_centres \in Seq([code : STRING])
    BY Authored
  <2> QED BY <2>1, <2>2, RowsHeld
<1>2. Table(org, "vendor") = {s.vendors[i] : i \in DOMAIN s.vendors}
  <2>1. Holds(org, "vendor", s.vendors)
    BY TablesOfTheRendering
  <2>2. s.vendors \in Seq([id : STRING, name : STRING])
    BY Authored
  <2> QED BY <2>1, <2>2, RowsHeld
<1>3. Table(org, "person") = {PersonRows(s)[p] : p \in DOMAIN s.people}
  <2>1. Holds(org, "person", PersonRows(s))
    BY TablesOfTheRendering
  <2>2. PersonRows(s) \in Seq([subject : STRING, cost_centre : STRING])
        /\ DOMAIN PersonRows(s) = DOMAIN s.people
    BY TablesOfTheRendering
  <2>3. Table(org, "person") = {PersonRows(s)[p] : p \in DOMAIN PersonRows(s)}
    BY <2>1, <2>2, RowsHeld
  <2> QED BY <2>2, <2>3
<1>4. \A p \in DOMAIN s.people :
        PersonRows(s)[p] = [subject |-> s.people[p].subject,
                            cost_centre |-> s.people[p].cost_centre]
  BY DEF PersonRows
<1>5. {PersonRows(s)[p] : p \in DOMAIN s.people}
        = {[subject |-> s.people[p].subject, cost_centre |-> s.people[p].cost_centre] :
             p \in DOMAIN s.people}
  BY <1>4
<1> QED BY <1>1, <1>2, <1>3, <1>5

\* The load meets no key twice, and no reference to a centre it lacks.
LEMMA OrganisationComesUp ==
  ASSUME NEW s, Identified(s), read_organisation(s), NEW t, t = Renderings(s)
  PROVE  OrganisationLoads(t)
<1> DEFINE org == t.organisation
<1>1. s \in Seeds /\ org = render_organisation(s)
  BY DEF Identified, Renderings
<1> HIDE DEF org
<1>2. Cardinality({r["code"] : r \in Table(org, "cost_centre")}) = NumberOfLines(org, "cost_centre")
  <2>1. Holds(org, "cost_centre", s.cost_centres)
    BY <1>1, TablesOfTheRendering
  <2>2. s.cost_centres \in Seq([code : STRING]) /\ Unique(s.cost_centres, "code")
    BY <1>1, Authored DEF read_organisation
  <2> QED BY <2>1, <2>2, KeyedTable
<1>3. Cardinality({r["id"] : r \in Table(org, "vendor")}) = NumberOfLines(org, "vendor")
  <2>1. Holds(org, "vendor", s.vendors)
    BY <1>1, TablesOfTheRendering
  <2>2. s.vendors \in Seq([id : STRING, name : STRING]) /\ Unique(s.vendors, "id")
    BY <1>1, Authored DEF read_organisation
  <2> QED BY <2>1, <2>2, KeyedTable
<1>4. Cardinality({r["subject"] : r \in Table(org, "person")}) = NumberOfLines(org, "person")
  <2>1. Holds(org, "person", PersonRows(s))
    BY <1>1, TablesOfTheRendering
  <2>2. /\ PersonRows(s) \in Seq([subject : STRING, cost_centre : STRING])
        /\ Len(PersonRows(s)) = Len(s.people) /\ DOMAIN PersonRows(s) = DOMAIN s.people
    BY <1>1, TablesOfTheRendering
  <2>3. Values(PersonRows(s), "subject") = Values(s.people, "subject")
    <3>1. \A p \in DOMAIN s.people : PersonRows(s)[p]["subject"] = s.people[p]["subject"]
      BY DEF PersonRows
    <3> QED BY <2>2, <3>1 DEF Values
  <2>4. Unique(PersonRows(s), "subject")
    BY <2>2, <2>3 DEF read_organisation, Unique
  <2> QED BY <2>1, <2>2, <2>4, KeyedTable
<1>5. \A p \in Table(org, "person") : \E c \in Table(org, "cost_centre") : c.code = p.cost_centre
  <2>1. SUFFICES ASSUME NEW p \in DOMAIN s.people
                 PROVE  \E c \in Table(org, "cost_centre") : c.code = s.people[p].cost_centre
    BY <1>1, RowsOfTheRendering
  <2>2. s.people[p].cost_centre \in Values(s.people, "cost_centre")
    BY DEF Values
  <2>3. s.people[p].cost_centre \in Values(s.cost_centres, "code")
    BY <2>2 DEF read_organisation
  <2>4. PICK i \in DOMAIN s.cost_centres : s.cost_centres[i].code = s.people[p].cost_centre
    BY <2>3 DEF Values
  <2> QED BY <1>1, <2>4, RowsOfTheRendering
<1> QED BY <1>2, <1>3, <1>4, <1>5 DEF OrganisationLoads, org

-----------------------------------------------------------------------------
(* Every action of the author, of the generators and of the job *)

Accepted(s) == Identified(s) /\ read_organisation(s)

\* A working tree the job passes is the rendering of a seed both readers accept.
LEMMA CleanIsAccepted ==
  ASSUME SeedRendersClean, seed \in Seeds
  PROVE  /\ Accepted(seed) /\ tree = Renderings(seed) /\ VendorsBuild(tree)
BY DEF SeedRendersClean, OrganisationCanRun, Accepted, Identified, Renderings

LEMMA InitSInv ==
  ASSUME Init
  PROVE  SInv
<1>1. /\ Accepted(seed) /\ tree = Renderings(seed) /\ VendorsBuild(tree)
  BY CleanIsAccepted DEF Init
<1>2. /\ seed \in Seeds /\ shipped = tree /\ run = [next |-> Idle, of |-> seed]
  BY DEF Init
<1>3. /\ Identified(seed) /\ read_organisation(seed)
      /\ tree.directory = render_directory(seed) /\ tree.users = render_user_import(seed)
      /\ tree = [directory |-> tree.directory, users |-> tree.users,
                 organisation |-> tree.organisation]
      /\ shipped = Renderings(seed) /\ VendorsBuild(shipped)
  BY <1>1, <1>2 DEF Accepted, Renderings
<1>4. /\ run.of \in Seeds /\ run = [next |-> run.next, of |-> run.of] /\ run.next = Idle
  BY <1>2
<1> QED BY <1>2, <1>3, <1>4 DEF SInv

LEMMA EditKeeps ==
  ASSUME SInv, Edit
  PROVE  SInv'
<1>1. /\ seed' \in Seeds /\ tree' = tree /\ run' = run /\ shipped' = shipped
  BY DEF Edit
<1> QED BY <1>1 DEF SInv, VendorsBuild

LEMMA IdentityReadsKeeps ==
  ASSUME SInv, IdentityReads
  PROVE  SInv'
<1>1. /\ seed' = seed /\ tree' = tree /\ shipped' = shipped
      /\ run' = [next |-> "directory", of |-> seed] /\ read_identity_seed(seed)
  BY DEF IdentityReads
<1>2. seed \in Seeds
  BY DEF SInv
<1>3. /\ run'.of \in Seeds /\ run' = [next |-> run'.next, of |-> run'.of]
      /\ Identified(run'.of)
  BY <1>1, <1>2 DEF Identified
<1> QED BY <1>1, <1>3 DEF SInv, VendorsBuild

LEMMA WriteDirectoryKeeps ==
  ASSUME SInv, WriteDirectory
  PROVE  SInv'
<1>1. /\ run.next = "directory" /\ seed' = seed /\ shipped' = shipped
      /\ tree' = [tree EXCEPT !.directory = render_directory(run.of)]
      /\ run' = [run EXCEPT !.next = "users"]
  BY DEF WriteDirectory
<1>2. PICK d, u, o, n, s :
        /\ tree = [directory |-> d, users |-> u, organisation |-> o]
        /\ run = [next |-> n, of |-> s]
  BY DEF SInv
<1>3. Identified(s)
  BY <1>1, <1>2 DEF SInv, Idle
<1>4. /\ tree' = [directory |-> render_directory(s), users |-> u, organisation |-> o]
      /\ run' = [next |-> "users", of |-> s]
  BY <1>1, <1>2
<1>5. /\ tree'.directory = render_directory(s) /\ tree'.users = tree.users
      /\ tree' = [directory |-> tree'.directory, users |-> tree'.users,
                  organisation |-> tree'.organisation]
      /\ run'.of = s /\ run' = [next |-> run'.next, of |-> run'.of]
  BY <1>2, <1>4
<1>6. s \in Seeds
  BY <1>3 DEF Identified
<1> QED BY <1>1, <1>3, <1>5, <1>6 DEF SInv, VendorsBuild

LEMMA WriteUsersKeeps ==
  ASSUME SInv, WriteUsers
  PROVE  SInv'
<1>1. /\ run.next = "users" /\ seed' = seed /\ shipped' = shipped
      /\ tree' = [tree EXCEPT !.users = render_user_import(run.of)]
      /\ run' = [next |-> Idle, of |-> seed]
  BY DEF WriteUsers
<1>2. PICK d, u, o, s :
        /\ tree = [directory |-> d, users |-> u, organisation |-> o]
        /\ s = run.of
  BY DEF SInv
<1>3. Identified(s) /\ seed \in Seeds
  BY <1>1, <1>2 DEF SInv, Idle
<1>4. tree' = [directory |-> d, users |-> render_user_import(s), organisation |-> o]
  BY <1>1, <1>2
<1>5. /\ tree'.users = render_user_import(s) /\ tree'.directory = tree.directory
      /\ tree' = [directory |-> tree'.directory, users |-> tree'.users,
                  organisation |-> tree'.organisation]
      /\ run'.of \in Seeds /\ run' = [next |-> run'.next, of |-> run'.of] /\ run'.next = Idle
  BY <1>1, <1>2, <1>3, <1>4
<1> QED BY <1>1, <1>3, <1>5 DEF SInv, VendorsBuild

LEMMA InterruptedKeeps ==
  ASSUME SInv, Interrupted
  PROVE  SInv'
<1>1. /\ seed' = seed /\ tree' = tree /\ shipped' = shipped
      /\ run' = [next |-> Idle, of |-> seed]
  BY DEF Interrupted
<1>2. /\ run'.of \in Seeds /\ run' = [next |-> run'.next, of |-> run'.of] /\ run'.next = Idle
  BY <1>1 DEF SInv
<1> QED BY <1>1, <1>2 DEF SInv, VendorsBuild

LEMMA OrganisationRunsKeeps ==
  ASSUME SInv, OrganisationRuns
  PROVE  SInv'
<1>1. /\ seed' = seed /\ run' = run /\ shipped' = shipped
      /\ tree' = [tree EXCEPT !.organisation = render_organisation(seed)]
  BY DEF OrganisationRuns
<1>2. PICK d, u, o, s :
        tree = [directory |-> d, users |-> u, organisation |-> o] /\ s = seed
  BY DEF SInv
<1>3. tree' = [directory |-> d, users |-> u, organisation |-> render_organisation(s)]
  BY <1>1, <1>2
<1>4. /\ tree'.directory = tree.directory /\ tree'.users = tree.users
      /\ tree' = [directory |-> tree'.directory, users |-> tree'.users,
                  organisation |-> tree'.organisation]
  BY <1>2, <1>3
<1> QED BY <1>1, <1>4 DEF SInv, VendorsBuild

LEMMA MergeKeeps ==
  ASSUME SInv, Merge
  PROVE  SInv'
<1>1. /\ SeedRendersClean /\ shipped' = tree /\ seed' = seed /\ tree' = tree /\ run' = run
      /\ seed \in Seeds
  BY DEF Merge, SInv
<1>2. PICK s : s = seed
  OBVIOUS
<1>3. /\ Identified(s) /\ read_organisation(s)
      /\ shipped' = Renderings(s) /\ VendorsBuild(shipped)'
  BY <1>1, <1>2, CleanIsAccepted DEF Accepted, VendorsBuild
<1> QED BY <1>1, <1>3 DEF SInv

\* What the working tree, the run and the shipped renderings owe to the readers.
THEOREM RenderedFromAccepted == Spec => []SInv
<1>1. ASSUME SInv, [Next]_vars PROVE SInv'
  <2>1. CASE UNCHANGED vars
    BY <1>1, <2>1 DEF SInv, vars, VendorsBuild
  <2> QED
    BY <1>1, <2>1, EditKeeps, IdentityReadsKeeps, WriteDirectoryKeeps, WriteUsersKeeps,
       InterruptedKeeps, OrganisationRunsKeeps, MergeKeeps DEF Next
<1> QED BY InitSInv, <1>1, PTL DEF Spec

-----------------------------------------------------------------------------
(* What follows from it *)

\* Nothing in the working tree is outside its type, whichever files the two
\* generators were run on: a directory row's issuer, subject and roles are those
\* the directory and the policy chain know, and a realm identifier is a subject.
THEOREM TreesAreTyped == Spec => []TypeOK
<1>1. ASSUME SInv PROVE TypeOK
  <2>1. seed \in Seeds /\ run.of \in Seeds
    BY <1>1 DEF SInv
  <2>2. ASSUME NEW row \in tree.directory
        PROVE  row.issuer \in Issuer /\ row.subject \in RealmIds /\ row.roles \subseteq Roles
    <3>1. PICK s : Identified(s) /\ tree.directory = render_directory(s)
      BY <1>1 DEF SInv
    <3>2. PICK i \in DOMAIN s.issuers, p \in DOMAIN s.people :
            /\ row.issuer = s.issuers[i] /\ row.subject = s.people[p].subject
            /\ row.roles = Names(s.people[p].roles)
      BY <3>1, DirectoryRows
    <3>3. s.issuers[i] \in Issuer /\ s.people[p] \in Person
      BY <3>1, Authored DEF Identified
    <3>4. s.people[p].subject \in RealmIds
      BY <3>1 DEF Identified, read_identity_seed, Values
    <3>5. Names(s.people[p].roles) \subseteq Roles
      BY <3>1, <3>3 DEF Identified, read_identity_seed, _roles, Names, Person, Column
    <3> QED BY <3>2, <3>3, <3>4, <3>5
  <2>3. ASSUME NEW u \in tree.users PROVE u.id \in RealmIds
    <3>1. PICK s : Identified(s) /\ tree.users = render_user_import(s)
      BY <1>1 DEF SInv
    <3>2. PICK p \in DOMAIN s.people : u.id = s.people[p].subject
      BY <3>1, UserRows
    <3> QED BY <3>1, <3>2 DEF Identified, read_identity_seed, Values
  <2> QED BY <2>1, <2>2, <2>3 DEF TypeOK
<1> QED BY RenderedFromAccepted, <1>1, PTL

\* A stack comes up from whatever the job has passed: what one reader does not
\* look at the other refuses, and the job runs both on the same commit.
THEOREM ShippedSeedsAreSound == Spec => []ShippedSeedsComeUp
<1>1. ASSUME SInv PROVE ShippedSeedsComeUp
  <2>1. PICK s : /\ Identified(s) /\ read_organisation(s)
                 /\ shipped = Renderings(s) /\ VendorsBuild(shipped)
    BY <1>1 DEF SInv
  <2>2. DirectoryBuilds(shipped) /\ RealmImports(shipped)
    BY <2>1, IdentityComesUp
  <2>3. OrganisationLoads(shipped)
    BY <2>1, OrganisationComesUp
  <2> QED BY <2>1, <2>2, <2>3 DEF ShippedSeedsComeUp
<1> QED BY RenderedFromAccepted, <1>1, PTL

\* The partition layer 2 scopes by and the cost centre layer 1 charges are the
\* same fact of the same people in everything shipped.
THEOREM OneFactOfTheCentre == Spec => []OneCentrePerPerson
<1>1. ASSUME SInv PROVE OneCentrePerPerson
  <2>1. PICK s : Identified(s) /\ shipped = Renderings(s)
    BY <1>1 DEF SInv
  <2>2. /\ shipped.directory = render_directory(s) /\ s \in Seeds
        /\ shipped.organisation = render_organisation(s)
    BY <2>1 DEF Renderings, Identified
  <2> DEFINE both == {[subject |-> row.subject, cost_centre |-> row.partition] :
                        row \in shipped.directory}
             rows == {[subject |-> s.people[p].subject,
                       cost_centre |-> s.people[p].cost_centre] : p \in DOMAIN s.people}
  <2>3. Table(shipped.organisation, "person") = rows
    BY <2>2, RowsOfTheRendering
  <2>4. ASSUME NEW b \in both PROVE b \in rows
    <3>1. PICK row \in shipped.directory :
            b = [subject |-> row.subject, cost_centre |-> row.partition]
      OBVIOUS
    <3>2. PICK p \in DOMAIN s.people :
            row.subject = s.people[p].subject /\ row.partition = s.people[p].cost_centre
      BY <2>2, DirectoryRows
    <3> QED BY <3>1, <3>2
  <2>5. ASSUME NEW p \in DOMAIN s.people
        PROVE  [subject |-> s.people[p].subject,
                cost_centre |-> s.people[p].cost_centre] \in both
    <3> DEFINE row == [line |-> <<1, p>>, issuer |-> s.issuers[1],
                       subject |-> s.people[p].subject,
                       roles |-> Names(s.people[p].roles),
                       partition |-> s.people[p].cost_centre]
    <3>1. 1 \in DOMAIN s.issuers
      BY <2>2, Authored
    <3>2. row \in shipped.directory
      BY <2>2, <3>1 DEF render_directory
    <3>3. row.subject = s.people[p].subject /\ row.partition = s.people[p].cost_centre
      OBVIOUS
    <3> HIDE DEF row
    <3> QED BY <3>2, <3>3
  <2>6. both = rows
    BY <2>4, <2>5
  <2> QED BY <2>3, <2>6 DEF OneCentrePerPerson
<1> QED BY RenderedFromAccepted, <1>1, PTL

\* Whoever the realm lets in is found in the directory under every issuer a token
\* of theirs can name, and the directory lists nobody else.
THEOREM WhoSignsInIsKnown == Spec => []EveryUserResolves
<1>1. ASSUME SInv PROVE EveryUserResolves
  <2>1. PICK s : Identified(s) /\ shipped = Renderings(s)
    BY <1>1 DEF SInv
  <2>2. /\ shipped.directory = render_directory(s) /\ shipped.users = render_user_import(s)
        /\ s \in Seeds
    BY <2>1 DEF Renderings, Identified
  <2> DEFINE realm == {u.realm : u \in shipped.users}
             known == {row.issuer : row \in shipped.directory}
             hosts == {i.host : i \in known}
             ids == {u.id : u \in shipped.users}
             listed == {<<row.issuer, row.subject>> : row \in shipped.directory}
  <2>3. ASSUME NEW i \in DOMAIN s.issuers, NEW p \in DOMAIN s.people
        PROVE  \E row \in shipped.directory :
                 row.issuer = s.issuers[i] /\ row.subject = s.people[p].subject
    <3> DEFINE row == [line |-> <<i, p>>, issuer |-> s.issuers[i],
                       subject |-> s.people[p].subject,
                       roles |-> Names(s.people[p].roles),
                       partition |-> s.people[p].cost_centre]
    <3>1. row \in shipped.directory
      BY <2>2 DEF render_directory
    <3>2. row.issuer = s.issuers[i] /\ row.subject = s.people[p].subject
      OBVIOUS
    <3> HIDE DEF row
    <3> QED BY <3>1, <3>2
  <2>4. ASSUME NEW p \in DOMAIN s.people
        PROVE  \E u \in shipped.users :
                 u.realm = s.issuers[1].realm /\ u.id = s.people[p].subject
    <3> DEFINE u == [line |-> p, realm |-> s.issuers[1].realm,
                     id |-> s.people[p].subject, username |-> s.people[p].username]
    <3>1. u \in shipped.users
      BY <2>2 DEF render_user_import
    <3>2. u.realm = s.issuers[1].realm /\ u.id = s.people[p].subject
      OBVIOUS
    <3> HIDE DEF u
    <3> QED BY <3>1, <3>2
  <2>5. ASSUME NEW i \in known
        PROVE  \E k \in DOMAIN s.issuers, p \in DOMAIN s.people : i = s.issuers[k]
    <3>1. PICK row \in shipped.directory : i = row.issuer
      OBVIOUS
    <3> QED BY <2>2, <3>1, DirectoryRows
  <2>6. \A i \in known : i.canonical /\ i.realm \in realm
    <3>1. SUFFICES ASSUME NEW i \in known PROVE i.canonical /\ i.realm \in realm
      OBVIOUS
    <3>2. PICK k \in DOMAIN s.issuers, p \in DOMAIN s.people : i = s.issuers[k]
      BY <2>5
    <3>3. i.canonical /\ i.realm = s.issuers[1].realm
      BY <2>1, <3>2, IssuersAgree
    <3>4. PICK u \in shipped.users : u.realm = s.issuers[1].realm
      BY <2>4, <3>2
    <3> QED BY <3>3, <3>4
  <2>7. Cardinality(hosts) <= 1
    <3>1. ASSUME NEW i \in known PROVE i.host = s.issuers[1].host
      <4>1. PICK k \in DOMAIN s.issuers : i = s.issuers[k]
        BY <2>5
      <4> QED BY <2>1, <4>1, IssuersAgree
    <3>2. CASE hosts = {}
      BY <3>2, FS_EmptySet
    <3>3. CASE hosts # {}
      <4>1. hosts = {s.issuers[1].host}
        BY <3>1, <3>3
      <4>2. Cardinality({s.issuers[1].host}) = 1
        BY FS_Singleton
      <4> HIDE DEF hosts
      <4> QED BY <4>1, <4>2
    <3> QED BY <3>2, <3>3
  <2>8. known \X ids = listed
    <3>1. ASSUME NEW i \in known, NEW u \in shipped.users
          PROVE  <<i, u.id>> \in listed
      <4>1. PICK k \in DOMAIN s.issuers : i = s.issuers[k]
        BY <2>5
      <4>2. PICK p \in DOMAIN s.people : u.id = s.people[p].subject
        BY <2>2, UserRows
      <4>3. PICK row \in shipped.directory :
              row.issuer = s.issuers[k] /\ row.subject = s.people[p].subject
        BY <2>3
      <4> QED BY <4>1, <4>2, <4>3
    <3>2. ASSUME NEW row \in shipped.directory
          PROVE  row.issuer \in known /\ row.subject \in ids
      <4>1. PICK p \in DOMAIN s.people : row.subject = s.people[p].subject
        BY <2>2, DirectoryRows
      <4>2. PICK u \in shipped.users : u.id = s.people[p].subject
        BY <2>4
      <4> QED BY <4>1, <4>2
    <3>3. \A i \in known, d \in ids : <<i, d>> \in listed
      BY <3>1
    <3>4. listed \subseteq known \X ids
      <4> HIDE DEF known, ids
      <4> QED BY <3>2
    <3> HIDE DEF known, ids, listed
    <3> QED BY <3>3, <3>4
  <2> QED BY <2>6, <2>7, <2>8 DEF EveryUserResolves
<1> QED BY RenderedFromAccepted, <1>1, PTL
===============================================================================
