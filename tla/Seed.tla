---------------------------------- MODULE Seed ----------------------------------
(***************************************************************************)
(* The authored organisation and its three committed renderings.           *)
(*                                                                         *)
(* Two generators that neither read each other nor run together render one *)
(* file: identity.py the principal directory and the realm's user import,  *)
(* organisation.py the rows of the ERP.  An author edits the seed at any   *)
(* time and runs either generator or forgets to; a required job re-renders *)
(* what was committed, and what it passes is what a stack is brought up    *)
(* from.  Nothing compares the renderings again.                           *)
(*                                                                         *)
(* organisation.py is a module of a package whose import reads the vendors *)
(* of the rendering it is about to replace (vendors.py).                   *)
(***************************************************************************)
EXTENDS Naturals, FiniteSets, Sequences

CONSTANTS
  Seeds,     \* what an author may write
  Roles,     \* server-side roles
  RealmIds   \* subjects of 1 to SUBJECT_LIMIT characters

VARIABLES
  seed,      \* seed.yaml in the working tree
  tree,      \* the three renderings beside it
  run,       \* identity.py's main: what it has read and what it writes next
  shipped    \* the renderings the job passed last

vars == <<seed, tree, run, shipped>>

Idle == "idle"

\* An entry of the authored files.  A role column is a list, or a single word
\* where a list was meant; an issuer is as the parse would give it back, or not.
Column == [list : BOOLEAN, names : SUBSET Roles]
Person == [subject : STRING, username : STRING, cost_centre : STRING, roles : Column]
Issuer == [scheme : STRING, host : STRING, realm : STRING, canonical : BOOLEAN]

\* Lists, with one or two issuers; that nothing repeats is for the readers to see.
ASSUME SeedsAssumption ==
  \A s \in Seeds :
    /\ s.people \in Seq(Person)
    /\ s.issuers \in Seq(Issuer) /\ Len(s.issuers) \in {1, 2}
    /\ s.cost_centres \in Seq([code : STRING])
    /\ s.vendors \in Seq([id : STRING, name : STRING])

\* The values of one field down an authored list, and whether none repeats.
Values(rows, field) == {rows[i][field] : i \in DOMAIN rows}
Unique(rows, field) == Cardinality(Values(rows, field)) = Len(rows)

-----------------------------------------------------------------------------
(* identity.py *)

\* Mutant: only the first issuer is looked at before the parse.
CanonicalFirst(s) == s.issuers[1].canonical

\* _refuse_an_issuer_the_parse_would_change, of both.
Canonical(s) == \A i \in DOMAIN s.issuers : s.issuers[i].canonical

\* realm_of, and _but_for_the_scheme on the pair.
OneRealm(s) ==
  LET first == s.issuers[1] IN
  /\ first.realm # ""
  /\ Len(s.issuers) = 2 =>
       LET second == s.issuers[2] IN
       /\ <<second.host, second.realm>> = <<first.host, first.realm>>
       /\ second.scheme # first.scheme

\* Mutant: one word is taken for the list of its letters.
_roles_walked(column) == TRUE

_roles(column) == column.list

\* What the identity half is refused for, all of it before anything is written.
read_identity_seed(s) ==
  /\ Canonical(s) /\ OneRealm(s)
  /\ Values(s.people, "subject") \subseteq RealmIds
  /\ Unique(s.people, "subject") /\ Unique(s.people, "username")
  /\ \A i \in DOMAIN s.people : _roles(s.people[i].roles)

\* The names a column holds: of a single word, its letters.
Names(column) == IF column.list THEN column.names ELSE {"a letter"}

\* render_directory: the whole cast at every issuer.  A rendering is a set of
\* numbered lines: a row twice is two lines.
render_directory(s) ==
  {[line |-> <<i, p>>, issuer |-> s.issuers[i], subject |-> s.people[p].subject,
    roles |-> Names(s.people[p].roles), partition |-> s.people[p].cost_centre] :
     i \in DOMAIN s.issuers, p \in DOMAIN s.people}

render_user_import(s) ==
  {[line |-> p, realm |-> s.issuers[1].realm, id |-> s.people[p].subject,
    username |-> s.people[p].username] : p \in DOMAIN s.people}

-----------------------------------------------------------------------------
(* organisation.py *)

\* Mutant: layer 2's generator has looked at the subjects.
read_organisation_trusting(s) ==
  /\ Unique(s.cost_centres, "code") /\ Unique(s.vendors, "id")

read_organisation(s) ==
  /\ Unique(s.cost_centres, "code") /\ Unique(s.vendors, "id")
  /\ Values(s.people, "cost_centre") \subseteq Values(s.cost_centres, "code")
  /\ Unique(s.people, "subject")

Lines(table, rows) == {[line |-> <<table, i>>, row |-> rows[i]] : i \in DOMAIN rows}

render_organisation(s) ==
  Lines("cost_centre", s.cost_centres) \cup Lines("vendor", s.vendors) \cup
  Lines("person", [p \in DOMAIN s.people |->
                     [subject |-> s.people[p].subject,
                      cost_centre |-> s.people[p].cost_centre]])

Table(rendering, table) == {l.row : l \in {k \in rendering : k.line[1] = table}}
NumberOfLines(rendering, table) == Cardinality({k \in rendering : k.line[1] = table})

-----------------------------------------------------------------------------
(* What reads the renderings when a stack is brought up *)

\* PrincipalDirectory: one row per issuer and subject.
DirectoryBuilds(t) ==
  \A a, b \in t.directory : <<a.issuer, a.subject>> = <<b.issuer, b.subject>> => a = b

\* The realm's import: identifiers and usernames are its keys, and it has a name.
RealmImports(t) ==
  /\ \A a, b \in t.users : a.id = b.id \/ a.username = b.username => a = b
  /\ \A u \in t.users : u.id \in RealmIds /\ u.realm # ""

\* The load, in one transaction: the keys, and the centre a person references.
OrganisationLoads(t) ==
  LET rows(table) == Table(t.organisation, table)
      keyed(table, field) ==
        Cardinality({r[field] : r \in rows(table)}) = NumberOfLines(t.organisation, table)
  IN  /\ keyed("cost_centre", "code") /\ keyed("vendor", "id") /\ keyed("person", "subject")
      /\ \A p \in rows("person") : \E c \in rows("cost_centre") : c.code = p.cost_centre

\* shipped_vendors: the catalogue the submit tool's schema is built from.
VendorsBuild(t) ==
  \A a, b \in Table(t.organisation, "vendor") : a.name = b.name => a = b

-----------------------------------------------------------------------------
(* The author, the two generators and the job *)

Edit == /\ seed' \in Seeds \ {seed}
        /\ UNCHANGED <<tree, run, shipped>>

\* main: the seed is read once and whole, then two files are written.
IdentityReads ==
  /\ run.next = Idle /\ read_identity_seed(seed)
  /\ run' = [next |-> "directory", of |-> seed]
  /\ UNCHANGED <<seed, tree, shipped>>

WriteDirectory ==
  /\ run.next = "directory"
  /\ tree' = [tree EXCEPT !.directory = render_directory(run.of)]
  /\ run' = [run EXCEPT !.next = "users"]
  /\ UNCHANGED <<seed, shipped>>

WriteUsers ==
  /\ run.next = "users"
  /\ tree' = [tree EXCEPT !.users = render_user_import(run.of)]
  /\ run' = [next |-> Idle, of |-> seed]
  /\ UNCHANGED <<seed, shipped>>

Interrupted ==
  /\ run.next # Idle
  /\ run' = [next |-> Idle, of |-> seed]
  /\ UNCHANGED <<seed, tree, shipped>>

\* The package has been imported, and the seed is one its reader accepts.
OrganisationCanRun == VendorsBuild(tree) /\ read_organisation(seed)

\* The other generator reads the seed and writes its one file.
OrganisationRuns ==
  /\ OrganisationCanRun
  /\ tree' = [tree EXCEPT !.organisation = render_organisation(seed)]
  /\ UNCHANGED <<seed, run, shipped>>

\* Mutant: the job re-renders what layer 2 owns only.
SeedRendersCleanIdentity ==
  /\ read_identity_seed(seed)
  /\ tree.directory = render_directory(seed)
  /\ tree.users = render_user_import(seed)

\* The job: every generator runs on what was committed and changes nothing.
SeedRendersClean ==
  /\ read_identity_seed(seed) /\ OrganisationCanRun
  /\ tree = [directory |-> render_directory(seed), users |-> render_user_import(seed),
             organisation |-> render_organisation(seed)]

Merge ==
  /\ SeedRendersClean
  /\ shipped' = tree
  /\ UNCHANGED <<seed, tree, run>>

\* A checkout of something the job has passed.
Init ==
  /\ seed \in Seeds
  /\ tree = [directory |-> render_directory(seed), users |-> render_user_import(seed),
             organisation |-> render_organisation(seed)]
  /\ SeedRendersClean
  /\ shipped = tree
  /\ run = [next |-> Idle, of |-> seed]

Next ==
  \/ Edit \/ IdentityReads \/ WriteDirectory \/ WriteUsers \/ Interrupted
  \/ OrganisationRuns \/ Merge

Spec == Init /\ [][Next]_vars

-----------------------------------------------------------------------------
(* Properties *)

TypeOK ==
  /\ seed \in Seeds /\ run.of \in Seeds
  /\ \A row \in tree.directory :
       row.issuer \in Issuer /\ row.subject \in RealmIds /\ row.roles \subseteq Roles
  /\ {u.id : u \in tree.users} \subseteq RealmIds

\* What the job has passed comes up: the realm takes the import, the directory
\* has no key twice, the load meets no key or reference the schema refuses, and
\* the submit tool's schema can be built.  Neither generator relies on the other
\* having looked.
ShippedSeedsComeUp ==
  /\ DirectoryBuilds(shipped) /\ RealmImports(shipped)
  /\ OrganisationLoads(shipped) /\ VendorsBuild(shipped)

\* The cost centre both layers hold is one fact: the people of the directory
\* are the people of the ERP, and a principal's partition is the centre their
\* submissions are charged to.
OneCentrePerPerson ==
  {[subject |-> row.subject, cost_centre |-> row.partition] : row \in shipped.directory}
    = Table(shipped.organisation, "person")

\* Everyone who can sign in is somebody, whichever way the realm is reached, and
\* nobody is listed at an address the realm's tokens do not name.
EveryUserResolves ==
  LET realm == {u.realm : u \in shipped.users}
      known == {row.issuer : row \in shipped.directory}
  IN  /\ \A i \in known : i.canonical /\ i.realm \in realm
      /\ Cardinality({i.host : i \in known}) <= 1
      /\ known \X {u.id : u \in shipped.users}
           = {<<row.issuer, row.subject>> : row \in shipped.directory}

\* ci.yml, of a rendering that has drifted: "Edit the source and re-run the
\* generators; never edit a rendering" - which needs a generator that runs once
\* the source has been put right.
RerunRepairs ==
  read_organisation(seed) /\ Unique(seed.vendors, "name") => OrganisationCanRun
=============================================================================
