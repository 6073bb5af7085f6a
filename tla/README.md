# A TLA+ verification of mcp-erp

mcp-erp is a resource server for the Model Context Protocol in front of a small
purchase-to-pay ERP. Callers hold OAuth tokens; five tools let them raise a
requisition, read one or list them, decide a batch of them, and bill the purchase
order an approval emits. Two replicas run behind a round-robin gateway over one
PostgreSQL database, and each replica keeps the authorization server's signing
keys in memory.

This directory holds models of it, the TLC configurations that check them, and
proofs that every safety property of a passing run holds for every size of the system.
Beside the running server it covers what is built before it runs: the matrix of
fixtures and the seed of the organisation, whose renderings the server and its
tests stand on.

    tlc -config racing_decisions.cfg MCPurchaseToPay.tla
    tlc -config chain_end_to_end.cfg MCPurchaseToPay.tla
    tlc -config faults_and_waiting.cfg MCPurchaseToPay.tla
    tlc -config key_set.cfg MCKeySet.tla
    tlc -config gate_chain.cfg MCGateChain.tla
    tlc -config gate_races.cfg MCGateChain.tla
    tlc -config fixtures.cfg MCFixtures.tla
    tlc -config seed.cfg MCSeed.tla
    tlapm PurchaseToPayProofs.tla
    tlapm KeySetProofs.tla
    tlapm GateChainProofs.tla
    tlapm PurchaseAnswersProofs.tla
    tlapm PurchaseChainProofs.tla
    tlapm IdentifierProofs.tla
    tlapm FixturesProofs.tla
    tlapm SeedProofs.tla

Paths below are relative to the repository; `mcp_erp/` is `src/mcp_erp/`.

## 1. Inventory

| Part | State it keeps | Operations | What is hard about it |
| --- | --- | --- | --- |
| Policy chain, `authorization/policy.py`, `action.py`, `reasons.py` | none (pure) | `permits_scope`, `decide_call`, `decide_item` | the order of the steps is what a refusal discloses |
| Tool declarations, `purchase_to_pay/<tool>.py` | none | five `ACTION`s, three relationship rules | a wrong `partition_bypass` shows in no test, since nobody in the seed holds the roles that would reveal it |
| Handlers, `purchase_to_pay/handlers.py` | where each call stands, the outcomes yielded | five async generators | they decide against a row read in one transaction and write in another; batches commit item by item |
| Stores, `purchase_to_pay/repository.py` | three tables, in PostgreSQL | `all`, `by_id`, `create`, `decide`, `bill` | row locks, advisory locks for minting, two writes per transaction, rollback, lost commits |
| Dispatch, `transport/dispatch.py` | none | list the tools, run a handler, render one outcome, fold several, contain a failure | a caller-level refusal has no rendering inside a fold; a listing is cached and its token runs out |
| Gates, `transport/gates.py` | per-request ASGI state, a replayed body | origin, shape, token and principal, scope | their fixed order; what each lets the next assume; a body or a key that is waited for while the client, the token or the keys change |
| Token validation, `transport/tokens.py` | none | `validate` | a fixed precedence among seven refusals |
| Key set, `transport/keys.py` | keys, discovery document, last attempt, a lock | `signing_key`, `metadata` | concurrent misses, a slow or failing key server, rotation, cancellation, a timeout that is no limit on a request |
| Directory, `authorization/directory.py` | entries by issuer and subject | `lookup` | a miss must be one reason with a missing role |
| Pool and wiring, `app.py` | connections | `create_app`, lifespan | waiting for locks while holding a connection |
| Fixtures loader, `purchase_to_pay/fixtures.py`, `tests/fixtures.py` | the matrix, the seeded rows | `read_matrix`, `render_fixtures`, `load`, `at_the_ceiling` | three counters, nullable fields that stand for a chain of writes, rows the reader takes and the schema does not, and identifiers the tools go on counting from |
| Renderings, `organisation.py`, `vendors.py`, `identity.py`, the job *Seed renders clean* | `seed.yaml` and three generated files | read, refuse, render, check, load | two generators that may not know each other must agree; one of them imports what it writes |
| Gateway, `gateway/nginx.conf`; authorization server, `keycloak/` | external | round robin; keys and tokens | no affinity; rotation and delay |

How they interact. A request passes the gates in order; the token gate asks the
key set for the token's key and the directory for the principal; the scope gate
asks `permits_scope`; dispatch runs the tool's handler and collects what it
yields. A handler asks `decide_call` or `decide_item` and awaits the store. All
state that two calls share is in PostgreSQL (rows and locks), in a replica's
connection pool, and in a replica's key set. Between two awaits a handler runs
alone; at every await anything else may run, on this replica or the other.

What makes each part correct:

- *handlers and stores*: one winner per decision and per bill however calls
  interleave; no chain with a missing link, whatever fails; fresh identifiers;
  every committed step taken by a person entitled to it when it took effect; one
  answer per item named; nothing about a foreign row disclosed; every call
  answered;
- *dispatch and gate 5*: no call is answered "internal error" by the server's own
  doing;
- *key set*: fetches at most once per cooldown, keys from one fetch at a time, no
  refusal of a key the last fetch could have brought, few requests waited for, a lock
  that is always left;
- *tokens, gates, directory*: a request is let in exactly when everything it needs
  is true in the step that lets it in, however long it waited; discovery alone is
  answered to strangers; the cause a refused token is told is the first true one; a
  foreign token costs no fetch; a listing goes stale with its token; whoever is
  still there is answered;
- *fixtures*: what the reader accepts and the schema takes loads as whole chains, the
  numbering never repeats or crosses a link, and the tools count on from it without a collision, at
  the number that outgrows four digits too;
- *renderings*: what the job passes comes up, and the three files agree about who
  there is, where they sit and which issuer names them.

The hazards behind these, each at its line, are listed in `PROJECT.json`.

## 2. Modules

| Module | Models | Uses |
| --- | --- | --- |
| `Policy` | layer 2's chain and layer 3's declarations, as operators | |
| `PurchaseToPay` | handlers, stores, PostgreSQL, dispatch, gate 5, pools | `Policy`; `PurchaseChain` as abstract specification |
| `PurchaseChain` | what the server promises about a purchase, with no calls or tables | |
| `KeySet` | one replica's key set, its callers and the key server | |
| `Tokens` | `validate`, as operators either side of its one await | `Policy` |
| `GateChain` | one replica's gates for several requests at once, and what stands behind them | `Tokens`; an instance of `KeySet` over the same state; `Admission` as abstract specification |
| `Admission` | what the gate chain promises, with no gates in it | `Policy` |
| `Fixtures` | the matrix reader, the rendering, the load, the mint's text | `Policy` |
| `Seed` | the author, the two generators, the job and the start of a stack | |
| `PurchaseToPayProofs` | the inductive invariant of `PurchaseToPay` and its theorems | `PurchaseToPay` |
| `KeySetProofs` | the inductive invariant of `KeySet`, the requests a call waits for | `KeySet` |
| `PurchaseAnswersProofs` | what an answer once given goes on to mean | `PurchaseToPayProofs` |
| `PurchaseChainProofs` | the refinement of `PurchaseChain` | `PurchaseAnswersProofs` |
| `GateChainProofs` | the inductive invariant of `GateChain`, the refinement, the causes of refusals | `GateChain`, an instance of `KeySetProofs` |
| `IdentifierProofs` | the text of a number, whatever the number | `Fixtures` |
| `FixturesProofs` | the inductive invariant of `Fixtures` and its theorems | `IdentifierProofs` |
| `SeedProofs` | the inductive invariant of `Seed` and its theorems | `Seed` |
| `MCPurchaseToPay`, `MCKeySet`, `MCGateChain`, `MCFixtures`, `MCSeed` | small instances for TLC | |

Definitions keep the source's names where TLA+ allows. A definition whose comment
starts with "Mutant:" is what a plausible bug would make of the definition after
it. It is used by nothing: it records that the property named for it in
`PROJECT.json` would notice.

### PurchaseToPay: state and actions

`pc[c]` is the place of a call's handler, one value per await:

| `pc` | The call is about to |
| --- | --- |
| `idle` | arrive |
| `next` | hydrate and decide its next item (or list the rows) |
| `write` | check a connection out for the writing store method |
| `update` | run `_DECIDE` or `_RECORD` |
| `mint` | take the table's advisory lock |
| `insert` | run the `INSERT ... SELECT` that mints the identifier |
| `commit` | leave the connection block |
| `answered` | nothing: `response[c]` says what it was told |

`requisition`, `purchase_order` and `invoice` are what is *committed*. A
transaction's own writes are not stored: they follow from `pc`, `request` and
`minted`, and `Publish` applies all of them at the commit. A row lock is derived
the same way (`RowHeld`: some call is past its UPDATE of that row), and so is the
number of connections in use. The advisory locks are a variable, `mintLock`.

| Action | Code |
| --- | --- |
| `Receive` | gate 5, then the handler up to its first await: `decide_call` where the handler starts with it, and argument checks |
| `ListRows`, `GetRow` | the read handlers |
| `DecideItem`, `RecordItem` | hydrate (`by_id`) and `decide_item`; for a batch, the decision verb once an item is permitted |
| `Connect` | `pool.connection()` in `create`, `decide`, `bill` |
| `DecideRow`, `BillRow` | `UPDATE ... AND status = ...`, which waits for the row and evaluates its predicate on what is committed then; no match yields `already_decided`, `already_invoiced` |
| `AcquireMint`, `Insert`, `MintOverflow` | the advisory lock, the mint, the int4 overflow |
| `Commit` | commit, release, and the outcome the handler yields |
| `CommitUnacknowledged` | the commit takes effect, the connection is lost, the call fails |
| `Fail` | any statement, checkout or task fails: rollback, internal error |

`Fail` may strike at every await of a call in `MayFail`. It stands for a database
error, a pool timeout and a cancelled request; a replica that crashes is several
of them. Four simplifications are exact here. `decide_item` is pure and runs
between two awaits, so hydrating and deciding is one action. The read-back after
an UPDATE sees the transaction's own row, so it is part of the UPDATE. The item's
reading transaction holds its connection for one statement, so it needs a free
connection and takes none away. A batch walks `request[c].ids`, and the outcomes
yielded so far say which item is next.

The schema's UNIQUE constraints and primary keys have no branch in the model. They
are "the backstop rather than the mechanism" (`repository.py`), and that is what
`ChainIntact` and `MintsAreFresh` establish: a second order for a requisition, a
second invoice for an order and a repeated identifier never reach them.

### KeySet: state and actions

`pc[r]` is `answered`, `queued` (for the lock), `discovery`, `keys` (a request is
out) or `reply` (an answer is on its way). `queue` is the `anyio.Lock`: its owner,
then the rest in order. `Call` is a `signing_key` that misses; a hit changes
nothing and is not an action. `HitUnderLock`, `RefusedByCooldown` and `StartFetch`
are the three ways on from the lock; `DiscoveryArrives`, `KeysArrive`, `FetchFails`
and `Cancelled` the ways out of a fetch. `KeysServed` and `Rotate` are the
authorization server: it answers with the keys it has then, which may have been
withdrawn when they arrive. Durations count up to the largest bound anything
compares them with, so time needs no limit of its own.

`app.py` gives httpx one number, and httpx makes it a limit on each phase of a
request (a connection of the pool, connecting, writing) and on each read of the
answer, not on the request. So `silent` is how long the request in flight has made no
progress. `Progresses` is a phase that ends or a read that returns something, as often
as the server likes; `Tick` does not pass once the silence has reached `Timeout`, nor
while the lock's owner can run (the event loop takes no time); and no duration of a
request is bounded anywhere. What is bounded is how many requests a call waits for:
`Sent` counts one more for everybody in the queue whenever one is sent.

`sinceSent`, `ever`, `always`, `basis`, `outcome`, `behind` and `waited` are history:
they let the properties speak of the past, and no guard of the code reads them.

`metadata` is called by `_refetch` alone, so discovery happens under the lock.

### GateChain: state and actions

`stage[r]` is where a request is:

| `stage` | The request is |
| --- | --- |
| `away` | not there |
| `origin` | at gate 1 |
| `shape` | having its body drained by gate 2 |
| `keys` | in `validate`, in the key set |
| `app` | past the last gate, with its body still to be replayed |
| `running` | in the protocol package or in dispatch |
| `answered` | answered, with an answer its client may still use |

`ask[r]` is the request (headers, body, token), `got[r]` the parts of its body that
have been read, `here[r]` whether its client is still connected, `state[r]` the ASGI
state the gates leave for each other (`called`, `proven`, `principal`), `answer[r]`
what it was told. `left[r]` and `ahead[r]` are how long its token has left and how
far ahead its `nbf` or `iat` lies; `fresh[r]` is how long a listing may still be
cached. `Tick` moves all of these, and it is the key set's own `Tick`, so the wait
for a key and the life of a token are on one clock.

| Action | Code |
| --- | --- |
| `OriginGate` | gate 1, and for all but a POST everything up to the next await |
| `ReadPart`, `ReadDisconnect` | one message in `_buffer`; the last one runs gate 2, and on to the next await |
| `ShapeGate`, `TokenGate`, `Judged`, `ScopeGate` | operators used by the actions: no gate awaits anything but the body and the key, so a chain of them is one step |
| `Resolved` | `signing_key` returns or raises, and the rest of `validate`, the directory and gate 5 with it |
| `Fetch` | the key set's steps that end no call |
| `Cancelled` | a request whose client has gone is torn down in the key set |
| `TakeBody`, `Abandon` | the package reads the body from the replaying channel, then listens for a disconnect on it |
| `Listing`, `Call` | `_listing`, and `_called` as far as the gates decide its answer |
| `Packaged` | what the package answers without dispatch: discovery, parse errors, unknown methods |
| `Come`, `HangUp`, `Forget`, `Issuer`, `Tick` | the client, the authorization server, the clock |

`Keys == INSTANCE KeySet` shares its variables: a request in `keys` is a call of the
key set, and the outcome of `signing_key` is read in the step that leaves the lock,
as it is in the code, where nothing awaits between the two. `Shaped` records the
called tool on either leg and the proven method on the modern one only; `MethodRead`
is what the package makes of the body it is replayed, so a gate that judged
something else would show.

The body's `params` are the one name a tool call carries (the other name-bearing
methods have no registered handler). An unregistered tool's name, a name that is no
string, a body that is no JSON object and a request that is no POST are all among
the requests.

### Admission

`standing[r]` is away, outside or inside. `Judge` lets a request in iff `MayEnter`
holds of what it is, of its whole body, of its token's times and of the keys held,
all in that step. `Withdraw` turns one away unjudged only if its client has hung
up. `MayEnter` is written from what each gate is for, in no order and with no state
passed along, so it shares nothing with the chain but the names of tools and people.

### Fixtures

`matrix` is the rows accepted so far and `phase` what became of them. `read_matrix`
takes one row and refuses it or not (`_given`, `_expect`, the duplicate and the
hydrating-tool checks); `load` numbers the fixtures as `fixtures_for` does and puts
them in `tables`, or meets what the schema refuses. That is of two kinds: `KeysHold`
is the keys and links within the chain, which the numbering is answerable for;
`DatabaseTakes` is what the schema asks of each row whatever its number, an amount
that fits `numeric(12, 2)` and is still positive there, a cost centre, a vendor and
people the organisation's tables have, texts PostgreSQL can store. `_given` looks
into none of these but the sign of the amount. `insert`, `decide` and `bill` are
the three statements that mint. An identifier is a sequence of digits in base `Base`
padded to `Width`, ten and four in the code: `lpad` cuts what is too long, as
PostgreSQL's does, `Digits` and `Number` (over the `Prefixes` of a text) are the
conversions, and `_next_identifier`
and `_identifier` are put together from them as the SQL fragment and the f-string
are. `at_the_ceiling` is the context manager's entry, and its exit is `load`.

### Seed

`seed` is the authored file, `tree` the three renderings in the working tree,
`shipped` what the job *Seed renders clean* passed last. `Edit` replaces the seed at
any moment. `identity.main` is three steps, `IdentityReads`, `WriteDirectory`,
`WriteUsers`, and may be `Interrupted`; `organisation.main` writes one file.
`Merge` is the job: both generators would run and change nothing. `DirectoryBuilds`,
`RealmImports`, `OrganisationLoads` and `VendorsBuild` are the four readers, as
conditions on a rendering. The refusals of the generators are the guards
`read_identity_seed` and `read_organisation`; a refusal is a step not taken. A
rendering is a set of numbered lines, so a duplicated row is two of them.

### PurchaseChain

Its one variable is the list of purchases, each with its partition, amount,
submitter, stage, approver and recorder; its actions are `Submit`, `Approve`,
`Reject` and `Bill`, each allowed to whoever the tools' declarations entitle. It
restates those rules for itself instead of reusing the policy chain, so a chain
that lets the wrong person through is a violation. `PurchaseToPay` implements it
under the mapping `ChainsOf`, which joins the three tables: every commit is one
abstract step and everything else a stutter.

## 3. Runs

| Run | Instance | What it shows |
| --- | --- | --- |
| `racing_decisions` | 3 calls, all `approve_requisition`, on three submitted rows of two partitions; batches of two in every order, repetitions, foreign and absent rows, an unknown verb, an empty batch, one past the ceiling, a token without the scope | `OneWinnerPerDecision`, `OneAnswerPerItem`, `InvalidParamsWroteNothing`, `NoSelfInflictedError`, `ChainIntact`, `MintsAreFresh`, types |
| `chain_end_to_end` | 4 calls of all five tools on tables that start empty, by people who may and people who may not | `ImplementsChain`, `NothingForeignIsDisclosed`, `ChainIntact`, `MintsAreFresh` |
| `faults_and_waiting` | 3 calls, two replicas with one connection each, any call may fail at any await, four seeded rows of which one is approved, next requisition past `MaxInteger`; fairness | `ChainIntact`, `OneWinnerPerDecision`, `DecisionsAreFinal`, `EveryCallIsAnswered` |
| `key_set` | 2 callers, each calling again and again, 2 key identifiers; fairness | `FetchesAreSpaced`, `CacheIsOneFetch`, `RefusedKeysWereNotServed`, `WaitsForFewRequests`, `EveryCallEnds`, types |
| `queued_behind_a_fetch` | the same, without fairness | a comment of `keys.py` that does not hold, see below |
| `fruitful_fetch` | the same, without fairness | another |
| `gate_chain` | 1 request after another: a call, a listing and a discovery, each with up to two of origin, verb, parts of the body, JSON, era, headers, names, method and bearer changed, and a call whose token has one or two things wrong, or a lifetime or start near its limit | `AdmissionSpec`, `OnlyDiscoveryAnswersStrangers`, `GatesLeaveNothingToFail`, `CauseIsTheFirst`, `OnlyOurTokensCostAFetch`, types |
| `gate_races` | 2 requests, a call and a listing whose tokens are about to expire, hang-ups and cancellations; fairness | `EveryRequestIsAnswered`, `ListingDiesWithItsToken`, `AbandonedByItsClient` |
| `fixtures` | matrices of up to 2 rows out of every combination of the chain's fields and every expectation, among them rows the schema refuses for each of its reasons; 2 submissions after the load, with or without the ceiling | `ChainsAreWhole`, `OnlyRowsAreUnloadable`, `NoMintCollides`, `OneTextPerNumber`, `SortedWhileItFits`, types |
| `unreachable_fixture` | 1 row | a docstring of `fixtures.py` that does not hold, see below |
| `seed` | 17 seeds: a good one, four other legal ones, one slip of each kind, and two vendors of one name | `ShippedSeedsComeUp`, `OneCentrePerPerson`, `EveryUserResolves`, types |
| `wedged_generator` | 2 seeds, one of them with two vendors of one name | an instruction of the job that does not hold, see below |

`gate_rotation.cfg` is a further instance of `MCGateChain`, two keys an issuer
rotates freely, for trying `KeysAreTheIssuers` by hand; the property is a theorem.

Why the bounds are enough. Two calls can meet on a row, a mint lock or a
connection; the third is there to be waiting, or to have answered, while they do,
and in `chain_end_to_end` the fourth lets a purchase be raised, decided, billed
and read, or raced at one of those steps. Batches of two show every order of two
items and a repetition, and `MaximumBatch` is 2 so that three items exceed it (20 in
the code). Amounts are 1 and 2 about a `Threshold` of 1: the rule compares with
`>` only. `MaxInteger` is 4 where the overflow is wanted, with four rows seeded,
and out of reach (9) elsewhere; it stands for 2147483647. Two identifiers and two
callers make a hit after another's fetch, a miss after another's fetch, and a
rotation in between. Calls are interchangeable in the first two runs, which have
no liveness property, so TLC may use their symmetry there.

The people are those of the seed but one. `olive` audits, approves and records in
another partition. Nobody in the seed does, and `approve_requisition.py` notes
that a bypass wrongly declared on a write "would be invisible to every test"
for that reason; nothing refuses a directory that has such a person, and with her
in the instance `ImplementsChain` notices (it is the mutant listed for it).

`Cooldown` and `Timeout` are both 2, as they are both ten seconds in the code: one
unit is five seconds. Two units of silence end a request and one does not, which is
enough to tell a slow request from a silent one, and a request of any length is among
the behaviours, since `Progresses` starts the silence over. `WaitBound`, the number of
callers and one more, is no bound of the model but the claim: `waited` is counted one
past it.

The gate chain keeps nothing from one request to the next but the key set, so what
one request may be is explored with one at a time and every shape, and what two do
to each other with two and few shapes: they meet in the key set's queue, where the
second waits behind a fetch. Two changes at once show every order of two gates and
of two token checks; three wrong things add no order that two do not have. Times are
small because a lifetime is compared with nothing but zero and `ListingTTL`, a start
with nothing but `Leeway`: a token of lifetime 1 or 2 expires in the queue, one that
starts `Leeway + 1` ahead comes into range there. The origins allowed are none, as
shipped. Both runs have one key, so an issuer that rotates is not in them: with two
the state space is too large for a quick run, and what rotation can do is shown by
`key_set`, where two callers meet it, and by the theorems about the chain, which
hold for any keys.

In base three and padded to two digits, nine is the first number that outgrows the
width; the ceiling is eight, and two submissions cross it. Amounts are thousandths,
so that the column's rounding to hundredths (`numeric(12, 2)`) can be met, and
`AmountLimit` is 200 hundredths for the column's 10^12, with amounts that round to
either side of it; an amount past every limit, `Infinity` among them, is refused for
the same reason. One slip
per seed is enough because each refusal and each reader looks at one field down the
list; what combine are the steps of author, generators and job, and those are free.

Deadlock is checked in every run. `PurchaseToPay` has the step `Quiet` for the
state in which every call has been answered and none arrives, so any other state
without a step is an error.

### Fairness

`PurchaseToPay.FairSpec` asks weak fairness of each call's own steps: the event
loop runs a task that can run and PostgreSQL executes its statements. A step that
waits for a lock or a connection is not enabled, and weak fairness is enough all
the same: calls are finite and each holder goes on to finish. It says nothing of
calls arriving or failing. PostgreSQL grants locks in order, which is more than
the property needs.

`KeySet.FairSpec` asks it of the lock's owner (the event loop), of `Tick` (time
passes) and of `TimesOut` (a silence as long as the timeout is given up on). Nothing
forces the authorization server to answer, a phase to end, a caller to hang up or the
keys to rotate. One behaviour then keeps a call waiting for ever: a server that goes
on dripping one answer, each read within the timeout. The code has no limit that ends
it (`DEFAULT_TIMEOUT_SECONDS` says "a hung authorization server must fail this request,
not hold it", which is so of a server that hangs), so `EveryCallEnds` and
`EveryRequestIsAnswered` make that exception and no other: `DripFed`, a request that is
never over and progresses again and again. Without the exception TLC finds that
behaviour, and without the fairness of `TimesOut` a hung server.

`GateChain.FairSpec` asks the same of time and of the timeout, and weak fairness of
each request's steps inside the server (`Prompt`): the gates, the lock's owner, the
package. It asks nothing of a client: `ReadPart` has no
fairness, since a client may stop sending and the code sets no limit, and
`EveryRequestIsAnswered` starts once the body has been read. Nor does it ask for a
cancellation or a hang-up. `Fixtures` and `Seed` state no liveness: a person decides
whether anything happens next.

### What the repository says and the code does not do

- `keys.py:149` says a request that queued behind a fetch "must see its result
  rather than start a second one". It does re-read the keys; but the cooldown (10 s)
  is counted from the start of the fetch, and a fetch is up to two requests, each with
  10 s for every phase and every read. After a slow fetch that succeeded without this request's key, the request
  starts a second one. `QueuedSeesTheResult` is the comment, and
  `queued_behind_a_fetch` refutes it. What does hold is `FetchesAreSpaced`:
  two fetches never start within one cooldown.
- `keys.py:66` calls the cooldown "how long a failed or fruitless fetch suppresses
  the next one". Every fetch does. `fruitful_fetch` shows a key refused after a
  rotation that followed a successful fetch. What does hold is
  `RefusedKeysWereNotServed`: the refused key was not published all the time since
  that fetch began, unless the fetch failed.
- `fixtures.py:229` says `read_matrix` refuses "what no run of the tools could
  produce". It refuses chains that are not whole, and looks at nobody in them: a
  fixture submitted, approved and recorded by one person is accepted, and so is one
  charged to a centre its submitter is not in (that centre, and that the people are
  known, is checked of the committed table in `tests/matrix`; what they may do is not).
  `EveryFixtureIsReachable` asks the policy chain, and `unreachable_fixture` refutes it. What does hold is
  `ChainsAreWhole`.
- `ci.yml:388` tells whoever finds a drifted rendering to "edit the source and re-run
  the generators". `read_organisation` lets two vendors have one name; the next
  import of the package, which includes the next run of the generator, reads the
  rendering and raises. From there the advice cannot be followed, whatever the seed
  says (`wedged_generator`). The job does refuse such a rendering
  (`ShippedSeedsComeUp`): it is the author's tree that is stuck.

## 4. Proofs

### PurchaseToPay

`PurchaseToPayProofs` proves, of every set of calls and requests, every seed that
meets `SeedAssumption`, every directory, pool size, batch ceiling and integer
limit:

| Theorem | Statement |
| --- | --- |
| `TypeCorrect` | `Spec => []TypeOK` |
| `ChainsStayWhole` | `Spec => []ChainIntact` |
| `MintsStayFresh` | `Spec => []MintsAreFresh` |
| `DecisionsStayFinal` | `Spec => DecisionsAreFinal` |

The assumptions are the three named in the modules. `DirectoryAssumption`: every
person has a partition and a set of roles. `ServingAssumption`: the requests offered
are requests, `NoCall` is no call, bounds are positive. `SeedAssumption`: the seeded
rows are well typed and hold whole chains, which is what `fixtures._given` refuses
the rest for. TLC evaluates all three on every run.

None of these invariants is inductive by itself. `ChainIntact` survives a commit
only if the row being decided is still `submitted` and the identifier is still
free, and both were established several steps earlier. The inductive invariant is

    IInv == TypeOK /\ (\A c : Standing(c)) /\ Locks /\ (\A c : RowOf(c)) /\ ChainIntact

- `Standing(c)`: what `pc` says of the call: which tools can be there, and that a
  call that is not done still has an item to answer;
- `Locks`: the holder of a table's advisory lock is the one call between
  taking it and its commit, and what it inserted is the identifier after
  the last *committed* one. That is the meaning of holding the lock to the end of
  the transaction: nobody else can commit to that table meanwhile;
- `RowOf(c)`: a call past its UPDATE is at a row that exists, has the status its
  predicate asked for, and is no other such call's row: the row lock.

`PublishPublishes` and its parts show that each of the three kinds of commit
leaves whole chains and touches one row, and that is where the interplay of row
locks, mint locks and `ChainIntact` lies. Each other action moves one call and
leaves the tables alone, for which `MovingKeepsIInv` and `LeavingKeepsIInv` are
general lemmas. `MintsAreFresh` follows from `Locks`, and `DecisionsAreFinal` from
what the commits leave. TLC checked `IInv` before it was proved, on the three
instances.

### The answers of PurchaseToPay

`PurchaseAnswersProofs` proves, from the same assumptions:

| Theorem | Statement |
| --- | --- |
| `AnswersHold` | `Spec => [](IInv /\ AInv)` |
| `OnlyOneDecides` | `Spec => []OneWinnerPerDecision` |
| `BatchesAreAnsweredInPlace` | `Spec => []OneAnswerPerItem` |
| `InvalidParamsAreHarmless` | `Spec => []InvalidParamsWroteNothing` |
| `ErrorsAreNotOurs` | `Spec => []NoSelfInflictedError` |
| `NothingForeignLeaks` | `Spec => []NothingForeignIsDisclosed` |

An answer speaks of rows, and rows move on after it. The invariant adds to `IInv`
what may still be relied on:

    AInv == (\A c : Admitted(c) /\ Heard(c) /\ Replied(c)) /\ OneWinner

- `Admitted(c)`: the gates let the call in, and from its UPDATE on the policy chain
  would still permit it the row as it stands: the chain was shown the row in an
  earlier transaction, and what it looked at (partition, amount, submitter,
  approver) no commit rewrites;
- `Heard(c)`: each outcome yielded is `Sound`: a refusal that tells more than "not
  found" is about a row in its caller's scope, a permitted decision about a row
  that has the status asked for, with the order this call minted;
- `Replied(c)`: how the response follows from the outcomes;
- `OneWinner`: no two answers claim one decision. A second claim would need a row
  that is `submitted` at its UPDATE, and `Took` says the first one's is not.

`DecideItemSays` is what the policy chain as a whole may disclose, whatever the
tool; `StepsAdvance` (in `PurchaseToPayProofs`) is what keeps an outcome sound, that
columns are never rewritten and statuses move once.

### PurchaseChain

`PurchaseChainProofs` proves `ServerImplementsChain`, `Spec => ImplementsChain`: the
server refines `PurchaseChain` for any calls, any directory and any seeded chains.
The mapping joins three tables, so the work is to show which purchase a commit
moves: the joins of `ChainsOf` are functions because chains are whole, an insert
adds a purchase or moves one and leaves the others' joins as they were, and an
operation's entitlement, which `PurchaseChain` restates without the policy chain,
follows from `Admitted` in the state of the commit.

### KeySet

`KeySetProofs` proves, for every finite set of concurrent calls, every set of keys
and any positive cooldown and timeout:

| Theorem | Statement |
| --- | --- |
| `TypeCorrect` | `Spec => []TypeOK` |
| `CacheFromOneFetch` | `Spec => []CacheIsOneFetch` |
| `FetchesSpaced` | `Spec => FetchesAreSpaced` |
| `CooldownRefusesRightly` | `Spec => RefusedKeysWereNotServed` |
| `WaitingIsBounded` | `Spec => []WaitsForFewRequests` |

The inductive invariant says what the lock is for (`Queued`: the queue is exactly
the calls that wait, without repetitions, and only its head fetches), what a document
in flight may hold (`Document`: it was served since the fetch began), and what the
last fetch left (`Ended`: if it answered, everything published all along is held).
`RefusedKeysWereNotServed` is `Ended` at the moment of a refusal.

`WaitsForFewRequests` needs an invariant of another kind, a budget. A call at position
`i` of the queue has waited for `waited` requests; before it are those of the `i - 1`
calls ahead of it, the one the head has still to send (`FirstToSend`) and the discovery
document's, if nobody has brought that yet (`StillToDiscover`). `Waits` says these add
up to no more than `WaitBound`. A request that is sent moves one unit from what is
before everybody to what they have waited for; a call that leaves the queue, from
wherever it stood, brings nobody further from the lock; a call that joins finds room,
because the queue has no repetitions (`RoomInTheQueue`, a pigeonhole). How long any of
those requests takes does not enter.

### GateChain

`GateChainProofs` proves, for any finite set of requests of any shape, any tokens,
any directory and any times:

| Theorem | Statement |
| --- | --- |
| `ReplicaRunsAKeySet` | `Spec => KS!Spec`: the key set inside the chain behaves as `KeySet` |
| `Implements` | `Spec => AdmissionSpec`: the chain refines `Admission` |
| `TypeCorrect` | `Spec => []TypeOK` |
| `StrangersOnlyDiscover` | `Spec => []OnlyDiscoveryAnswersStrangers` |
| `NothingLeftToFail` | `Spec => []GatesLeaveNothingToFail` |
| `ListingsDie` | `Spec => []ListingDiesWithItsToken` |
| `OnlyTheirClientsAbandon` | `Spec => []AbandonedByItsClient` |
| `SignedByTheIssuer` | `Spec => KeysAreTheIssuers` |
| `ForeignTokensCostNothing` | `Spec => []OnlyOurTokensCostAFetch` |
| `FirstCauseIsTold` | `Spec => CauseIsTheFirst` |

The first of them lets what is proved of the key set be used here: `KeySetSteps`
shows that every step of the chain is a step or a stutter of `KeySet` (a request's
body, gates and answer are none of the key set's business), so `KeySet`'s inductive
invariant is an invariant of the chain, and `SignedByTheIssuer` follows from
`CacheIsOneFetch` in it.

The chain's own invariant says, for each request,

    IInv == Shapes /\ (\A r : Stands(r)) /\ (\A r : Answered(r))

`Shapes` is the types; `Stands(r)` is what may be relied on at each stage: what gate
2 wrote into the state speaks of the body that will be served (`Noted`), whoever
waits for a key has passed the gates before it (`Through`) and has a token worth
looking up (`Worth`), and whoever is inside is a discovery or a known person entitled
to what they call (`Known`); `Answered(r)` is what an answer given to a client still
means. The gates are one step, so most of the proof is lemmas about operators:
`FirstFailingSays` (a list of checks passes iff all of them do), `BeforeTheKeySays`
and `AfterTheKeySays` (which tokens those are), `OnePolicy` (scope gate and admission
ask the same), and then `ScopeGateSettles`, `JudgedSettles`, `TokenGateSettles` and
`ShapeGateSettles`, each saying that the gate either turns the request away where
`MayEnter` fails or passes on where it holds. `Implements` needs them at the end of
the wait: what `BeforeTheKey` found is about the token alone and is still true, and
everything that time, the client or the issuer can change is looked at after it.

`FirstCauseIsTold` is about the same wait. The order the documentation gives has five
kinds of fault and the code has fourteen checks on two sides of an await:
`StructureFirst`, `KeyNext` and `ClaimsLast` say that the check that answers is the
fault of the least kind (`FirstFailingIsFirst`), with the clocks and keys of the
step that answers, and `StepsTellTheFirst` that no other step tells anybody a cause.

The assumptions are `GateAssumption` (requests are requests, absence is not a person
and no key's name, times are natural numbers, the key set's two positive) and
`Policy`'s.

### Fixtures

`IdentifierProofs` is about the conversions alone, in any base and to any width:

| Theorem | Statement |
| --- | --- |
| `IdentifierText` | `_identifier(n)` is digits, as wide as the width, and reads back as `n` |
| `TextsInOrder` | of two numbers, the lesser has the lexically lesser text, if the greater one's fits the width |

`Digits` and `Prefixes` are recursive functions. What such a function is for every
number is an induction, and the library's induction theorems cannot be instantiated
here; `LeastNumber` (a set of numbers has a least one) and `EveryNumber` (a set with
zero and with the successor of each of its numbers has all of them) state it of sets
instead, and `WFMin` of the library proves the first of them. `SomethingWrites`
and `AllWriteTheSame` then give `Digits` its defining equation, and everything about
padding and cutting follows from `NumberOfAppend`.

`FixturesProofs` proves, for any base, width, matrix length and number of
submissions, and any rows an author may write:

| Theorem | Statement |
| --- | --- |
| `MatricesNumberSoundly` | `Spec => []FInv` |
| `TablesAreTyped` | `Spec => []TypeOK` |
| `LoadedChainsAreWhole` | `Spec => []ChainsAreWhole` |
| `RefusedForARow` | `Spec => []OnlyRowsAreUnloadable` |
| `MintsNeverCollide` | `Spec => []NoMintCollides` |
| `NumbersHaveOneText` | `Spec => []OneTextPerNumber` |
| `SortedUpToTheWidth` | `Spec => []SortedWhileItFits` |

The inductive invariant says what the reader has let in (`Accepted`), that the tables
are whole chains (`Whole`), and that identifiers are texts of numbers (`AllWritten`):
after the load and outside `at_the_ceiling`, of the numbers from one on
(`AllNumbered`). The last is needed for the one step that chooses its own identifier:
`at_the_ceiling` looks for `ABSENT` among the requisitions only, and would meet it
among the orders or invoices if those could run ahead. They cannot, since each has
a requisition of its own and all three tables are numbered without gaps
(`CeilingAdded`, by `NoMoreLinks`). A mint needs less: `Max` is a greatest number
(`GreatestNumber`), and one more than it is written by no text in the table
(`Minting`), on either side of the width. `OrdinalsNumber` is the counting: the
ordinals of a finite set of positions are the numbers from one to its cardinality.

`RefusedForARow` is `RenderingIsWhole` read the other way: the rendering of an accepted
matrix keeps every key, so a load that fails does so for one of its rows.

The assumptions are `BaseAssumption` (a base of two or more, a width of one or more),
`LimitAssumption` (the column has a limit)
and `EntriesAssumption` (a row gives at most one fixture, whose amount is a number).

### Seed

`SeedProofs` proves, for any set of seeds that meets `SeedsAssumption`:

| Theorem | Statement |
| --- | --- |
| `RenderedFromAccepted` | `Spec => []SInv` |
| `TreesAreTyped` | `Spec => []TypeOK` |
| `ShippedSeedsAreSound` | `Spec => []ShippedSeedsComeUp` |
| `OneFactOfTheCentre` | `Spec => []OneCentrePerPerson` |
| `WhoSignsInIsKnown` | `Spec => []EveryUserResolves` |

`SInv` says where each rendering came from: the directory and the users each from some
seed `read_identity_seed` accepts, not always the same one, since a run may be
interrupted between them and the seed edited; what was shipped from a single seed that
both readers accept. The rest is lemmas about the readers and the renderings:
`UniqueTellsApart` (a column without repetitions), and what each of the four readers
of a rendering would refuse, traced back to a refusal of one of the two generators.
`SeedsAssumption` is the types of a parsed seed: sequences of records.

### Only model-checked

- All liveness, which is out of the prover's reach: `EveryCallIsAnswered`,
  `EveryCallEnds`, `EveryRequestIsAnswered`.
- The four properties that do not hold: a counterexample on a small instance is all
  there is to say.

Every other property of a run is stated by a theorem.

## 5. Not modelled

- *Which tools a listing names*: one application of `permits_scope` to each, with
  nothing in between. Its principal and its lifetime are modelled.
- *The metadata document, the configuration, headers and wording*: they change no
  state.
- *What is inside a token or a body* beyond what the checks tell apart: base64,
  signatures and JSON are PyJWT's and the standard library's; a field of the token
  says whether it verifies, and under which key.
- *The gates and the handlers in one module*. `GateChain` ends where a call reaches
  its handler and `PurchaseToPay` begins with gate 5; both use `Policy`, and a
  principal is all that goes from one to the other. Composing them would multiply two
  state spaces that share no variable.
- *Amounts as decimals, vendors, currencies in a call's arguments*: shape checks that
  end in "invalid params" before anything is read or written; one bit, `usable`.
- *Joins for labels, JSON rendering, logging, the remedy fields of a refusal.*
- *The two rendered tables, the transcripts and the README's regions*: renderings of
  documentation, which nothing running reads. The realm's clients and policies:
  configuration.
- *PostgreSQL, psycopg_pool, anyio, httpx, nginx, Keycloak*: modelled only as far
  as the code relies on them.

## 6. Plan

The order is by what the system is for, and all of it is done.

1. `Policy`, `PurchaseToPay`: the decisions and the writes, interleaved.
2. `PurchaseChain` and the refinement.
3. Faults, two replicas, waiting and liveness.
4. `KeySet`.
5. `PurchaseToPayProofs`: types, whole chains, fresh identifiers, final decisions.
6. `Tokens`, `GateChain` over `KeySet`, `Admission` and the refinement, with the
   listing and its lifetime.
7. `Fixtures`, with the text of identifiers; `Seed`.
8. `KeySetProofs`, `GateChainProofs`.
9. `PurchaseAnswersProofs`, `PurchaseChainProofs`: what answers go on to mean, and the
   refinement for every directory.
10. `SeedProofs`; `IdentifierProofs` and `FixturesProofs`, the text of identifiers
    included.
