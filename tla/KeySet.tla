-------------------------------- MODULE KeySet --------------------------------
(***************************************************************************)
(* One replica's key set (transport/keys.py): the issuer's signing keys,   *)
(* held in memory, refetched under a lock on a miss, at most once per      *)
(* cooldown, from an authorization server that may rotate its keys, answer *)
(* late, fail or hang.                                                     *)
(*                                                                         *)
(* Time is counted in units, and only as far as anything can tell one      *)
(* duration from a longer one, so the clock itself needs no bound.  The    *)
(* timeout is httpx's: it limits each phase of an outbound request and     *)
(* each wait for more of its body, never the request as a whole.           *)
(***************************************************************************)
EXTENDS Integers, SequencesExt

CONSTANTS
  Requests,   \* concurrent calls of signing_key, each made again and again
  Kids,       \* key identifiers a token may name
  Cooldown,   \* DEFAULT_COOLDOWN_SECONDS
  Timeout     \* DEFAULT_TIMEOUT_SECONDS, of silence

ASSUME TimingAssumption == {Cooldown, Timeout} \subseteq Nat \ {0}
ASSUME RequestsAssumption == IsFiniteSet(Requests)

VARIABLES
  keys,          \* _keys
  haveMetadata,  \* _metadata is not None
  sinceAttempt,  \* time since _last_attempt, up to Cooldown; Cooldown for None
  queue,         \* _lock: its owner, then those waiting for it in order
  pc,            \* where each signing_key call stands
  kid,           \* the identifier its token names
  silent,        \* how long the outbound request in flight has made no progress
  reply,         \* the key set document in flight
  published,     \* the authorization server's current keys
  waited,        \* history: requests each call has waited for, up to WaitBound + 1
  sinceSent,     \* history: time since a fetch was started, up to Cooldown
  ever,          \* history: keys published at some time since that start
  always,        \* history: keys published all the time since that start
  basis,         \* history: what ever was when the keys held arrived
  outcome,       \* history: how the last fetch ended
  behind         \* history: calls queued behind a fetch that has not failed

cache == <<keys, haveMetadata, sinceAttempt>>
history == <<sinceSent, ever, always, basis, outcome, behind>>
waits == <<silent, waited>>
vars == <<cache, queue, pc, kid, waits, reply, published, history>>

Fetching == {"discovery", "keys", "reply"}
Waiting == {"queued"} \cup Fetching
PCs == {"answered"} \cup Waiting

FetchUnderWay == \E r \in Requests : pc[r] \in Fetching

WaitBound == Cardinality(Requests) + 1

UpTo(n, bound) == IF n < bound THEN n + 1 ELSE bound

\* An outbound request is sent, and everyone in the queue waits for its end.
Sent ==
  /\ silent' = 0
  /\ waited' = [s \in Requests |-> IF pc[s] \in Waiting
                                  THEN UpTo(waited[s], WaitBound + 1) ELSE 0]

-----------------------------------------------------------------------------
(* signing_key *)

cooldown_elapsed == sinceAttempt >= Cooldown

\* The call ends, with a key or without, and leaves the lock.
Leave(r) ==
  /\ pc' = [pc EXCEPT ![r] = "answered"]
  /\ \E i \in DOMAIN queue : queue[i] = r /\ queue' = RemoveAt(queue, i)
  /\ waited' = [waited EXCEPT ![r] = 0]

\* A call that hits answers at once and changes nothing; one that misses queues
\* for the lock.
Call(r) ==
  /\ pc[r] = "answered"
  /\ \E k \in Kids \ keys : kid' = [kid EXCEPT ![r] = k]
  /\ pc' = [pc EXCEPT ![r] = "queued"]
  /\ queue' = Append(queue, r)
  /\ waited' = [waited EXCEPT ![r] = IF FetchUnderWay THEN 1 ELSE 0]
  /\ behind' = IF FetchUnderWay THEN behind \cup {r} ELSE behind
  /\ UNCHANGED <<cache, silent, reply, published, sinceSent, ever, always, basis, outcome>>

Owner(r) == pc[r] = "queued" /\ Head(queue) = r

\* The lock's owner re-reads the keys, then asks the cooldown.
HitUnderLock(r) ==
  /\ Owner(r) /\ kid[r] \in keys
  /\ Leave(r)
  /\ UNCHANGED <<cache, kid, silent, reply, published, history>>

RefusedByCooldown(r) ==
  /\ Owner(r) /\ kid[r] \notin keys /\ ~cooldown_elapsed
  /\ Leave(r)
  /\ UNCHANGED <<cache, kid, silent, reply, published, history>>

\* Mutant: the attempt is not recorded before the request.
StartFetchUnrecorded(r) ==
  /\ Owner(r) /\ kid[r] \notin keys /\ cooldown_elapsed
  /\ Sent
  /\ pc' = [pc EXCEPT ![r] = IF haveMetadata THEN "keys" ELSE "discovery"]
  /\ sinceSent' = 0 /\ ever' = published /\ always' = published
  /\ outcome' = "pending"
  /\ behind' = behind \ {r}
  /\ UNCHANGED <<cache, queue, kid, reply, published, basis>>

\* _refetch records the attempt before it asks for anything.
StartFetch(r) ==
  /\ Owner(r) /\ kid[r] \notin keys /\ cooldown_elapsed
  /\ sinceAttempt' = 0
  /\ Sent
  /\ pc' = [pc EXCEPT ![r] = IF haveMetadata THEN "keys" ELSE "discovery"]
  /\ sinceSent' = 0 /\ ever' = published /\ always' = published
  /\ outcome' = "pending"
  /\ behind' = behind \ {r}
  /\ UNCHANGED <<keys, haveMetadata, queue, kid, reply, published, basis>>

\* Mutant: the discovery document is asked for by every fetch.
DiscoveryForgotten(r) ==
  /\ pc[r] = "discovery"
  /\ Sent
  /\ pc' = [pc EXCEPT ![r] = "keys"]
  /\ UNCHANGED <<cache, queue, kid, reply, published, history>>

\* The discovery document is held for the life of the process, and the key set
\* is asked for next.
DiscoveryArrives(r) ==
  /\ pc[r] = "discovery"
  /\ haveMetadata' = TRUE
  /\ Sent
  /\ pc' = [pc EXCEPT ![r] = "keys"]
  /\ UNCHANGED <<keys, sinceAttempt, queue, kid, reply, published, history>>

\* A fetch ends with a document.
Arrived(r) ==
  /\ pc[r] = "reply"
  /\ Leave(r)
  /\ reply' = {}
  /\ basis' = ever
  /\ outcome' = IF kid[r] \in reply THEN "fruitful" ELSE "fruitless"
  /\ UNCHANGED <<haveMetadata, sinceAttempt, kid, silent, published,
                 sinceSent, ever, always, behind>>

\* Mutant: the keys that arrive are added to those held.
KeysMerge(r) == Arrived(r) /\ keys' = keys \cup reply

\* Mutant: a key set without the key that was wanted is thrown away.
KeysArriveIfWanted(r) ==
  Arrived(r) /\ keys' = IF kid[r] \in reply THEN reply ELSE keys

\* The key set arrives and replaces what was held, whole.
KeysArrive(r) == Arrived(r) /\ keys' = reply

\* The fetch ends without keys.
Abandoned ==
  /\ reply' = {}
  /\ outcome' = "failed"
  /\ behind' = {}
  /\ UNCHANGED <<cache, kid, silent, published, sinceSent, ever, always, basis>>

\* Mutant: a failure leaves the lock held.
FetchFailsHolding(r) ==
  /\ pc[r] \in Fetching
  /\ pc' = [pc EXCEPT ![r] = "answered"]
  /\ waited' = [waited EXCEPT ![r] = 0]
  /\ UNCHANGED queue
  /\ Abandoned

\* Any exception of the block, a timeout like any other, is logged and leaves the
\* keys as they were.
FetchFails(r) ==
  /\ pc[r] \in Fetching
  /\ Leave(r)
  /\ Abandoned

\* The caller hangs up: cancellation is not caught, and releases the lock.
Cancelled(r) ==
  /\ pc[r] \in Waiting
  /\ Leave(r)
  /\ IF pc[r] \in Fetching
     THEN Abandoned
     ELSE UNCHANGED <<cache, kid, silent, reply, published, history>>

-----------------------------------------------------------------------------
(* The authorization server and the clock *)

\* It answers with the keys it publishes then, which may change before they arrive.
KeysServed(r) ==
  /\ pc[r] = "keys"
  /\ reply' = published
  /\ pc' = [pc EXCEPT ![r] = "reply"]
  /\ UNCHANGED <<cache, queue, kid, waits, published, history>>

Rotate ==
  /\ \E new \in SUBSET Kids \ {{}, published} :
       /\ published' = new
       /\ ever' = ever \cup new
       /\ always' = always \cap new
  /\ UNCHANGED <<cache, queue, pc, kid, waits, reply, sinceSent, basis, outcome, behind>>

\* A request makes progress: a phase ends, or more of the answer's body comes.
\* Nothing limits how often, and with it how long a request may take.
Progresses(r) ==
  /\ pc[r] \in Fetching /\ silent > 0
  /\ silent' = 0
  /\ UNCHANGED <<cache, queue, pc, kid, waited, reply, published, history>>

\* Mutant: the client has no timeout.
TickOn ==
  /\ \A r \in Requests : ~Owner(r)
  /\ silent' = IF FetchUnderWay THEN silent + 1 ELSE 0
  /\ UNCHANGED <<cache, queue, pc, kid, waited, reply, published, history>>

\* No outbound request is silent for longer than the timeout, and the event loop
\* takes no time to run the lock's owner.
Tick ==
  /\ \A r \in Requests : ~Owner(r)
  /\ FetchUnderWay => silent < Timeout
  /\ silent' = IF FetchUnderWay THEN silent + 1 ELSE 0
  /\ sinceAttempt' = UpTo(sinceAttempt, Cooldown)
  /\ sinceSent' = UpTo(sinceSent, Cooldown)
  /\ UNCHANGED <<keys, haveMetadata, queue, pc, kid, waited, reply, published,
                 ever, always, basis, outcome, behind>>

-----------------------------------------------------------------------------
Init ==
  /\ keys = {} /\ haveMetadata = FALSE
  /\ sinceAttempt = Cooldown
  /\ queue = << >>
  /\ pc = [r \in Requests |-> "answered"]
  /\ kid \in {[r \in Requests |-> k] : k \in Kids}
  /\ silent = 0 /\ waited = [r \in Requests |-> 0]
  /\ reply = {}
  /\ published \in {{k} : k \in Kids}
  /\ sinceSent = Cooldown /\ ever = {} /\ always = {} /\ basis = {}
  /\ outcome = "none" /\ behind = {}

Own(r) ==
  \/ HitUnderLock(r) \/ RefusedByCooldown(r) \/ StartFetch(r)
  \/ DiscoveryArrives(r) \/ KeysArrive(r) \/ FetchFails(r)

Next ==
  \/ \E r \in Requests :
       Call(r) \/ Own(r) \/ Cancelled(r) \/ KeysServed(r) \/ Progresses(r)
  \/ Rotate
  \/ Tick

Spec == Init /\ [][Next]_vars

\* A request that has been silent for the timeout is given up on.
TimesOut(r) == silent = Timeout /\ FetchFails(r)

\* The event loop runs the lock's owner, time passes, and a timeout fires.  That
\* the authorization server ever answers is not assumed.
FairSpec ==
  /\ Spec
  /\ WF_vars(Tick)
  /\ \A r \in Requests :
       /\ WF_vars(HitUnderLock(r) \/ RefusedByCooldown(r) \/ StartFetch(r))
       /\ WF_vars(TimesOut(r))

-----------------------------------------------------------------------------
(* Properties *)

TypeOK ==
  /\ keys \subseteq Kids /\ reply \subseteq Kids /\ published \subseteq Kids
  /\ haveMetadata \in BOOLEAN
  /\ sinceAttempt \in 0..Cooldown
  /\ pc \in [Requests -> PCs]
  /\ kid \in [Requests -> Kids]
  /\ queue \in Seq(Requests)
  /\ silent \in 0..Timeout

\* However many callers miss at once, and whether the authorization server
\* answers, fails or hangs, it is asked at most once per cooldown.
FetchesAreSpaced ==
  [][\A r \in Requests :
       pc[r] = "queued" /\ pc'[r] \in Fetching => sinceSent >= Cooldown]_vars

\* A fetch replaces the key set whole: every key held was published at some time
\* after the attempt that brought it was made, whatever rotated since or before.
CacheIsOneFetch == keys \subseteq basis

\* The cooldown refuses no key that the last fetch could have brought: when that
\* fetch got a document, a key published ever since it began is held.
RefusedKeysWereNotServed ==
  [][\A r \in Requests :
       RefusedByCooldown(r) => outcome = "failed" \/ kid[r] \notin always]_vars

\* Whatever fails or hangs, a call waits for at most one outbound request for
\* every call there is, its own included, and for one more, which brings the
\* discovery document: nobody is overtaken, no fetch is tried again under the
\* lock, and the document is not asked for again.
WaitsForFewRequests == \A r \in Requests : waited[r] <= WaitBound

\* One answer is dripped, within the timeout each time, for ever.
DripFed(r) == <>[](pc[r] \in Fetching) /\ []<><<Progresses(r)>>_vars

\* Every call ends, even when the server never answers, because silence is given
\* up on and the lock is left on every path out of a fetch: unless the server
\* drips one answer for ever, which no timeout of the code stops.
EveryCallEnds ==
  \/ \E r \in Requests : DripFed(r)
  \/ \A r \in Requests : pc[r] \in Waiting ~> pc[r] = "answered"

\* keys.py, signing_key: "a request that queued behind a fetch must see its
\* result rather than start a second one".
QueuedSeesTheResult ==
  [][\A r \in behind : ~(pc[r] = "queued" /\ pc'[r] \in Fetching)]_vars

\* keys.py, DEFAULT_COOLDOWN_SECONDS: "How long a failed or fruitless fetch
\* suppresses the next one" - a fetch that brought its key suppresses nothing.
OnlyFruitlessFetchSuppresses ==
  [][\A r \in Requests : RefusedByCooldown(r) => outcome # "fruitful"]_vars
=============================================================================
