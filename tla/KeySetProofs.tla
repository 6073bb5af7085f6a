------------------------------ MODULE KeySetProofs ------------------------------
(***************************************************************************)
(* The inductive invariant of KeySet and what follows from it, for any     *)
(* number of concurrent calls, any set of keys, and any cooldown and       *)
(* timeout.                                                                *)
(***************************************************************************)
EXTENDS KeySet, SequenceTheorems, FiniteSetTheorems, TLAPS

-----------------------------------------------------------------------------
(* The inductive invariant *)

Outcomes == {"none", "pending", "fruitful", "fruitless", "failed"}

\* The lock is a queue without repetitions of exactly the calls that wait, and
\* only its owner fetches.
Queued ==
  /\ \A r \in Requests : pc[r] \in Waiting <=> \E i \in DOMAIN queue : queue[i] = r
  /\ \A i, j \in DOMAIN queue : queue[i] = queue[j] => i = j
  /\ \A r \in Requests : pc[r] \in Fetching => queue[1] = r

\* A document in flight was served since its fetch was started.
Document ==
  /\ reply = {} \/ \E r \in Requests : pc[r] = "reply"
  /\ reply \subseteq ever
  /\ FetchUnderWay => published \subseteq ever /\ always \subseteq published
  /\ \A r \in Requests : pc[r] = "reply" => always \subseteq reply

\* What the last fetch left behind, by how it ended.
Ended ==
  /\ outcome \in Outcomes
  /\ outcome = "none" => sinceAttempt = Cooldown
  /\ outcome = "pending" => FetchUnderWay
  /\ outcome \in {"fruitful", "fruitless"} => always \subseteq keys

IInv ==
  /\ TypeOK
  /\ Queued
  /\ Document
  /\ Ended
  /\ sinceSent = sinceAttempt
  /\ CacheIsOneFetch

-----------------------------------------------------------------------------
(* The queue *)

LEMMA RemoveAtShifts ==
  ASSUME NEW S, NEW q \in Seq(S), NEW i \in DOMAIN q
  PROVE  /\ RemoveAt(q, i) \in Seq(S)
         /\ DOMAIN RemoveAt(q, i) = 1..(Len(q) - 1)
         /\ \A j \in 1..(Len(q) - 1) :
              RemoveAt(q, i)[j] = IF j < i THEN q[j] ELSE q[j + 1]
<1> DEFINE n == Len(q)
           a == SubSeq(q, 1, i - 1)
           b == SubSeq(q, i + 1, n)
<1>1. n \in Nat /\ DOMAIN q = 1..n /\ \A j \in 1..n : q[j] \in S
  BY LenProperties
<1>2. a \in Seq(S) /\ Len(a) = i - 1 /\ \A j \in 1..(i - 1) : a[j] = q[j]
  <2>1. \A j \in 1..(i - 1) : q[j] \in S
    BY <1>1
  <2>2. /\ a \in Seq(S)
        /\ Len(a) = IF 1 =< i - 1 THEN i - 1 - 1 + 1 ELSE 0
        /\ \A j \in 1..(i - 1 - 1 + 1) : a[j] = q[1 + j - 1]
    BY <1>1, <2>1, SubSeqProperties
  <2> QED BY <1>1, <2>2
<1>3. b \in Seq(S) /\ Len(b) = n - i /\ \A j \in 1..(n - i) : b[j] = q[i + j]
  <2>1. \A j \in (i + 1)..n : q[j] \in S
    BY <1>1
  <2>2. /\ b \in Seq(S)
        /\ Len(b) = IF i + 1 =< n THEN n - (i + 1) + 1 ELSE 0
        /\ \A j \in 1..(n - (i + 1) + 1) : b[j] = q[(i + 1) + j - 1]
    BY <1>1, <2>1, SubSeqProperties
  <2> HIDE DEF n, b
  <2>3. n - (i + 1) + 1 = n - i /\ \A j \in 1..(n - i) : (i + 1) + j - 1 = i + j
    BY <1>1
  <2> QED BY <1>1, <2>2, <2>3
<1>4. RemoveAt(q, i) = a \o b
  BY DEF RemoveAt
<1> HIDE DEF n, a, b
<1>5. (a \o b) \in Seq(S) /\ Len(a \o b) = n - 1
      /\ \A j \in 1..(n - 1) : (a \o b)[j] = IF j =< Len(a) THEN a[j] ELSE b[j - Len(a)]
  <2>1. /\ (a \o b) \in Seq(S) /\ Len(a \o b) = Len(a) + Len(b)
        /\ \A j \in 1..(Len(a) + Len(b)) :
             (a \o b)[j] = IF j =< Len(a) THEN a[j] ELSE b[j - Len(a)]
    BY <1>2, <1>3, ConcatProperties
  <2>2. Len(a) + Len(b) = n - 1
    BY <1>1, <1>2, <1>3
  <2> QED BY <2>1, <2>2
<1>6. ASSUME NEW j \in 1..(n - 1)
      PROVE  (a \o b)[j] = IF j < i THEN q[j] ELSE q[j + 1]
  <2>1. (a \o b)[j] = IF j =< Len(a) THEN a[j] ELSE b[j - Len(a)]
    BY <1>5
  <2>2. CASE j < i
    BY <1>1, <1>2, <2>1, <2>2
  <2>3. CASE ~(j < i)
    <3>1. j - (i - 1) \in 1..(n - i) /\ i + (j - (i - 1)) = j + 1
      BY <1>1, <2>3
    <3>2. b[j - (i - 1)] = q[j + 1]
      BY <1>3, <3>1
    <3> QED BY <1>1, <1>2, <2>1, <2>3, <3>2
  <2> QED BY <1>1, <2>2, <2>3
<1> QED BY <1>1, <1>4, <1>5, <1>6, LenProperties DEF n

\* A queue as a function of positions, which is how the steps below see it.
LEMMA QueueType ==
  ASSUME TypeOK
  PROVE  /\ Len(queue) \in Nat /\ DOMAIN queue = 1..Len(queue)
         /\ \A i \in 1..Len(queue) : queue[i] \in Requests
BY LenProperties DEF TypeOK

\* The owner of the lock is the head of the queue.
LEMMA OwnerIsFirst ==
  ASSUME TypeOK, Queued, NEW r \in Requests, Owner(r)
  PROVE  /\ pc[r] = "queued" /\ 1 \in DOMAIN queue /\ queue[1] = r
         /\ \A s \in Requests : pc[s] \notin Fetching
<1>1. pc[r] = "queued" /\ 1 \in DOMAIN queue
  BY QueueType DEF Owner, Queued, Waiting
<1>2. queue[1] = r
  BY <1>1 DEF Owner
<1> QED BY <1>1, <1>2 DEF Queued, Fetching

\* A call that leaves takes its one place with it, and nobody overtakes.
LEMMA LeaveMoves ==
  ASSUME TypeOK, Queued, NEW r \in Requests, Leave(r)
  PROVE  /\ pc' \in [Requests -> PCs]
         /\ pc'[r] = "answered" /\ \A s \in Requests \ {r} : pc'[s] = pc[s]
         /\ queue' \in Seq(Requests)
         /\ Queued'
<1>1. pc' \in [Requests -> PCs] /\ pc'[r] = "answered"
      /\ \A s \in Requests \ {r} : pc'[s] = pc[s]
  BY DEF Leave, TypeOK, PCs
<1>2. PICK i \in DOMAIN queue : queue[i] = r /\ queue' = RemoveAt(queue, i)
  BY DEF Leave
<1>3. /\ queue' \in Seq(Requests)
      /\ DOMAIN queue' = 1..(Len(queue) - 1)
      /\ \A j \in 1..(Len(queue) - 1) :
           queue'[j] = IF j < i THEN queue[j] ELSE queue[j + 1]
  BY <1>2, RemoveAtShifts DEF TypeOK
<1> DEFINE n == Len(queue)
<1>4. n \in Nat /\ DOMAIN queue = 1..n /\ i \in 1..n
  BY <1>2, QueueType
<1> HIDE DEF n
<1>5. ASSUME NEW s \in Requests
      PROVE  pc'[s] \in Waiting <=> \E j \in DOMAIN queue' : queue'[j] = s
  <2>1. CASE s = r
    <3>1. ASSUME NEW j \in DOMAIN queue' PROVE queue'[j] # r
      <4> DEFINE was == IF j < i THEN j ELSE j + 1
      <4>1. was \in DOMAIN queue /\ was # i /\ queue'[j] = queue[was]
        BY <1>3, <1>4 DEF n
      <4> QED BY <1>2, <4>1 DEF Queued
    <3> QED BY <1>1, <2>1, <3>1 DEF Waiting, Fetching
  <2>2. CASE s # r
    <3>1. ASSUME NEW k \in DOMAIN queue, queue[k] = s
          PROVE  \E j \in DOMAIN queue' : queue'[j] = s
      <4>1. k # i
        BY <1>2, <2>2, <3>1
      <4>2. CASE k < i
        BY <1>3, <1>4, <3>1, <4>2 DEF n
      <4>3. CASE k > i
        <5>1. k - 1 \in 1..(n - 1) /\ ~(k - 1 < i) /\ k - 1 + 1 = k
          BY <1>4, <4>3
        <5> QED BY <1>3, <3>1, <5>1 DEF n
      <4> QED BY <1>4, <4>1, <4>2, <4>3
    <3>2. ASSUME NEW j \in DOMAIN queue', queue'[j] = s
          PROVE  \E k \in DOMAIN queue : queue[k] = s
      BY <1>3, <1>4, <3>2 DEF n
    <3> QED BY <1>1, <2>2, <3>1, <3>2 DEF Queued
  <2> QED BY <2>1, <2>2
<1>6. ASSUME NEW j \in DOMAIN queue', NEW k \in DOMAIN queue', queue'[j] = queue'[k]
      PROVE  j = k
  <2> DEFINE was(x) == IF x < i THEN x ELSE x + 1
  <2>1. was(j) \in DOMAIN queue /\ was(k) \in DOMAIN queue
        /\ queue[was(j)] = queue[was(k)]
    BY <1>3, <1>4, <1>6 DEF n
  <2>2. was(j) = was(k)
    BY <2>1 DEF Queued
  <2> QED BY <1>3, <1>4, <2>2 DEF n
<1>7. ASSUME NEW s \in Requests, pc'[s] \in Fetching
      PROVE  queue'[1] = s
  <2>1. s # r /\ pc[s] \in Fetching
    BY <1>1, <1>7 DEF Fetching
  <2>2. queue[1] = s /\ i # 1
    BY <1>2, <2>1 DEF Queued
  <2> QED BY <1>3, <1>4, <2>2 DEF n
<1> QED BY <1>1, <1>3, <1>5, <1>6, <1>7 DEF Queued

-----------------------------------------------------------------------------
(* Every step keeps the invariant *)

LEMMA CallKeeps ==
  ASSUME IInv, NEW r \in Requests, Call(r)
  PROVE  IInv'
<1>1. TypeOK /\ Queued /\ pc[r] = "answered"
  BY DEF IInv, Call
<1>2. /\ pc' = [pc EXCEPT ![r] = "queued"] /\ queue' = Append(queue, r)
      /\ \E k \in Kids \ keys : kid' = [kid EXCEPT ![r] = k]
      /\ UNCHANGED <<keys, haveMetadata, sinceAttempt, silent, reply, published,
                     sinceSent, ever, always, basis, outcome>>
  BY DEF Call, cache, waits
<1>3. /\ queue' \in Seq(Requests) /\ DOMAIN queue' = 1..(Len(queue) + 1)
      /\ Len(queue) \in Nat /\ DOMAIN queue = 1..Len(queue)
      /\ \A i \in 1..Len(queue) : queue'[i] = queue[i]
      /\ queue'[Len(queue) + 1] = r
  BY <1>1, <1>2, AppendProperties, LenProperties DEF TypeOK
<1>4. TypeOK'
  BY <1>1, <1>2, <1>3 DEF TypeOK, PCs, Waiting
<1>5. pc'[r] = "queued" /\ \A s \in Requests \ {r} : pc'[s] = pc[s]
  BY <1>1, <1>2 DEF TypeOK
<1>6. \A s \in Requests : pc'[s] \in Fetching <=> pc[s] \in Fetching
  BY <1>1, <1>5 DEF Fetching
<1>7. \A i \in DOMAIN queue : queue[i] # r
  BY <1>1 DEF Queued, Waiting, Fetching
<1>8. Queued'
  <2>1. ASSUME NEW s \in Requests
        PROVE  pc'[s] \in Waiting <=> \E i \in DOMAIN queue' : queue'[i] = s
    <3>1. CASE s = r
      BY <1>3, <1>5, <3>1 DEF Waiting
    <3>2. CASE s # r
      BY <1>1, <1>3, <1>5, <3>2 DEF Queued
    <3> QED BY <3>1, <3>2
  <2>2. \A i, j \in DOMAIN queue' : queue'[i] = queue'[j] => i = j
    BY <1>1, <1>3, <1>7 DEF Queued
  <2>3. ASSUME NEW s \in Requests, pc'[s] \in Fetching PROVE queue'[1] = s
    BY <1>1, <1>3, <1>6, <2>3 DEF Queued, Waiting
  <2> QED BY <2>1, <2>2, <2>3 DEF Queued
<1>9. Document' /\ Ended'
  BY <1>1, <1>2, <1>5, <1>6 DEF IInv, Document, Ended, FetchUnderWay
<1> QED BY <1>2, <1>4, <1>8, <1>9 DEF IInv, CacheIsOneFetch

\* The owner leaves without a fetch.
LEMMA OwnerLeavesKeeps ==
  ASSUME IInv, NEW r \in Requests, HitUnderLock(r) \/ RefusedByCooldown(r)
  PROVE  IInv'
<1>1. TypeOK /\ Queued /\ Owner(r) /\ Leave(r)
      /\ UNCHANGED <<cache, kid, silent, reply, published, history>>
  BY DEF IInv, HitUnderLock, RefusedByCooldown
<1>2. /\ pc' \in [Requests -> PCs] /\ queue' \in Seq(Requests) /\ Queued'
      /\ pc'[r] = "answered" /\ \A s \in Requests \ {r} : pc'[s] = pc[s]
  BY <1>1, LeaveMoves
<1>3. pc[r] = "queued"
  BY <1>1 DEF Owner
<1>4. TypeOK'
  BY <1>1, <1>2 DEF TypeOK, cache
<1>5. \A s \in Requests : /\ pc'[s] \in Fetching <=> pc[s] \in Fetching
                          /\ pc'[s] = "reply" <=> pc[s] = "reply"
  BY <1>2, <1>3 DEF Fetching
<1>6. Document' /\ Ended'
  BY <1>1, <1>5 DEF IInv, Document, Ended, FetchUnderWay, cache, history
<1> QED BY <1>1, <1>2, <1>4, <1>6 DEF IInv, CacheIsOneFetch, cache, history

LEMMA StartFetchKeeps ==
  ASSUME IInv, NEW r \in Requests, StartFetch(r)
  PROVE  IInv'
<1>1. TypeOK /\ Queued /\ Owner(r)
  BY DEF IInv, StartFetch
<1>2. /\ pc[r] = "queued" /\ 1 \in DOMAIN queue /\ queue[1] = r
      /\ \A s \in Requests : pc[s] \notin Fetching
  BY <1>1, OwnerIsFirst
<1>3. /\ sinceAttempt' = 0 /\ silent' = 0 /\ sinceSent' = 0
      /\ ever' = published /\ always' = published /\ outcome' = "pending"
      /\ pc' = [pc EXCEPT ![r] = IF haveMetadata THEN "keys" ELSE "discovery"]
      /\ UNCHANGED <<keys, haveMetadata, queue, kid, reply, published, basis>>
  BY DEF StartFetch, Sent
<1>4. pc'[r] \in {"keys", "discovery"} /\ \A s \in Requests \ {r} : pc'[s] = pc[s]
  BY <1>1, <1>3 DEF TypeOK
<1>5. TypeOK'
  BY <1>1, <1>3, TimingAssumption DEF TypeOK, PCs, Waiting, Fetching
<1>6. Queued'
  BY <1>1, <1>2, <1>3, <1>4 DEF Queued, Waiting, Fetching
<1>7. reply = {}
  BY <1>2 DEF IInv, Document, Fetching
<1>8. \A s \in Requests : pc'[s] # "reply"
  BY <1>2, <1>4 DEF Fetching
<1>9. FetchUnderWay'
  BY <1>4 DEF FetchUnderWay, Fetching
<1>10. Document' /\ Ended'
  BY <1>3, <1>7, <1>8, <1>9 DEF Document, Ended, Outcomes
<1> QED BY <1>3, <1>5, <1>6, <1>10 DEF IInv, CacheIsOneFetch

\* What a call in flight does without leaving.
LEMMA InFlightKeeps ==
  ASSUME IInv, NEW r \in Requests, DiscoveryArrives(r) \/ KeysServed(r)
  PROVE  IInv'
<1>1. TypeOK /\ Queued /\ pc[r] \in {"discovery", "keys"} /\ pc'[r] \in {"keys", "reply"}
      /\ pc' = [pc EXCEPT ![r] = pc'[r]]
  BY DEF IInv, TypeOK, DiscoveryArrives, KeysServed
<1>2. \A s \in Requests \ {r} : pc'[s] = pc[s]
  BY <1>1 DEF TypeOK
<1>3. UNCHANGED <<keys, sinceAttempt, queue, kid, published, history>>
  BY DEF DiscoveryArrives, KeysServed, cache
<1>4. TypeOK'
  <2>1. CASE DiscoveryArrives(r)
    BY <1>1, <1>3, <2>1, TimingAssumption
    DEF DiscoveryArrives, Sent, TypeOK, PCs, Waiting, Fetching
  <2>2. CASE KeysServed(r)
    BY <1>1, <1>3, <2>2 DEF KeysServed, TypeOK, PCs, Waiting, Fetching, cache, waits
  <2> QED BY <2>1, <2>2
<1>5. \A s \in Requests : (pc'[s] \in Fetching <=> pc[s] \in Fetching)
                          /\ (pc'[s] \in Waiting <=> pc[s] \in Waiting)
  BY <1>1, <1>2 DEF Fetching, Waiting
<1>6. Queued'
  BY <1>1, <1>3, <1>5 DEF Queued
<1>7. FetchUnderWay /\ FetchUnderWay'
  BY <1>1, <1>5 DEF FetchUnderWay, Fetching
<1>8. Document'
  <2>1. CASE DiscoveryArrives(r)
    <3>1. reply' = reply /\ pc[r] = "discovery" /\ pc'[r] = "keys"
      BY <1>1, <2>1 DEF DiscoveryArrives, TypeOK
    <3>2. \A s \in Requests : pc'[s] = "reply" <=> pc[s] = "reply"
      BY <1>2, <3>1
    <3> QED BY <1>3, <1>7, <3>1, <3>2 DEF IInv, Document, history
  <2>2. CASE KeysServed(r)
    <3>1. reply' = published /\ pc'[r] = "reply"
      BY <1>1, <2>2 DEF KeysServed, TypeOK
    <3> QED BY <1>3, <1>7, <3>1 DEF IInv, Document, history
  <2> QED BY <2>1, <2>2
<1>9. Ended'
  BY <1>3, <1>7 DEF IInv, Ended, history
<1> QED BY <1>3, <1>4, <1>6, <1>8, <1>9 DEF IInv, CacheIsOneFetch, history

LEMMA KeysArriveKeeps ==
  ASSUME IInv, NEW r \in Requests, KeysArrive(r)
  PROVE  IInv'
<1>1. TypeOK /\ Queued /\ pc[r] = "reply" /\ Leave(r)
      /\ keys' = reply /\ reply' = {} /\ basis' = ever
      /\ outcome' \in {"fruitful", "fruitless"}
      /\ UNCHANGED <<haveMetadata, sinceAttempt, kid, silent, published,
                     sinceSent, ever, always>>
  BY DEF IInv, KeysArrive, Arrived
<1>2. /\ pc' \in [Requests -> PCs] /\ queue' \in Seq(Requests) /\ Queued'
      /\ pc'[r] = "answered" /\ \A s \in Requests \ {r} : pc'[s] = pc[s]
  BY <1>1, LeaveMoves
<1>3. TypeOK'
  BY <1>1, <1>2 DEF TypeOK
<1>4. \A s \in Requests : pc'[s] \notin Fetching
  BY <1>1, <1>2 DEF Queued, Fetching
<1>5. Document'
  BY <1>1, <1>4 DEF Document, FetchUnderWay, Fetching
<1>6. Ended'
  BY <1>1 DEF IInv, Ended, Document, Outcomes
<1> QED BY <1>1, <1>2, <1>3, <1>5, <1>6 DEF IInv, CacheIsOneFetch, Document

\* A fetch that ends without keys, whoever ends it.
LEMMA AbandonedKeeps ==
  ASSUME IInv, NEW r \in Requests, pc[r] \in Fetching, Leave(r), Abandoned
  PROVE  IInv'
<1>1. TypeOK /\ Queued /\ reply' = {} /\ outcome' = "failed"
      /\ UNCHANGED <<cache, kid, silent, published, sinceSent, ever, always, basis>>
  BY DEF IInv, Abandoned
<1>2. /\ pc' \in [Requests -> PCs] /\ queue' \in Seq(Requests) /\ Queued'
      /\ pc'[r] = "answered" /\ \A s \in Requests \ {r} : pc'[s] = pc[s]
  BY <1>1, LeaveMoves
<1>3. TypeOK'
  BY <1>1, <1>2 DEF TypeOK, cache
<1>4. \A s \in Requests : pc'[s] \notin Fetching
  BY <1>1, <1>2 DEF Queued, Fetching
<1>5. Document' /\ Ended'
  BY <1>1, <1>4 DEF Document, Ended, Outcomes, FetchUnderWay, Fetching
<1> QED BY <1>1, <1>2, <1>3, <1>5 DEF IInv, CacheIsOneFetch, cache

\* A call that is cancelled in the queue.
LEMMA CancelledKeeps ==
  ASSUME IInv, NEW r \in Requests, Cancelled(r)
  PROVE  IInv'
<1>1. CASE pc[r] \in Fetching
  BY <1>1, AbandonedKeeps DEF Cancelled
<1>2. CASE pc[r] \notin Fetching
  <2>1. TypeOK /\ Queued /\ pc[r] = "queued" /\ Leave(r)
        /\ UNCHANGED <<cache, kid, silent, reply, published, history>>
    BY <1>2 DEF IInv, Cancelled, Waiting
  <2>2. /\ pc' \in [Requests -> PCs] /\ queue' \in Seq(Requests) /\ Queued'
        /\ pc'[r] = "answered" /\ \A s \in Requests \ {r} : pc'[s] = pc[s]
    BY <2>1, LeaveMoves
  <2>3. TypeOK'
    BY <2>1, <2>2 DEF TypeOK, cache
  <2>4. \A s \in Requests : /\ pc'[s] \in Fetching <=> pc[s] \in Fetching
                            /\ pc'[s] = "reply" <=> pc[s] = "reply"
    BY <2>1, <2>2 DEF Fetching
  <2>5. Document' /\ Ended'
    BY <2>1, <2>4 DEF IInv, Document, Ended, FetchUnderWay, cache, history
  <2> QED BY <2>1, <2>2, <2>3, <2>5 DEF IInv, CacheIsOneFetch, cache, history
<1> QED BY <1>1, <1>2

\* A request that makes progress disturbs nothing but its own silence.
LEMMA ProgressKeeps ==
  ASSUME IInv, NEW r \in Requests, Progresses(r)
  PROVE  IInv'
<1>1. silent' = 0
      /\ UNCHANGED <<cache, queue, pc, kid, waited, reply, published, history>>
  BY DEF Progresses
<1>2. TypeOK'
  BY <1>1, TimingAssumption DEF IInv, TypeOK, cache
<1> QED BY <1>1, <1>2 DEF IInv, Queued, Document, Ended, FetchUnderWay, CacheIsOneFetch,
                         cache, history

LEMMA RotateKeeps ==
  ASSUME IInv, Rotate
  PROVE  IInv'
<1>1. PICK new \in SUBSET Kids \ {{}, published} :
        published' = new /\ ever' = ever \cup new /\ always' = always \cap new
  BY DEF Rotate
<1>2. UNCHANGED <<keys, haveMetadata, sinceAttempt, queue, pc, kid, silent, reply,
                  sinceSent, basis, outcome>>
  BY DEF Rotate, cache, waits
<1>3. TypeOK' /\ Queued'
  BY <1>1, <1>2 DEF IInv, TypeOK, Queued
<1>4. Document' /\ Ended'
  BY <1>1, <1>2 DEF IInv, Document, Ended, FetchUnderWay
<1> QED BY <1>2, <1>3, <1>4 DEF IInv, CacheIsOneFetch

LEMMA TickKeeps ==
  ASSUME IInv, Tick
  PROVE  IInv'
<1>1. /\ FetchUnderWay => silent < Timeout
      /\ silent' = IF FetchUnderWay THEN silent + 1 ELSE 0
      /\ sinceAttempt' = UpTo(sinceAttempt, Cooldown)
      /\ sinceSent' = UpTo(sinceSent, Cooldown)
      /\ UNCHANGED <<keys, haveMetadata, queue, pc, kid, reply, published,
                     ever, always, basis, outcome>>
  BY DEF Tick
<1>2. TypeOK'
  BY <1>1, TimingAssumption DEF IInv, TypeOK, UpTo
<1>3. Queued' /\ Document'
  BY <1>1 DEF IInv, Queued, Document, FetchUnderWay
<1>4. Ended'
  BY <1>1, TimingAssumption DEF IInv, TypeOK, Ended, FetchUnderWay, UpTo
<1> QED BY <1>1, <1>2, <1>3, <1>4 DEF IInv, CacheIsOneFetch

LEMMA InitHolds == Init => IInv
<1> SUFFICES ASSUME Init PROVE IInv
  OBVIOUS
<1>1. TypeOK
  <2>1. queue \in Seq(Requests)
    BY EmptySeq DEF Init
  <2>2. sinceAttempt \in 0..Cooldown /\ silent \in 0..Timeout
    BY TimingAssumption DEF Init
  <2>3. kid \in [Requests -> Kids] /\ pc \in [Requests -> PCs]
    BY DEF Init, PCs
  <2>4. keys \subseteq Kids /\ reply \subseteq Kids /\ published \subseteq Kids
        /\ haveMetadata \in BOOLEAN
    BY DEF Init
  <2> QED BY <2>1, <2>2, <2>3, <2>4 DEF TypeOK
<1>2. Queued /\ Document /\ Ended
  BY DEF Init, Queued, Document, Ended, Outcomes, Waiting, Fetching, FetchUnderWay
<1> QED BY <1>1, <1>2 DEF Init, IInv, CacheIsOneFetch

LEMMA NextKeeps == IInv /\ [Next]_vars => IInv'
<1> SUFFICES ASSUME IInv, [Next]_vars PROVE IInv'
  OBVIOUS
<1>1. ASSUME NEW r \in Requests,
             Call(r) \/ Own(r) \/ Cancelled(r) \/ KeysServed(r) \/ Progresses(r)
      PROVE  IInv'
  <2>1. ASSUME FetchFails(r) PROVE IInv'
    BY <2>1, AbandonedKeeps DEF FetchFails
  <2> QED BY <1>1, <2>1, CallKeeps, OwnerLeavesKeeps, StartFetchKeeps, InFlightKeeps,
             KeysArriveKeeps, CancelledKeeps, ProgressKeeps DEF Own
<1>2. CASE UNCHANGED vars
  BY <1>2 DEF vars, cache, waits, history, IInv, TypeOK, Queued, Document, Ended,
              FetchUnderWay, CacheIsOneFetch
<1> QED BY <1>1, <1>2, RotateKeeps, TickKeeps DEF Next

-----------------------------------------------------------------------------
(* What follows *)

\* The invariant is one.
THEOREM Invariance == Spec => []IInv
BY InitHolds, NextKeeps, PTL DEF Spec

\* Type correctness.
THEOREM TypeCorrect == Spec => []TypeOK
<1>1. IInv => TypeOK
  BY DEF IInv
<1> QED BY <1>1, Invariance, PTL

\* Every key a replica holds was published by the issuer at some time since the
\* attempt that brought it (keys.py, _refetch replaces the mapping whole).
THEOREM CacheFromOneFetch == Spec => []CacheIsOneFetch
<1>1. IInv => CacheIsOneFetch
  BY DEF IInv
<1> QED BY <1>1, Invariance, PTL

\* However many callers miss, two fetches start a cooldown apart at least
\* (keys.py, _last_attempt is written before anything is awaited).
THEOREM FetchesSpaced == Spec => FetchesAreSpaced
<1>1. IInv /\ [Next]_vars =>
        [\A r \in Requests :
           pc[r] = "queued" /\ pc'[r] \in Fetching => sinceSent >= Cooldown]_vars
  <2> SUFFICES ASSUME IInv, Next, NEW r \in Requests,
                      pc[r] = "queued", pc'[r] \in Fetching
               PROVE  sinceSent >= Cooldown
    BY DEF FetchesAreSpaced
  <2>1. TypeOK /\ Queued /\ pc[r] # pc'[r]
    BY DEF IInv, Fetching
  <2>2. PICK s \in Requests : Call(s) \/ Own(s) \/ Cancelled(s) \/ KeysServed(s)
    BY <2>1 DEF Next, Rotate, Tick, Progresses
  <2>3. CASE StartFetch(s)
    BY <2>3, TimingAssumption DEF StartFetch, cooldown_elapsed, IInv, TypeOK
  <2>4. CASE ~StartFetch(s)
    <3>1. pc' = [pc EXCEPT ![s] = pc'[s]]
      BY <2>1, <2>2 DEF TypeOK, Call, Own, HitUnderLock, RefusedByCooldown, StartFetch,
         DiscoveryArrives, KeysArrive, Arrived, FetchFails, Cancelled, KeysServed, Leave
    <3>2. s = r
      BY <2>1, <3>1 DEF TypeOK
    <3> QED BY <2>1, <2>2, <2>4, <3>2 DEF TypeOK, Fetching, Call, Own, HitUnderLock,
         RefusedByCooldown, DiscoveryArrives, KeysArrive, Arrived, FetchFails, Cancelled,
         KeysServed, Leave
  <2> QED BY <2>3, <2>4
<1> QED BY <1>1, Invariance, PTL DEF Spec, FetchesAreSpaced

\* A caller the cooldown turns away asked for a key the last fetch could not have
\* brought, unless that fetch failed.
THEOREM CooldownRefusesRightly == Spec => RefusedKeysWereNotServed
<1>1. IInv /\ [Next]_vars =>
        [\A r \in Requests :
           RefusedByCooldown(r) => outcome = "failed" \/ kid[r] \notin always]_vars
  <2> SUFFICES ASSUME IInv, NEW r \in Requests, RefusedByCooldown(r), kid[r] \in always
               PROVE  outcome = "failed"
    OBVIOUS
  <2>1. TypeOK /\ Queued /\ Owner(r) /\ kid[r] \notin keys /\ ~cooldown_elapsed
    BY DEF IInv, RefusedByCooldown
  <2>2. ~FetchUnderWay
    BY <2>1, OwnerIsFirst DEF FetchUnderWay
  <2>3. outcome # "none"
    BY <2>1, TimingAssumption DEF IInv, Ended, cooldown_elapsed
  <2> QED BY <2>1, <2>2, <2>3 DEF IInv, Ended, Outcomes
<1> QED BY <1>1, Invariance, PTL DEF Spec, RefusedKeysWereNotServed

-----------------------------------------------------------------------------
(* What a call waits for *)

N == Cardinality(Requests)

\* The request the lock's owner has still to send, if it is the first of its turn.
FirstToSend(label) == IF label = "queued" THEN 1 ELSE 0

\* The second request of a turn, which one turn alone can need.
StillToDiscover == IF haveMetadata THEN 0 ELSE 1

\* A call that waits has so many fewer requests before it as it has waited for.
Waits ==
  /\ waited \in [Requests -> Nat]
  /\ \A r \in Requests : pc[r] = "answered" => waited[r] = 0
  /\ \A r \in Requests : pc[r] = "discovery" => ~haveMetadata
  /\ \A i \in DOMAIN queue :
       waited[queue[i]] + FirstToSend(pc[queue[1]]) + StillToDiscover + (i - 1) =< WaitBound

LEMMA Bounds ==
  /\ N \in Nat /\ WaitBound = N + 1
  /\ haveMetadata \in BOOLEAN => StillToDiscover \in 0..1
  /\ \A label : FirstToSend(label) \in 0..1
BY RequestsAssumption, FS_CardinalityType DEF N, WaitBound, StillToDiscover, FirstToSend

\* The queue is never longer than there are calls: one that joins it has room.
LEMMA RoomInTheQueue ==
  ASSUME TypeOK, Queued, NEW r \in Requests, pc[r] = "answered"
  PROVE  Len(queue) + 1 =< N
<1> DEFINE n == Len(queue)
<1>1. n \in Nat /\ DOMAIN queue = 1..n /\ \A i \in 1..n : queue[i] \in Requests
  BY QueueType
<1>2. \A i \in 1..n : queue[i] # r
  BY <1>1 DEF Queued, Waiting, Fetching
<1>3. queue \in [1..n -> Requests \ {r}]
  BY <1>1, <1>2, LenProperties DEF TypeOK
<1>4. IsFiniteSet(Requests \ {r}) /\ Cardinality(Requests \ {r}) = N - 1 /\ N \in Nat
  BY RequestsAssumption, FS_RemoveElement, FS_CardinalityType DEF N
<1>5. IsFiniteSet(1..n) /\ Cardinality(1..n) = n
  <2>1. n \in Nat
    BY <1>1
  <2> HIDE DEF n
  <2>2. \A a, b \in Int : IsFiniteSet(a..b)
                          /\ Cardinality(a..b) = IF a > b THEN 0 ELSE b - a + 1
    BY FS_Interval
  <2>3. 1 \in Int /\ n \in Int /\ (IF 1 > n THEN 0 ELSE n - 1 + 1) = n
    BY <2>1
  <2> QED BY <2>2, <2>3
<1>6. \A x, y \in 1..n : queue[x] = queue[y] => x = y
  BY <1>1 DEF Queued
<1> HIDE DEF n
<1>7. ASSUME N - 1 < n PROVE FALSE
  <2> DEFINE places == 1..n
             others == Requests \ {r}
  <2>1. IsFiniteSet(places) /\ IsFiniteSet(others) /\ queue \in [places -> others]
        /\ Cardinality(others) < Cardinality(places)
    BY <1>3, <1>4, <1>5, <1>7
  <2> HIDE DEF places, others
  <2>2. \E x, y \in places : x # y /\ queue[x] = queue[y]
    BY <2>1, FS_PigeonHole
  <2> QED BY <1>6, <2>2 DEF places
<1> QED BY <1>1, <1>4, <1>7 DEF n

\* Whoever leaves, nobody who stays is further from the lock than before.
LEMMA LeavingKeepsWaits ==
  ASSUME IInv, Waits, NEW r \in Requests, Leave(r), UNCHANGED haveMetadata
  PROVE  Waits'
<1>1. TypeOK /\ Queued
  BY DEF IInv
<1>2. /\ pc'[r] = "answered" /\ \A s \in Requests \ {r} : pc'[s] = pc[s]
      /\ Queued'
  BY <1>1, LeaveMoves
<1>3. PICK i \in DOMAIN queue : queue[i] = r /\ queue' = RemoveAt(queue, i)
  BY DEF Leave
<1> DEFINE n == Len(queue)
<1>4. /\ n \in Nat /\ DOMAIN queue = 1..n /\ i \in 1..n
      /\ \A j \in 1..n : queue[j] \in Requests
      /\ DOMAIN queue' = 1..(n - 1)
      /\ \A j \in 1..(n - 1) : queue'[j] = IF j < i THEN queue[j] ELSE queue[j + 1]
  BY <1>1, <1>3, QueueType, RemoveAtShifts DEF TypeOK
<1> HIDE DEF n
<1>5. waited' = [waited EXCEPT ![r] = 0]
  BY DEF Leave
<1>6. waited' \in [Requests -> Nat] /\ \A s \in Requests \ {r} : waited'[s] = waited[s]
  BY <1>5 DEF Waits
<1>7. ASSUME NEW s \in Requests
      PROVE  /\ pc'[s] = "answered" => waited'[s] = 0
             /\ pc'[s] = "discovery" => ~haveMetadata'
  BY <1>2, <1>5 DEF Waits
<1>8. StillToDiscover' = StillToDiscover
  BY DEF StillToDiscover
<1>9. ASSUME NEW j \in DOMAIN queue'
      PROVE  waited'[queue'[j]] + FirstToSend(pc'[queue'[1]]) + StillToDiscover' + (j - 1)
               =< WaitBound
  <2> DEFINE k == IF j < i THEN j ELSE j + 1
  <2>1. /\ k \in 1..n /\ k # i /\ queue'[j] = queue[k] /\ queue[k] \in Requests \ {r}
        /\ j \in Nat \ {0}
    BY <1>1, <1>3, <1>4 DEF Queued
  <2>2. waited'[queue'[j]] = waited[queue[k]] /\ waited[queue[k]] \in Nat
    BY <1>6, <2>1 DEF Waits
  <2>3. waited[queue[k]] + FirstToSend(pc[queue[1]]) + StillToDiscover + (k - 1) =< WaitBound
    BY <1>4, <2>1 DEF Waits
  <2>4. /\ FirstToSend(pc[queue[1]]) \in 0..1 /\ FirstToSend(pc'[queue'[1]]) \in 0..1
        /\ StillToDiscover \in 0..1 /\ WaitBound \in Nat
    BY <1>1, Bounds DEF TypeOK
  <2>5. CASE i = 1
    <3>1. k = j + 1
      BY <1>4, <2>1, <2>5
    <3> HIDE DEF k
    <3> QED BY <1>8, <2>1, <2>2, <2>3, <2>4, <3>1
  <2>6. CASE i # 1
    <3>1. queue'[1] = queue[1] /\ queue[1] # r /\ queue[1] \in Requests
      BY <1>1, <1>3, <1>4, <2>1, <2>6 DEF Queued
    <3>2. FirstToSend(pc'[queue'[1]]) = FirstToSend(pc[queue[1]])
      BY <1>2, <3>1
    <3>3. j =< k
      BY <1>4, <2>1
    <3> HIDE DEF k
    <3> QED BY <1>8, <2>1, <2>2, <2>3, <2>4, <3>2, <3>3
  <2> QED BY <2>5, <2>6
<1> QED BY <1>6, <1>7, <1>9 DEF Waits, FirstToSend, WaitBound

\* One that joins waits for the request in flight and for those of the calls
\* before it.
LEMMA JoiningKeepsWaits ==
  ASSUME IInv, Waits, NEW r \in Requests, Call(r)
  PROVE  Waits'
<1>1. TypeOK /\ Queued /\ pc[r] = "answered"
  BY DEF IInv, Call
<1>2. /\ pc' = [pc EXCEPT ![r] = "queued"] /\ queue' = Append(queue, r)
      /\ waited' = [waited EXCEPT ![r] = IF FetchUnderWay THEN 1 ELSE 0]
      /\ UNCHANGED haveMetadata
  BY DEF Call, cache
<1> DEFINE n == Len(queue)
<1>3. /\ n \in Nat /\ DOMAIN queue = 1..n /\ DOMAIN queue' = 1..(n + 1)
      /\ \A i \in 1..n : queue'[i] = queue[i] /\ queue[i] \in Requests \ {r}
      /\ queue'[n + 1] = r
  <2>1. \A i \in DOMAIN queue : queue[i] # r
    BY <1>1 DEF Queued, Waiting, Fetching
  <2> QED BY <1>1, <1>2, <2>1, AppendProperties, LenProperties DEF TypeOK
<1>4. n + 1 =< N
  BY <1>1, RoomInTheQueue
<1> HIDE DEF n
<1>5. /\ pc'[r] = "queued" /\ \A s \in Requests \ {r} : pc'[s] = pc[s]
      /\ waited'[r] = IF FetchUnderWay THEN 1 ELSE 0
      /\ \A s \in Requests \ {r} : waited'[s] = waited[s]
      /\ waited' \in [Requests -> Nat]
  BY <1>1, <1>2 DEF TypeOK, Waits
<1>6. StillToDiscover' = StillToDiscover /\ StillToDiscover \in 0..1
  BY <1>1, <1>2, Bounds DEF StillToDiscover, TypeOK
<1>7. ASSUME NEW i \in DOMAIN queue'
      PROVE  waited'[queue'[i]] + FirstToSend(pc'[queue'[1]]) + StillToDiscover' + (i - 1)
               =< WaitBound
  <2>1. CASE i \in 1..n
    <3>1. queue'[1] = queue[1] /\ pc'[queue'[1]] = pc[queue[1]] /\ queue'[i] = queue[i]
      BY <1>3, <1>5, <2>1
    <3> QED BY <1>3, <1>5, <1>6, <2>1, <3>1 DEF Waits
  <2>2. CASE i = n + 1
    <3>1. waited'[r] + FirstToSend(pc'[queue'[1]]) =< 1 /\ waited'[r] \in Nat
      <4>1. CASE FetchUnderWay
        <5>1. PICK s \in Requests : pc[s] \in Fetching
          BY <4>1 DEF FetchUnderWay
        <5>2. 1 \in 1..n /\ queue[1] = s
          BY <1>1, <1>3, <5>1 DEF Queued, Waiting
        <5>3. pc'[queue'[1]] \in Fetching
          BY <1>3, <1>5, <5>1, <5>2
        <5> QED BY <1>5, <4>1, <5>3 DEF FirstToSend, Fetching
      <4>2. CASE ~FetchUnderWay
        BY <1>5, <4>2, Bounds
      <4> QED BY <4>1, <4>2
    <3>2. FirstToSend(pc'[queue'[1]]) \in 0..1 /\ N \in Nat /\ WaitBound = N + 1
      BY Bounds
    <3> QED BY <1>3, <1>4, <1>6, <2>2, <3>1, <3>2
  <2> QED BY <1>3, <2>1, <2>2
<1>8. \A s \in Requests : /\ pc'[s] = "answered" => waited'[s] = 0
                          /\ pc'[s] = "discovery" => ~haveMetadata'
  BY <1>2, <1>5 DEF Waits
<1> QED BY <1>5, <1>7, <1>8 DEF Waits, FirstToSend, WaitBound

\* The owner sends a request, of which everybody has one fewer to wait for then.
LEMMA SendingKeepsWaits ==
  ASSUME IInv, Waits, NEW r \in Requests, StartFetch(r) \/ DiscoveryArrives(r)
  PROVE  Waits'
<1>1. TypeOK /\ Queued
  BY DEF IInv
<1>2. /\ Sent /\ UNCHANGED queue /\ pc' = [pc EXCEPT ![r] = pc'[r]]
      /\ pc'[r] \in {"discovery", "keys"}
  BY <1>1 DEF StartFetch, DiscoveryArrives, TypeOK
<1>3. \A s \in Requests \ {r} : pc'[s] = pc[s]
  BY <1>1, <1>2 DEF TypeOK
<1>4. /\ queue[1] = r
      /\ \A s \in Requests \ {r} : pc[s] \notin Fetching
      /\ pc'[r] = "discovery" => ~haveMetadata'
      /\ FirstToSend(pc'[r]) + StillToDiscover' + 1 =< FirstToSend(pc[r]) + StillToDiscover
  <2>1. CASE StartFetch(r)
    <3>1. Owner(r) /\ UNCHANGED haveMetadata
          /\ pc' = [pc EXCEPT ![r] = IF haveMetadata THEN "keys" ELSE "discovery"]
      BY <2>1 DEF StartFetch
    <3>2. /\ pc[r] = "queued" /\ queue[1] = r
          /\ \A s \in Requests : pc[s] \notin Fetching
      BY <1>1, <3>1, OwnerIsFirst
    <3> QED BY <1>1, <1>2, <3>1, <3>2 DEF FirstToSend, StillToDiscover, TypeOK
  <2>2. CASE DiscoveryArrives(r)
    <3>1. pc[r] = "discovery" /\ pc'[r] = "keys" /\ haveMetadata' = TRUE
      BY <1>1, <2>2 DEF DiscoveryArrives, TypeOK
    <3>2. ~haveMetadata /\ queue[1] = r
      BY <1>1, <3>1 DEF Waits, Queued, Fetching
    <3> QED BY <1>1, <3>1, <3>2 DEF FirstToSend, StillToDiscover, Queued
  <2> QED BY <2>1, <2>2
<1>5. \A s \in Requests : waited'[s] \in Nat /\ waited'[s] =< waited[s] + 1
  BY <1>2, Bounds DEF Sent, UpTo, Waits
<1>6. waited' \in [Requests -> Nat]
  <2>1. waited' = [s \in Requests |-> waited'[s]]
    BY <1>2 DEF Sent
  <2> QED BY <1>5, <2>1
<1>7. ASSUME NEW s \in Requests
      PROVE  /\ pc'[s] = "answered" => waited'[s] = 0
             /\ pc'[s] = "discovery" => ~haveMetadata'
  <2>1. CASE s = r
    BY <1>2, <1>4, <2>1
  <2>2. CASE s # r
    BY <1>2, <1>3, <1>4, <2>2 DEF Sent, Waiting, Fetching
  <2> QED BY <2>1, <2>2
<1>8. ASSUME NEW i \in DOMAIN queue
      PROVE  waited'[queue[i]] + FirstToSend(pc'[queue[1]]) + StillToDiscover' + (i - 1)
               =< WaitBound
  <2>1. queue[i] \in Requests /\ i \in Nat
    BY <1>1, QueueType
  <2>2. waited[queue[i]] + FirstToSend(pc[r]) + StillToDiscover + (i - 1) =< WaitBound
    BY <1>4 DEF Waits
  <2>3. waited[queue[i]] \in Nat
    BY <2>1 DEF Waits
  <2>4. /\ FirstToSend(pc[r]) \in 0..1 /\ FirstToSend(pc'[r]) \in 0..1 /\ WaitBound \in Nat
        /\ StillToDiscover \in 0..1 /\ StillToDiscover' \in 0..1
    BY <1>1, Bounds DEF TypeOK, StillToDiscover
  <2> QED BY <1>4, <1>5, <2>1, <2>2, <2>3, <2>4
<1> QED BY <1>2, <1>6, <1>7, <1>8 DEF Waits, FirstToSend, WaitBound

\* The key set is served: the owner's turn has nothing more to send.
LEMMA ServingKeepsWaits ==
  ASSUME IInv, Waits, NEW r \in Requests, KeysServed(r)
  PROVE  Waits'
<1>1. TypeOK /\ UNCHANGED <<queue, waited, haveMetadata>>
      /\ pc[r] = "keys" /\ pc' = [pc EXCEPT ![r] = "reply"]
  BY DEF IInv, KeysServed, cache, waits
<1>2. pc'[r] = "reply" /\ \A s \in Requests \ {r} : pc'[s] = pc[s]
  BY <1>1 DEF TypeOK
<1>3. \A s \in Requests : FirstToSend(pc'[s]) = FirstToSend(pc[s])
  BY <1>1, <1>2 DEF FirstToSend
<1>4. \A i \in DOMAIN queue : queue[1] \in Requests
  BY <1>1, QueueType
<1> QED BY <1>1, <1>2, <1>3, <1>4 DEF Waits, StillToDiscover, FirstToSend, WaitBound

LEMMA NextKeepsWaits == IInv /\ Waits /\ [Next]_vars => Waits'
<1> SUFFICES ASSUME IInv, Waits, [Next]_vars PROVE Waits'
  OBVIOUS
<1>1. ASSUME NEW r \in Requests, Leave(r), UNCHANGED haveMetadata PROVE Waits'
  BY <1>1, LeavingKeepsWaits
<1>2. ASSUME UNCHANGED <<queue, pc, waited, haveMetadata>> PROVE Waits'
  BY <1>2 DEF Waits, FirstToSend, StillToDiscover, WaitBound
<1>3. ASSUME NEW r \in Requests,
             Call(r) \/ Own(r) \/ Cancelled(r) \/ KeysServed(r) \/ Progresses(r)
      PROVE  Waits'
  <2>1. CASE Progresses(r)
    BY <1>2, <2>1 DEF Progresses, cache
  <2> QED BY <1>1, <1>3, <2>1, JoiningKeepsWaits, SendingKeepsWaits, ServingKeepsWaits
      DEF Own, HitUnderLock, RefusedByCooldown, KeysArrive, Arrived, FetchFails, Cancelled,
          Abandoned, cache
<1>4. CASE Rotate \/ Tick \/ UNCHANGED vars
  BY <1>2, <1>4 DEF Rotate, Tick, vars, waits, cache
<1> QED BY <1>3, <1>4 DEF Next

\* No call waits for more outbound requests than there can be calls, and one for
\* the discovery document, however many fetches before it fail (keys.py, one lock
\* in order of arrival, one fetch to a turn, and the document held once it came).
THEOREM WaitingIsBounded == Spec => []WaitsForFewRequests
<1>1. Init => Waits
  BY DEF Init, Waits
<1>2. IInv /\ Waits => WaitsForFewRequests
  <2> SUFFICES ASSUME IInv, Waits, NEW r \in Requests PROVE waited[r] =< WaitBound
    BY DEF WaitsForFewRequests
  <2>1. TypeOK /\ Queued /\ WaitBound \in Nat
    BY Bounds DEF IInv
  <2>2. CASE pc[r] = "answered"
    BY <2>1, <2>2 DEF Waits
  <2>3. CASE pc[r] \in Waiting
    <3>1. PICK i \in DOMAIN queue : queue[i] = r
      BY <2>1, <2>3 DEF Queued
    <3>2. i \in Nat \ {0} /\ waited[r] \in Nat
          /\ FirstToSend(pc[queue[1]]) \in 0..1 /\ StillToDiscover \in 0..1
      BY <2>1, QueueType, Bounds DEF TypeOK, Waits
    <3>3. waited[r] + FirstToSend(pc[queue[1]]) + StillToDiscover + (i - 1) =< WaitBound
      BY <3>1 DEF Waits
    <3> QED BY <2>1, <3>2, <3>3
  <2> QED BY <2>1, <2>2, <2>3 DEF TypeOK, PCs
<1> QED BY <1>1, <1>2, InitHolds, NextKeeps, NextKeepsWaits, PTL DEF Spec
=============================================================================
