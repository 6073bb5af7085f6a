---------------------------- MODULE GateChainProofs ----------------------------
(***************************************************************************)
(* The inductive invariant of GateChain and what follows from it, for any  *)
(* number of requests of any shape, any tokens and any directory: the      *)
(* chain implements Admission, whatever it waits for and in whatever order *)
(* its requests take their steps.                                          *)
(***************************************************************************)
EXTENDS GateChain, TLAPS

-----------------------------------------------------------------------------
(* The checks of one token *)

\* A set of positions among ten has a least one.
LEMMA LeastIndex ==
  ASSUME NEW S \in SUBSET (1..10), S # {}
  PROVE  Min(S) \in S /\ \A y \in S : Min(S) =< y
<1> DEFINE Least == \E x \in S : \A y \in S : x =< y
<1>1. Least \/ \A y \in S : y > 0
  OBVIOUS
<1>2. Least \/ \A y \in S : y > 1
  BY <1>1
<1>3. Least \/ \A y \in S : y > 2
  BY <1>2
<1>4. Least \/ \A y \in S : y > 3
  BY <1>3
<1>5. Least \/ \A y \in S : y > 4
  BY <1>4
<1>6. Least \/ \A y \in S : y > 5
  BY <1>5
<1>7. Least \/ \A y \in S : y > 6
  BY <1>6
<1>8. Least \/ \A y \in S : y > 7
  BY <1>7
<1>9. Least \/ \A y \in S : y > 8
  BY <1>8
<1>10. Least \/ \A y \in S : y > 9
  BY <1>9
<1>11. Least \/ \A y \in S : y > 10
  BY <1>10
<1>12. Least
  <2>1. PICK y \in S : y \in 1..10
    OBVIOUS
  <2> QED BY <1>11, <2>1
<1> QED BY <1>12 DEF Min

LEMMA FirstFailingSays ==
  ASSUME NEW n \in 1..10,
         NEW checks \in [1..n -> DESCRIPTIONS \cup {Valid}]
  PROVE  /\ FirstFailing(checks) \in DESCRIPTIONS \cup {Valid}
         /\ FirstFailing(checks) = Valid <=> \A i \in 1..n : checks[i] = Valid
<1> DEFINE failing == {i \in DOMAIN checks : checks[i] # Valid}
<1>1. CASE failing = {}
  BY <1>1 DEF FirstFailing
<1>2. CASE failing # {}
  <2>1. failing \in SUBSET (1..10)
    OBVIOUS
  <2>2. Min(failing) \in failing
    BY <1>2, <2>1, LeastIndex
  <2>3. FirstFailing(checks) = checks[Min(failing)]
    BY <1>2 DEF FirstFailing
  <2> QED BY <1>2, <2>2, <2>3
<1> QED BY <1>1, <1>2

\* What the checks before the key let through.
LEMMA BeforeTheKeySays ==
  ASSUME NEW t \in Token
  PROVE  /\ BeforeTheKey(t) \in DESCRIPTIONS \cup {Valid}
         /\ BeforeTheKey(t) = Valid <=> t.parses /\ t.iss = "ours" /\ t.kid # NoKid
<1> DEFINE checks ==
      << Check(~t.parses,         "malformed"),
         Check(t.iss = "absent",  "malformed"),
         Check(t.iss # "ours",    "issuer_mismatch"),
         Check(t.kid = NoKid,     "unknown_key") >>
<1>1. checks \in [1..4 -> DESCRIPTIONS \cup {Valid}]
  BY DEF Check, DESCRIPTIONS, Token
<1>2. (\A i \in 1..4 : checks[i] = Valid) <=> t.parses /\ t.iss = "ours" /\ t.kid # NoKid
  BY DEF Check, Token, Valid
<1>3. BeforeTheKey(t) = FirstFailing(checks)
  BY DEF BeforeTheKey
<1> HIDE DEF checks
<1> QED BY <1>1, <1>2, <1>3, FirstFailingSays

\* And those after it.
LEMMA AfterTheKeySays ==
  ASSUME NEW t \in Token, NEW l \in Int, NEW h \in Nat
  PROVE  /\ AfterTheKey(t, l, h) \in DESCRIPTIONS \cup {Valid}
         /\ AfterTheKey(t, l, h) = Valid <=>
              /\ t.signer = t.kid /\ t.aud = "ours"
              /\ t.exp = "usable" /\ t.sub = "usable" /\ t.start = "usable"
              /\ l > 0 /\ h =< Leeway
<1> DEFINE checks ==
      << Check(t.signer # t.kid,       "signature_invalid"),
         Check(t.exp = "absent",       "malformed"),
         Check(t.aud = "absent",       "audience_missing"),
         Check(t.sub = "absent",       "malformed"),
         Check(t.exp = "unusable",     "malformed"),
         Check(l <= 0,                 "token_expired"),
         Check(t.aud # "ours",         "audience_mismatch"),
         Check(t.sub = "unusable",     "malformed"),
         Check(t.start = "unusable",   "malformed"),
         Check(h > Leeway,             "malformed") >>
<1>1. checks \in [1..10 -> DESCRIPTIONS \cup {Valid}]
  BY DEF Check, DESCRIPTIONS
<1>2. (\A i \in 1..10 : checks[i] = Valid) <=>
        /\ t.signer = t.kid /\ t.exp = "usable" /\ t.sub = "usable" /\ t.start = "usable"
        /\ t.aud = "ours" /\ l > 0 /\ h =< Leeway
  <2>1. (\A i \in 1..10 : checks[i] = Valid) <=>
          /\ checks[1] = Valid /\ checks[2] = Valid /\ checks[3] = Valid
          /\ checks[4] = Valid /\ checks[5] = Valid /\ checks[6] = Valid
          /\ checks[7] = Valid /\ checks[8] = Valid /\ checks[9] = Valid
          /\ checks[10] = Valid
    <3> HIDE DEF checks
    <3> QED OBVIOUS
  <2>2. /\ t.exp \in {"usable", "absent", "unusable"}
        /\ t.sub \in {"usable", "absent", "unusable"}
        /\ t.start \in {"usable", "unusable"} /\ Leeway \in Nat
    BY GateAssumption DEF Token, Claim
  <2> QED BY <2>1, <2>2 DEF Check, Valid
<1>3. AfterTheKey(t, l, h) = FirstFailing(checks)
  BY DEF AfterTheKey
<1> HIDE DEF checks
<1> QED BY <1>1, <1>2, <1>3, FirstFailingSays

-----------------------------------------------------------------------------
(* The inductive invariant *)

IsState(s) ==
  s = [called |-> s.called, proven |-> s.proven, principal |-> s.principal]

Read(r) == got[r] = ask[r].parts

Shapes ==
  /\ stage \in [Requests -> Stages] /\ got \in [Requests -> Nat]
  /\ here \in [Requests -> BOOLEAN]
  /\ left \in [Requests -> Int] /\ ahead \in [Requests -> Nat]
  /\ fresh \in [Requests -> Nat]
  /\ DOMAIN state = Requests /\ \A r \in Requests : IsState(state[r])
  /\ DOMAIN answer = Requests /\ DOMAIN ask = Requests
  /\ \A r \in Requests : IF stage[r] = "away" THEN ask[r] = NoAsk ELSE ask[r] \in Asks

\* What ShapeGate found of a request it could read, and nothing of any other.
Noted(s, a, w) ==
  /\ s.called = IF Promise!Legible(a, w) THEN Called(a) ELSE Absent
  /\ s.proven = IF Promise!Legible(a, w) /\ a.era = "modern" THEN a.method ELSE Absent

\* It has passed OriginGate and ShapeGate.
Through(a, w) ==
  a.origin \in AllowedOrigins \cup {Absent} /\ Promise!Truthful(a, w)

\* Discovery is for nobody, and everything else for somebody who may do it.
Known(s, a, w) ==
  IF s.principal = Absent THEN Promise!Discovery(a, w)
  ELSE s.principal \in People /\ ~Promise!Discovery(a, w) /\ Promise!Entitled(a, w)

\* It carries a token whose key is worth looking for.
Worth(s, a, w) ==
  /\ s.principal = Absent /\ ~Promise!Discovery(a, w)
  /\ a.bearer /\ BeforeTheKey(a.token) = Valid

Stands(r) ==
  /\ stage[r] \in {"away", "origin"} => got[r] = 0
  /\ stage[r] # "away" => got[r] <= ask[r].parts
  /\ stage[r] \in {"away", "origin", "shape", "answered"} => state[r] = NoState
  /\ stage[r] = "shape" => /\ ask[r].post /\ got[r] < ask[r].parts
                           /\ ask[r].origin \in AllowedOrigins \cup {Absent}
  /\ stage[r] \in {"keys", "app", "running"} =>
       Noted(state[r], ask[r], Read(r)) /\ Through(ask[r], Read(r))
  /\ stage[r] = "keys" => Worth(state[r], ask[r], Read(r))
  /\ Inside(r) => Known(state[r], ask[r], Read(r))

\* And what it was answered with.
Answered(r) ==
  /\ stage[r] # "answered" => answer[r] = "none" /\ fresh[r] = 0
  /\ answer[r] # "internal_error"
  /\ answer[r] = "abandoned" => ~here[r]
  /\ fresh[r] <= remaining_lifetime(left[r]) /\ fresh[r] <= ListingTTL

IInv ==
  /\ Shapes
  /\ \A r \in Requests : Stands(r)
  /\ \A r \in Requests : Answered(r)

-----------------------------------------------------------------------------
(* What the gates do with a request *)

Refusals ==
  DESCRIPTIONS \cup {"forbidden_origin", "header_mismatch", "challenge",
                     "role_missing", "insufficient_scope"}

\* Only r moves.
Moves(r) ==
  /\ stage' \in [Requests -> Stages] /\ fresh' \in [Requests -> Nat]
  /\ DOMAIN state' = Requests /\ \A s \in Requests : IsState(state'[s])
  /\ DOMAIN answer' = Requests
  /\ \A s \in Requests \ {r} :
       /\ stage'[s] = stage[s] /\ state'[s] = state[s]
       /\ answer'[s] = answer[s] /\ fresh'[s] = fresh[s]
  /\ UNCHANGED ask

MayEnterNow(r, w) == Promise!MayEnter(ask[r], w, left[r], ahead[r], keys')

Admitted(r, w) ==
  /\ stage'[r] = "app" /\ MayEnterNow(r, w)
  /\ Noted(state'[r], ask[r], w) /\ Through(ask[r], w) /\ Known(state'[r], ask[r], w)
  /\ answer'[r] = answer[r] /\ fresh'[r] = fresh[r]

Refused(r, w) ==
  /\ stage'[r] = "answered" /\ ~MayEnterNow(r, w)
  /\ state'[r] = NoState /\ answer'[r] \in Refusals /\ fresh'[r] = 0

Waits(r, w) ==
  /\ stage'[r] = "keys"
  /\ Noted(state'[r], ask[r], w) /\ Through(ask[r], w) /\ Worth(state'[r], ask[r], w)
  /\ answer'[r] = answer[r] /\ fresh'[r] = fresh[r]

\* Admission and the gates go by one policy.
LEMMA OnePolicy ==
  /\ Promise!Tools = Tools
  /\ \A tool : Promise!Action(tool) = Action(tool)
BY DEF Promise!Tools, Tools, Promise!Action, Action, Promise!ReadAction, ReadAction,
       Promise!SubmitAction, SubmitAction, Promise!ApproveAction, ApproveAction,
       Promise!RecordAction, RecordAction

LEMMA NoStateType == IsState(NoState)
BY DEF NoState, IsState

LEMMA AnswerMoves ==
  ASSUME Shapes, NEW r \in Requests, NEW what, NEW until \in Nat,
         AnswerFresh(r, what, until)
  PROVE  /\ Moves(r) /\ stage'[r] = "answered" /\ state'[r] = NoState
         /\ answer'[r] = what /\ fresh'[r] = until
BY NoStateType DEF Shapes, AnswerFresh, Moves, Stages

LEMMA MoveMoves ==
  ASSUME Shapes, NEW r \in Requests, NEW to \in Stages, NEW s, IsState(s), Move(r, to, s)
  PROVE  /\ Moves(r) /\ stage'[r] = to /\ state'[r] = s
         /\ answer'[r] = answer[r] /\ fresh'[r] = fresh[r]
BY DEF Shapes, Move, Moves

LEMMA RefusalMoves ==
  ASSUME Shapes, NEW r \in Requests, NEW what \in Refusals, Answer(r, what),
         NEW w, ~MayEnterNow(r, w)
  PROVE  Moves(r) /\ Refused(r, w)
BY AnswerMoves DEF Answer, Refused

LEMMA AskFields ==
  ASSUME NEW a \in Asks
  PROVE  /\ a.token \in Token
         /\ a.parts \in Nat \ {0} /\ a.post \in BOOLEAN /\ a.json \in BOOLEAN
         /\ a.bearer \in BOOLEAN /\ a.lifetime \in Int /\ a.starts \in Nat
<1>1. a \in Ask
  BY GateAssumption
<1> QED BY <1>1 DEF Ask

\* ScopeGate lets in what MayEnter would, of what TokenGate hands it.
LEMMA ScopeGateSettles ==
  ASSUME Shapes, NEW r \in Requests, ask[r] \in Asks, NEW s, IsState(s), NEW w \in BOOLEAN,
         Noted(s, ask[r], w), Through(ask[r], w),
         IF s.principal = Absent THEN Promise!Discovery(ask[r], w)
         ELSE /\ s.principal \in People /\ ~Promise!Discovery(ask[r], w)
              /\ Promise!Credential(ask[r], left[r], ahead[r], keys'),
         ScopeGate(r, s)
  PROVE  Moves(r) /\ (Admitted(r, w) \/ Refused(r, w))
<1> DEFINE a == ask[r]
<1>1. Absent \notin Tools /\ "app" \in Stages /\ "insufficient_scope" \in Refusals
  BY DEF Absent, Tools, Stages, Refusals
<1>2. s.called \in Tools <=> /\ Promise!Legible(a, w) /\ a.method = "tools/call"
                             /\ a.name \in Tools
  BY <1>1 DEF Noted, Called
<1>3. s.called \in Tools => s.called = a.name
  BY <1>1 DEF Noted, Called
<1>4. permits_scope(CallerOf(r, s), Action(s.called))
        <=> Action(s.called).scope \in a.token.scope
  BY DEF permits_scope, CallerOf, Principal
<1>5. CASE /\ s.called \in Tools /\ s.principal # Absent
           /\ ~permits_scope(CallerOf(r, s), Action(s.called))
  <2>1. ~Promise!Entitled(a, w) /\ ~Promise!Discovery(a, w)
    BY <1>2, <1>3, <1>4, <1>5, OnePolicy DEF Promise!Entitled, Promise!Discovery
  <2>2. ~MayEnterNow(r, w)
    BY <2>1 DEF MayEnterNow, Promise!MayEnter
  <2> QED BY <1>1, <1>5, <2>2, RefusalMoves DEF ScopeGate
<1>6. CASE ~(/\ s.called \in Tools /\ s.principal # Absent
             /\ ~permits_scope(CallerOf(r, s), Action(s.called)))
  <2>1. Move(r, "app", s)
    BY <1>6 DEF ScopeGate
  <2>2. s.principal # Absent => Promise!Entitled(a, w)
    BY <1>2, <1>3, <1>4, <1>6, OnePolicy DEF Promise!Entitled
  <2>3. MayEnterNow(r, w)
    BY <2>2 DEF MayEnterNow, Promise!MayEnter, Through, Absent
  <2>4. Known(s, a, w)
    BY <2>2 DEF Known
  <2> QED BY <1>1, <2>1, <2>3, <2>4, MoveMoves DEF Admitted
<1> QED BY <1>5, <1>6

\* With the key or without it, the token is judged in one step.
LEMMA JudgedSettles ==
  ASSUME Shapes, NEW r \in Requests, ask[r] \in Asks, NEW s, IsState(s), NEW w \in BOOLEAN,
         Noted(s, ask[r], w), Through(ask[r], w), Worth(s, ask[r], w),
         Judged(r, s)
  PROVE  Moves(r) /\ (Admitted(r, w) \/ Refused(r, w))
<1> DEFINE a == ask[r]
           t == a.token
           verdict == IF t.kid \in keys' THEN AfterTheKey(t, left[r], ahead[r])
                      ELSE "unknown_key"
           known == [s EXCEPT !.principal = t.subject]
<1>1. t \in Token /\ left[r] \in Int /\ ahead[r] \in Nat
  BY AskFields DEF Shapes
<1>2. verdict \in DESCRIPTIONS \cup {Valid}
  BY <1>1, AfterTheKeySays DEF DESCRIPTIONS
<1>3. verdict = Valid /\ t.subject \in People
        <=> Promise!Credential(a, left[r], ahead[r], keys')
  <2>1. t.parses /\ t.iss = "ours" /\ a.bearer
    BY <1>1, BeforeTheKeySays DEF Worth
  <2>2. CASE t.kid \in keys'
    <3>1. verdict = Valid <=>
            /\ t.signer = t.kid /\ t.aud = "ours"
            /\ t.exp = "usable" /\ t.sub = "usable" /\ t.start = "usable"
            /\ left[r] > 0 /\ ahead[r] =< Leeway
      BY <1>1, <2>2, AfterTheKeySays
    <3>2. {t.exp, t.sub, t.start} = {"usable"}
            <=> t.exp = "usable" /\ t.sub = "usable" /\ t.start = "usable"
      OBVIOUS
    <3> HIDE DEF verdict
    <3> QED BY <2>1, <2>2, <3>1, <3>2 DEF Promise!Credential
  <2>3. CASE t.kid \notin keys'
    BY <2>3 DEF Promise!Credential, Valid
  <2> QED BY <2>2, <2>3
<1>4. ~Promise!Discovery(a, w)
  BY DEF Worth
<1> HIDE DEF verdict
<1>5. CASE verdict # Valid
  <2>1. ~MayEnterNow(r, w)
    BY <1>3, <1>4, <1>5 DEF MayEnterNow, Promise!MayEnter
  <2>2. Answer(r, verdict) /\ verdict \in Refusals
    BY <1>2, <1>5 DEF Judged, verdict, Refusals
  <2> QED BY <2>1, <2>2, RefusalMoves
<1>6. CASE verdict = Valid /\ t.subject \notin People
  <2>1. ~MayEnterNow(r, w)
    BY <1>3, <1>4, <1>6 DEF MayEnterNow, Promise!MayEnter
  <2>2. Answer(r, "role_missing") /\ "role_missing" \in Refusals
    BY <1>6 DEF Judged, verdict, Refusals
  <2> QED BY <2>1, <2>2, RefusalMoves
<1>7. CASE verdict = Valid /\ t.subject \in People
  <2>1. ScopeGate(r, known)
    BY <1>7 DEF Judged, verdict
  <2>2. IsState(known) /\ known.principal # Absent /\ Noted(known, a, w)
    BY <1>7, GateAssumption DEF IsState, Noted
  <2>3. known.principal \in People /\ Promise!Credential(a, left[r], ahead[r], keys')
    BY <1>3, <1>7
  <2> HIDE DEF known
  <2> QED BY <1>4, <2>1, <2>2, <2>3, ScopeGateSettles
<1> QED BY <1>5, <1>6, <1>7

\* TokenGate settles a request or sends it to wait for a key.
LEMMA TokenGateSettles ==
  ASSUME Shapes, NEW r \in Requests, ask[r] \in Asks, NEW s, IsState(s), NEW w \in BOOLEAN,
         Noted(s, ask[r], w), Through(ask[r], w), s.principal = Absent,
         keys' \subseteq Kids, TokenGate(r, s)
  PROVE  Moves(r) /\ (Admitted(r, w) \/ Refused(r, w) \/ Waits(r, w))
<1> DEFINE a == ask[r]
           t == a.token
<1>1. t \in Token
  BY AskFields
<1>2. s.proven = "server/discover" <=> Promise!Discovery(a, w)
  BY DEF Noted, Promise!Discovery, Absent
<1>3. CASE s.proven = "server/discover"
  BY <1>2, <1>3, ScopeGateSettles DEF TokenGate
<1>4. CASE s.proven # "server/discover" /\ ~a.bearer
  <2>1. ~MayEnterNow(r, w)
    BY <1>2, <1>4 DEF MayEnterNow, Promise!MayEnter, Promise!Credential
  <2> QED BY <1>4, <2>1, RefusalMoves DEF TokenGate, Refusals
<1>5. CASE s.proven # "server/discover" /\ a.bearer /\ BeforeTheKey(t) # Valid
  <2>1. ~(t.parses /\ t.iss = "ours") \/ t.kid = NoKid
    BY <1>1, <1>5, BeforeTheKeySays
  <2>2. ~MayEnterNow(r, w)
    BY <1>2, <1>5, <2>1, GateAssumption DEF MayEnterNow, Promise!MayEnter, Promise!Credential
  <2>3. BeforeTheKey(t) \in Refusals
    BY <1>1, <1>5, BeforeTheKeySays DEF Refusals
  <2> QED BY <1>5, <2>2, <2>3, RefusalMoves DEF TokenGate
<1>6. CASE s.proven # "server/discover" /\ a.bearer /\ BeforeTheKey(t) = Valid
  <2>1. Worth(s, a, w)
    BY <1>2, <1>6 DEF Worth
  <2>2. CASE t.kid \in keys
    BY <1>6, <2>1, <2>2, JudgedSettles DEF TokenGate
  <2>3. CASE t.kid \notin keys
    <3>1. Move(r, "keys", s) /\ "keys" \in Stages
      BY <1>6, <2>3 DEF TokenGate, Stages
    <3> QED BY <2>1, <3>1, MoveMoves DEF Waits
  <2> QED BY <2>2, <2>3
<1> QED BY <1>3, <1>4, <1>5, <1>6

\* ShapeGate does, with a body drained to its end or cut short.
LEMMA ShapeGateSettles ==
  ASSUME Shapes, NEW r \in Requests, ask[r] \in Asks, NEW w \in BOOLEAN,
         ask[r].post, ask[r].origin \in AllowedOrigins \cup {Absent},
         keys' \subseteq Kids, ShapeGate(r, w)
  PROVE  Moves(r) /\ (Admitted(r, w) \/ Refused(r, w) \/ Waits(r, w))
<1> DEFINE a == ask[r]
<1>1. CASE ~(w /\ a.json)
  <2>1. Noted(NoState, a, w) /\ Through(a, w) /\ NoState.principal = Absent
    BY <1>1 DEF Noted, Through, NoState, Promise!Legible, Promise!Truthful
  <2>2. TokenGate(r, NoState)
    BY <1>1 DEF ShapeGate
  <2> QED BY <2>1, <2>2, NoStateType, TokenGateSettles
<1>2. CASE w /\ a.json /\ a.era = "modern" /\ ~Agrees(a)
  <2>1. ~MayEnterNow(r, w)
    BY <1>2 DEF MayEnterNow, Promise!MayEnter, Promise!Truthful, Promise!Legible,
                Agrees, Absent
  <2>2. Answer(r, "header_mismatch") /\ "header_mismatch" \in Refusals
    BY <1>2 DEF ShapeGate, Refusals
  <2> QED BY <2>1, <2>2, RefusalMoves
<1>3. CASE w /\ a.json /\ ~(a.era = "modern" /\ ~Agrees(a))
  <2>1. Through(a, w)
    BY <1>3 DEF Through, Promise!Truthful, Agrees, Absent
  <2>2. /\ IsState(Shaped(r)) /\ Noted(Shaped(r), a, w)
        /\ Shaped(r).principal = Absent
    BY <1>3 DEF Shaped, IsState, Noted, Promise!Legible
  <2>3. TokenGate(r, Shaped(r))
    BY <1>3 DEF ShapeGate
  <2> QED BY <2>1, <2>2, <2>3, TokenGateSettles
<1> QED BY <1>1, <1>2, <1>3

-----------------------------------------------------------------------------
(* The gates leave the key set to itself *)

KS == INSTANCE KeySetProofs

LEMMA TokenGateAsksForAKey ==
  ASSUME NEW r \in Requests, NEW s, TokenGate(r, s)
  PROVE  UNCHANGED keyVars \/ Keys!Call(r)
BY DEF TokenGate

LEMMA SameCall ==
  ASSUME NEW r \in Requests
  PROVE  /\ Keys!Call(r) => KS!Call(r)
         /\ Keys!HitUnderLock(r) => KS!HitUnderLock(r)
         /\ Keys!RefusedByCooldown(r) => KS!RefusedByCooldown(r)
         /\ Keys!StartFetch(r) => KS!StartFetch(r)
         /\ Keys!DiscoveryArrives(r) => KS!DiscoveryArrives(r)
         /\ Keys!KeysArrive(r) => KS!KeysArrive(r)
         /\ Keys!FetchFails(r) => KS!FetchFails(r)
         /\ Keys!Cancelled(r) => KS!Cancelled(r)
         /\ Keys!KeysServed(r) => KS!KeysServed(r)
         /\ Keys!Progresses(r) => KS!Progresses(r)
<1> USE DEF Keys!cache, KS!cache, Keys!history, KS!history, Keys!waits, KS!waits
<1>1. Keys!Leave(r) => KS!Leave(r)
  BY DEF Keys!Leave, KS!Leave, Keys!RemoveAt, KS!RemoveAt
<1>2. Keys!Owner(r) => KS!Owner(r)
  BY DEF Keys!Owner, KS!Owner
<1>0. Keys!Sent => KS!Sent
  BY DEF Keys!Sent, KS!Sent, Keys!WaitBound, KS!WaitBound, Keys!Cardinality, KS!Cardinality,
     Keys!Waiting, KS!Waiting, Keys!Fetching, KS!Fetching, Keys!UpTo, KS!UpTo
<1>3. Keys!Call(r) => KS!Call(r)
  BY DEF Keys!Call, KS!Call, Keys!FetchUnderWay, KS!FetchUnderWay, Keys!Fetching, KS!Fetching
<1>4. /\ Keys!HitUnderLock(r) => KS!HitUnderLock(r)
      /\ Keys!RefusedByCooldown(r) => KS!RefusedByCooldown(r)
  BY <1>1, <1>2 DEF Keys!HitUnderLock, KS!HitUnderLock, Keys!RefusedByCooldown,
     KS!RefusedByCooldown, Keys!cooldown_elapsed, KS!cooldown_elapsed
<1>5. Keys!StartFetch(r) => KS!StartFetch(r)
  BY <1>0, <1>2 DEF Keys!StartFetch, KS!StartFetch, Keys!cooldown_elapsed, KS!cooldown_elapsed
<1>6. /\ Keys!DiscoveryArrives(r) => KS!DiscoveryArrives(r)
      /\ Keys!KeysServed(r) => KS!KeysServed(r)
  BY <1>0 DEF Keys!DiscoveryArrives, KS!DiscoveryArrives, Keys!KeysServed, KS!KeysServed
<1>7. Keys!KeysArrive(r) => KS!KeysArrive(r)
  BY <1>1 DEF Keys!KeysArrive, KS!KeysArrive, Keys!Arrived, KS!Arrived
<1>8. Keys!Abandoned => KS!Abandoned
  BY DEF Keys!Abandoned, KS!Abandoned
<1>9. /\ Keys!FetchFails(r) => KS!FetchFails(r)
      /\ Keys!Cancelled(r) => KS!Cancelled(r)
  BY <1>1, <1>8 DEF Keys!FetchFails, KS!FetchFails, Keys!Cancelled, KS!Cancelled,
     Keys!Fetching, KS!Fetching, Keys!Waiting, KS!Waiting
<1>10. Keys!Progresses(r) => KS!Progresses(r)
  BY DEF Keys!Progresses, KS!Progresses, Keys!Fetching, KS!Fetching
<1> QED BY <1>3, <1>4, <1>5, <1>6, <1>7, <1>9, <1>10

\* Every step of the replica is a step of its key set, or leaves it alone.
LEMMA KeySetSteps == [Next]_vars => [KS!Next]_KS!vars
<1> SUFFICES ASSUME [Next]_vars PROVE [KS!Next]_KS!vars
  OBVIOUS
<1> USE DEF KS!Next, KS!Own
<1>1. UNCHANGED keyVars => UNCHANGED KS!vars
  BY DEF keyVars, KS!vars, KS!cache, KS!history, KS!waits
<1>2. ASSUME NEW r \in Requests, Come(r) \/ HangUp(r) \/ Forget(r) \/ TakeBody(r)
                                 \/ Abandon(r) \/ Listing(r) \/ Call(r) \/ Packaged(r)
      PROVE  UNCHANGED keyVars
  BY <1>2 DEF Come, HangUp, Forget, TakeBody, Abandon, Listing, Call, Packaged
<1>3. ASSUME NEW r \in Requests, OriginGate(r) \/ ReadPart(r) \/ ReadDisconnect(r)
      PROVE  UNCHANGED keyVars \/ Keys!Call(r)
  BY <1>3, TokenGateAsksForAKey DEF OriginGate, ReadPart, ReadDisconnect, ShapeGate
<1>4. ASSUME NEW r \in Requests, Resolved(r) \/ Fetch(r) \/ Cancelled(r)
      PROVE  KS!Own(r) \/ KS!Cancelled(r)
  BY <1>4, SameCall DEF Resolved, Fetch, Cancelled
<1>5. Issuer => KS!Next
  <2>1. Keys!Rotate => KS!Rotate
    BY DEF Keys!Rotate, KS!Rotate, Keys!cache, KS!cache, Keys!waits, KS!waits
  <2> QED BY <2>1, SameCall DEF Issuer
<1>6. Tick => KS!Tick
  BY DEF Tick, Keys!Tick, KS!Tick, Keys!Owner, KS!Owner, Keys!FetchUnderWay,
     KS!FetchUnderWay, Keys!Fetching, KS!Fetching, Keys!UpTo, KS!UpTo
<1>7. UNCHANGED vars => UNCHANGED keyVars
  BY DEF vars
<1> QED BY <1>1, <1>2, <1>3, <1>4, <1>5, <1>6, <1>7, SameCall DEF Next, Own

LEMMA KeySetStarts == Init => KS!Init
BY DEF Init, Keys!Init, KS!Init

\* In a replica the key set behaves as by itself.
THEOREM ReplicaRunsAKeySet == Spec => KS!Spec
BY KeySetStarts, KeySetSteps, PTL DEF Spec, KS!Spec

-----------------------------------------------------------------------------
(* Every step keeps the invariant, and is a step Admission allows *)

LEMMA StandingIs ==
  ASSUME NEW r \in Requests
  PROVE  /\ Standing[r] = IF Done(r) THEN "away" ELSE IF Inside(r) THEN "inside" ELSE "outside"
         /\ Standing'[r] = IF Done(r)' THEN "away" ELSE IF Inside(r)' THEN "inside" ELSE "outside"
         /\ Whole[r] = (stage[r] # "away" /\ got[r] = ask[r].parts)
         /\ Whole'[r] = (stage'[r] # "away" /\ got'[r] = ask'[r].parts)
BY DEF Standing, Whole, Done, Inside

\* Where one request moves, the others are as they were.
OthersStay(r) ==
  \A s \in Requests \ {r} :
    /\ stage'[s] = stage[s] /\ ask'[s] = ask[s] /\ got'[s] = got[s]
    /\ state'[s] = state[s] /\ answer'[s] = answer[s] /\ fresh'[s] = fresh[s]
    /\ here'[s] = here[s] /\ left'[s] = left[s] /\ ahead'[s] = ahead[s]

LEMMA OthersKeep ==
  ASSUME IInv, NEW r \in Requests, OthersStay(r), Shapes', Stands(r)', Answered(r)'
  PROVE  IInv'
<1>1. ASSUME NEW s \in Requests \ {r}
      PROVE  Stands(s)' /\ Answered(s)'
  <2>1. Stands(s) /\ Answered(s)
    BY DEF IInv
  <2>2. /\ stage'[s] = stage[s] /\ ask'[s] = ask[s] /\ got'[s] = got[s]
        /\ state'[s] = state[s] /\ answer'[s] = answer[s] /\ fresh'[s] = fresh[s]
        /\ here'[s] = here[s] /\ left'[s] = left[s] /\ ahead'[s] = ahead[s]
    BY DEF OthersStay
  <2> QED BY <2>1, <2>2 DEF Stands, Answered, Inside, Read
<1> QED BY <1>1 DEF IInv

\* The gates settle a request or send it to wait for a key.
LEMMA SettlingKeeps ==
  ASSUME IInv, NEW r \in Requests, ask[r] \in Asks, stage[r] \in {"origin", "shape", "keys"},
         Moves(r), UNCHANGED times,
         got' \in [Requests -> Nat], got'[r] <= ask[r].parts,
         \A s \in Requests \ {r} : got'[s] = got[s],
         NEW w \in BOOLEAN, w <=> got'[r] = ask[r].parts,
         Admitted(r, w) \/ Refused(r, w) \/ Waits(r, w)
  PROVE  IInv' /\ (Promise!Judge(r) \/ Promise!Meanwhile)
<1>1. OthersStay(r)
  BY DEF OthersStay, Moves, times
<1>2. Shapes'
  BY DEF IInv, Shapes, Moves, Admitted, Refused, Waits, times
<1>3. Read(r)' = w
  BY DEF Read, Moves
<1>4. Stands(r)'
  BY <1>3 DEF Stands, Admitted, Refused, Waits, Inside, Moves
<1>5. Answered(r)'
  <2>1. answer[r] = "none" /\ fresh[r] = 0 /\ left[r] \in Int /\ left' = left
        /\ ListingTTL \in Nat
    BY GateAssumption DEF IInv, Answered, Shapes, times
  <2> QED BY <2>1 DEF Answered, Admitted, Refused, Waits, Refusals, DESCRIPTIONS,
                      remaining_lifetime
<1>6. \A s \in Requests \ {r} : Standing'[s] = Standing[s]
  BY <1>1, StandingIs DEF OthersStay, Done, Inside
<1>7. Standing[r] = "outside"
  BY StandingIs DEF Done, Inside
<1>8. Whole'[r] = w
  BY StandingIs DEF Admitted, Refused, Waits, Moves
<1>9. Promise!OnlyStanding(r)
  BY <1>6 DEF Promise!OnlyStanding, Moves, times
<1>10. CASE Admitted(r, w)
  <2>1. Standing'[r] = "inside"
    BY <1>10, StandingIs DEF Admitted, Done, Inside
  <2> QED BY <1>1, <1>2, <1>4, <1>5, <1>7, <1>8, <1>9, <1>10, <2>1, OthersKeep
          DEF Promise!Judge, Admitted, MayEnterNow
<1>11. CASE Refused(r, w)
  <2>1. Standing'[r] = "away"
    BY <1>11, StandingIs DEF Refused, Done, Inside
  <2> QED BY <1>1, <1>2, <1>4, <1>5, <1>7, <1>8, <1>9, <1>11, <2>1, OthersKeep
          DEF Promise!Judge, Refused, MayEnterNow
<1>12. CASE Waits(r, w)
  <2>1. Standing'[r] = "outside"
    BY <1>12, StandingIs DEF Waits, Done, Inside
  <2>2. Standing' = Standing
    BY <1>6, <1>7, <2>1 DEF Standing
  <2>3. Promise!Meanwhile
    BY <2>2 DEF Promise!Meanwhile, Moves, times, IInv, Shapes
  <2> QED BY <1>1, <1>2, <1>4, <1>5, <2>3, OthersKeep
<1> QED BY <1>10, <1>11, <1>12

LEMMA GateKeeps ==
  ASSUME IInv, keys' \subseteq Kids, NEW r \in Requests,
         OriginGate(r) \/ ReadPart(r) \/ ReadDisconnect(r) \/ Resolved(r)
  PROVE  IInv' /\ (Promise!Judge(r) \/ Promise!Meanwhile)
<1> DEFINE a == ask[r]
<1>1. /\ Shapes /\ Stands(r) /\ Answered(r) /\ UNCHANGED times
      /\ stage[r] \in {"origin", "shape", "keys"} /\ a \in Asks
  BY DEF IInv, Shapes, OriginGate, ReadPart, ReadDisconnect, Resolved
<1>2. a.parts \in Nat \ {0} /\ got[r] \in Nat /\ got[r] <= a.parts
  BY <1>1, AskFields DEF Shapes, Stands
<1>3. CASE OriginGate(r)
  <2>1. got' = got /\ got[r] = 0 /\ ~(got'[r] = a.parts) /\ state[r] = NoState
    BY <1>1, <1>2, <1>3 DEF OriginGate, Stands
  <2>2. CASE a.origin \notin AllowedOrigins \cup {Absent}
    <3>1. ~MayEnterNow(r, FALSE)
      BY <2>2 DEF MayEnterNow, Promise!MayEnter, Absent
    <3>2. Answer(r, "forbidden_origin") /\ "forbidden_origin" \in Refusals
      BY <1>3, <2>2 DEF OriginGate, Refusals
    <3>3. Moves(r) /\ Refused(r, FALSE)
      BY <1>1, <3>1, <3>2, RefusalMoves
    <3> QED BY <1>1, <1>2, <2>1, <3>3, SettlingKeeps DEF Shapes
  <2>3. CASE a.origin \in AllowedOrigins \cup {Absent} /\ a.post
    <3>1. Move(r, "shape", NoState) /\ "shape" \in Stages
      BY <1>3, <2>3 DEF OriginGate, Stages
    <3>2. /\ Moves(r) /\ stage'[r] = "shape" /\ state'[r] = NoState
          /\ answer'[r] = answer[r] /\ fresh'[r] = fresh[r] /\ UNCHANGED ask
      BY <1>1, <3>1, MoveMoves, NoStateType DEF Moves
    <3>3. OthersStay(r)
      BY <1>1, <2>1, <3>2 DEF OthersStay, Moves, times
    <3>4. Shapes'
      BY <1>1, <2>1, <3>2 DEF Shapes, Moves, times
    <3>5. Stands(r)' /\ Answered(r)'
      BY <1>1, <1>2, <2>1, <2>3, <3>2 DEF Stands, Answered, Inside, times
    <3>6. Standing' = Standing
      BY <1>1, <3>2, <1>3 DEF Standing, Done, Inside, Moves, OriginGate
    <3>7. Promise!Meanwhile
      BY <1>1, <3>2, <3>6 DEF Promise!Meanwhile, times, Shapes
    <3> QED BY <3>3, <3>4, <3>5, <3>7, OthersKeep
  <2>4. CASE a.origin \in AllowedOrigins \cup {Absent} /\ ~a.post
    <3>1. TokenGate(r, NoState)
      BY <1>3, <2>4 DEF OriginGate
    <3>2. Noted(NoState, a, FALSE) /\ Through(a, FALSE) /\ NoState.principal = Absent
      BY <2>4 DEF Noted, Through, NoState, Promise!Legible, Promise!Truthful
    <3>3. Moves(r) /\ (Admitted(r, FALSE) \/ Refused(r, FALSE) \/ Waits(r, FALSE))
      BY <1>1, <3>1, <3>2, NoStateType, TokenGateSettles
    <3> QED BY <1>1, <1>2, <2>1, <3>3, SettlingKeeps DEF Shapes
  <2> QED BY <2>2, <2>3, <2>4
<1>4. CASE ReadPart(r)
  <2>1. /\ a.post /\ a.origin \in AllowedOrigins \cup {Absent} /\ got[r] < a.parts
        /\ got' \in [Requests -> Nat] /\ got'[r] = got[r] + 1
        /\ \A s \in Requests \ {r} : got'[s] = got[s]
    BY <1>1, <1>2, <1>4 DEF ReadPart, Stands, Shapes
  <2>2. CASE got[r] + 1 < a.parts
    <3>1. UNCHANGED <<stage, ask, state, answer, fresh>>
      BY <1>4, <2>2 DEF ReadPart
    <3>2. OthersStay(r)
      BY <1>1, <2>1, <3>1 DEF OthersStay, times
    <3>3. Shapes'
      BY <1>1, <2>1, <3>1 DEF Shapes, times
    <3>4. Stands(r)' /\ Answered(r)'
      BY <1>1, <1>2, <1>4, <2>1, <2>2, <3>1 DEF Stands, Answered, Inside, times, ReadPart
    <3>5. Standing' = Standing
      BY <3>1 DEF Standing, Done, Inside
    <3>6. Promise!Meanwhile
      BY <1>1, <3>1, <3>5 DEF Promise!Meanwhile, times, Shapes
    <3> QED BY <3>2, <3>3, <3>4, <3>6, OthersKeep
  <2>3. CASE ~(got[r] + 1 < a.parts)
    <3>1. ShapeGate(r, TRUE)
      BY <1>4, <2>3 DEF ReadPart
    <3>2. Moves(r) /\ (Admitted(r, TRUE) \/ Refused(r, TRUE) \/ Waits(r, TRUE))
      BY <1>1, <2>1, <3>1, ShapeGateSettles
    <3>3. got'[r] = a.parts /\ got'[r] <= a.parts
      BY <1>2, <2>1, <2>3
    <3> DEFINE w == got'[r] = a.parts
    <3>4. Moves(r) /\ (Admitted(r, w) \/ Refused(r, w) \/ Waits(r, w))
      BY <3>2, <3>3
    <3>5. w \in BOOLEAN /\ (w <=> got'[r] = a.parts)
      OBVIOUS
    <3> HIDE DEF w
    <3> QED BY <1>1, <2>1, <3>3, <3>4, <3>5, SettlingKeeps
  <2> QED BY <2>2, <2>3
<1>5. CASE ReadDisconnect(r)
  <2>1. /\ a.post /\ a.origin \in AllowedOrigins \cup {Absent} /\ got[r] < a.parts
        /\ got' = got /\ ~(got'[r] = a.parts)
    BY <1>1, <1>2, <1>5 DEF ReadDisconnect, Stands
  <2>2. ShapeGate(r, FALSE)
    BY <1>5 DEF ReadDisconnect
  <2>3. Moves(r) /\ (Admitted(r, FALSE) \/ Refused(r, FALSE) \/ Waits(r, FALSE))
    BY <1>1, <2>1, <2>2, ShapeGateSettles
  <2> QED BY <1>1, <1>2, <2>1, <2>3, SettlingKeeps DEF Shapes
<1>6. CASE Resolved(r)
  <2> DEFINE w == Read(r)
  <2>1. /\ Noted(state[r], a, w) /\ Through(a, w) /\ Worth(state[r], a, w)
        /\ IsState(state[r]) /\ got' = got /\ Judged(r, state[r])
    BY <1>1, <1>6 DEF Resolved, Stands, Shapes
  <2>2. w \in BOOLEAN /\ (w <=> got'[r] = a.parts)
    BY <2>1 DEF Read
  <2> HIDE DEF w
  <2>3. Moves(r) /\ (Admitted(r, w) \/ Refused(r, w))
    BY <1>1, <2>1, <2>2, JudgedSettles
  <2> QED BY <1>1, <1>2, <2>1, <2>2, <2>3, SettlingKeeps DEF Shapes
<1> QED BY <1>3, <1>4, <1>5, <1>6

\* A request that was let in is answered, with no error of the gates' making.
LEMMA ServingKeeps ==
  ASSUME IInv, NEW r \in Requests, Inside(r), NEW what, NEW until \in Nat,
         AnswerFresh(r, what, until), UNCHANGED <<times, got>>,
         what # "internal_error", what = "abandoned" => ~here[r],
         until <= remaining_lifetime(left[r]), until <= ListingTTL
  PROVE  IInv' /\ Promise!Serve(r)
<1>1. Shapes /\ Stands(r) /\ Answered(r) /\ stage[r] # "away" /\ ask[r] \in Asks
  BY DEF IInv, Inside, Shapes
<1>2. /\ Moves(r) /\ stage'[r] = "answered" /\ state'[r] = NoState
      /\ answer'[r] = what /\ fresh'[r] = until /\ UNCHANGED ask
  BY <1>1, AnswerMoves DEF Moves
<1>3. OthersStay(r)
  BY <1>2 DEF OthersStay, Moves, times
<1>4. Shapes'
  BY <1>1, <1>2 DEF Shapes, Moves, times
<1>5. Stands(r)' /\ Answered(r)'
  BY <1>1, <1>2 DEF Stands, Answered, Inside, times
<1>6. \A s \in Requests \ {r} : Standing'[s] = Standing[s]
  BY <1>3, StandingIs DEF OthersStay, Done, Inside
<1>7. Standing[r] = "inside" /\ Standing'[r] = "away"
  BY <1>2, StandingIs DEF Done, Inside
<1>8. Promise!Serve(r)
  BY <1>2, <1>6, <1>7 DEF Promise!Serve, Promise!OnlyStanding, times
<1> QED BY <1>3, <1>4, <1>5, <1>8, OthersKeep

LEMMA ApplicationKeeps ==
  ASSUME IInv, NEW r \in Requests,
         Abandon(r) \/ Listing(r) \/ Call(r) \/ Packaged(r)
  PROVE  IInv' /\ Promise!Serve(r)
<1> DEFINE a == ask[r]
           s == state[r]
<1>1. /\ stage[r] = "running" /\ Inside(r) /\ Stands(r) /\ UNCHANGED <<times, got>>
      /\ left[r] \in Int /\ a \in Asks /\ ListingTTL \in Nat
  BY GateAssumption DEF IInv, Shapes, Inside, Abandon, Listing, Call, Packaged
<1>2. 0 \in Nat /\ 0 <= remaining_lifetime(left[r]) /\ 0 <= ListingTTL
  BY <1>1 DEF remaining_lifetime
<1>3. Noted(s, a, Read(r)) /\ Known(s, a, Read(r))
  BY <1>1 DEF Stands
<1>4. ASSUME MethodRead(r) \in {"tools/list", "tools/call"}
      PROVE  /\ Promise!Legible(a, Read(r)) /\ a.method = MethodRead(r)
             /\ s.principal # Absent /\ Promise!Entitled(a, Read(r))
  <2>1. Promise!Legible(a, Read(r)) /\ a.method = MethodRead(r)
    BY <1>4 DEF MethodRead, Promise!Legible, Read, Absent
  <2>2. ~Promise!Discovery(a, Read(r))
    BY <1>4, <2>1 DEF Promise!Discovery
  <2> QED BY <1>3, <2>1, <2>2 DEF Known
<1>5. CASE Abandon(r)
  <2>1. ~here[r] /\ AnswerFresh(r, "abandoned", 0)
    BY <1>5 DEF Abandon, Replay, Answer
  <2> QED BY <1>1, <1>2, <2>1, ServingKeeps
<1>6. CASE Listing(r)
  <2>1. AnswerFresh(r, "listed", ttl(r))
    BY <1>4, <1>6 DEF Listing
  <2>2. ttl(r) \in Nat /\ ttl(r) <= remaining_lifetime(left[r]) /\ ttl(r) <= ListingTTL
    BY <1>1 DEF ttl, remaining_lifetime
  <2> QED BY <1>1, <2>1, <2>2, ServingKeeps
<1>7. CASE Call(r)
  <2>1. /\ MethodRead(r) = "tools/call"
        /\ AnswerFresh(r, IF a.name \notin Tools THEN "invalid_params"
                          ELSE IF s.principal = Absent THEN "internal_error"
                          ELSE CallAnswer(r), 0)
    BY <1>7 DEF Call, Answer
  <2>2. CASE a.name \notin Tools
    BY <1>1, <1>2, <2>1, <2>2, ServingKeeps
  <2>3. CASE a.name \in Tools
    <3>1. permits_scope(CallerOf(r, s), Action(a.name))
      BY <1>4, <2>1, <2>3, OnePolicy
      DEF Promise!Entitled, permits_scope, CallerOf, Principal
    <3>2. CallAnswer(r) \in {"role_missing", "handled"}
      BY <3>1 DEF CallAnswer, decide_call, DenialClass, Permitted
    <3>3. AnswerFresh(r, CallAnswer(r), 0)
      BY <1>4, <2>1, <2>3
    <3> QED BY <1>1, <1>2, <3>2, <3>3, ServingKeeps
  <2> QED BY <2>2, <2>3
<1>8. CASE Packaged(r)
  <2>1. \E what \in {"discovered", "packaged"} : AnswerFresh(r, what, 0)
    BY <1>8 DEF Packaged, Answer
  <2> QED BY <1>1, <1>2, <2>1, ServingKeeps
<1> QED BY <1>5, <1>6, <1>7, <1>8

\* Requests come and go, and are begun to be served.
LEMMA ClientKeeps ==
  ASSUME IInv, NEW r \in Requests, Come(r) \/ Forget(r) \/ HangUp(r) \/ TakeBody(r)
  PROVE  IInv' /\ (Promise!Come(r) \/ Promise!Meanwhile)
<1>1. Shapes /\ Stands(r) /\ Answered(r) /\ ListingTTL \in Nat
  BY GateAssumption DEF IInv
<1>2. OthersStay(r)
  BY <1>1 DEF OthersStay, Shapes, Come, Forget, HangUp, TakeBody, Move, times
<1>3. CASE Come(r)
  <2>1. PICK a \in Asks : /\ ask' = [ask EXCEPT ![r] = a]
                          /\ left' = [left EXCEPT ![r] = a.lifetime]
                          /\ ahead' = [ahead EXCEPT ![r] = a.starts]
    BY <1>3 DEF Come
  <2>2. a.lifetime \in Int /\ a.starts \in Nat /\ a.parts \in Nat \ {0}
    BY AskFields
  <2>3. Shapes'
    BY <1>1, <1>3, <2>1, <2>2 DEF Shapes, Come, Stages
  <2>4. /\ stage[r] = "away" /\ stage'[r] = "origin" /\ ask'[r] = a /\ got'[r] = 0
        /\ state'[r] = NoState /\ answer'[r] = "none" /\ fresh'[r] = 0
        /\ left'[r] \in Int
    BY <1>1, <1>3, <2>1, <2>2 DEF Come, Shapes, Stands, Answered
  <2>5. Stands(r)' /\ Answered(r)'
    BY <1>1, <2>2, <2>4 DEF Stands, Answered, Inside, remaining_lifetime
  <2>6. Standing[r] = "away" /\ Standing'[r] = "outside"
    BY <2>4, StandingIs DEF Done, Inside
  <2>7. \A s \in Requests \ {r} : Standing'[s] = Standing[s] /\ ask'[s] = ask[s]
    BY <1>2, StandingIs DEF OthersStay, Done, Inside
  <2>8. Promise!Come(r)
    BY <2>4, <2>6, <2>7 DEF Promise!Come
  <2> QED BY <1>2, <2>3, <2>5, <2>8, OthersKeep
<1>4. CASE Forget(r)
  <2>1. Shapes'
    BY <1>1, <1>4 DEF Shapes, Forget, Stages
  <2>2. /\ stage[r] = "answered" /\ stage'[r] = "away" /\ got'[r] = 0
        /\ state'[r] = NoState /\ answer'[r] = "none" /\ fresh'[r] = 0
        /\ left'[r] = -1
    BY <1>1, <1>4 DEF Forget, Shapes, Stands
  <2>3. Stands(r)' /\ Answered(r)'
    BY <1>1, <2>2 DEF Stands, Answered, Inside, remaining_lifetime
  <2>4. Standing' = Standing /\ Standing[r] = "away"
    BY <1>2, <2>2 DEF Standing, Done, Inside, OthersStay
  <2>5. ASSUME NEW s \in Requests, Standing[s] # "away"
        PROVE  /\ ask'[s] = ask[s] /\ left'[s] <= left[s] /\ ahead'[s] <= ahead[s]
               /\ here'[s] => here[s]
    BY <1>1, <1>2, <2>4, <2>5 DEF OthersStay, Shapes
  <2>6. Promise!Meanwhile
    BY <2>4, <2>5 DEF Promise!Meanwhile
  <2> QED BY <1>2, <2>1, <2>3, <2>6, OthersKeep
<1>5. CASE HangUp(r)
  <2>1. Shapes'
    BY <1>1, <1>5 DEF Shapes, HangUp
  <2>2. /\ ~here'[r] /\ answer'[r] = answer[r]
        /\ UNCHANGED <<stage, ask, left, ahead, got, state, answer, fresh>>
    BY <1>1, <1>5 DEF HangUp, Shapes
  <2>3. Stands(r)' /\ Answered(r)'
    BY <1>1, <2>2 DEF Stands, Answered, Inside, Read
  <2>4. Standing' = Standing
    BY <2>2 DEF Standing, Done, Inside
  <2>5. \A s \in Requests : here'[s] => here[s]
    BY <1>2, <2>2 DEF OthersStay
  <2>6. Promise!Meanwhile
    BY <1>1, <2>2, <2>4, <2>5 DEF Promise!Meanwhile, Shapes
  <2> QED BY <1>2, <2>1, <2>3, <2>6, OthersKeep
<1>6. CASE TakeBody(r)
  <2>1. Move(r, "running", state[r]) /\ "running" \in Stages /\ IsState(state[r])
    BY <1>1, <1>6 DEF TakeBody, Stages, Shapes
  <2>2. /\ Moves(r) /\ stage[r] = "app" /\ stage'[r] = "running" /\ state'[r] = state[r]
        /\ answer'[r] = answer[r] /\ fresh'[r] = fresh[r]
        /\ UNCHANGED <<ask, times, got>>
    BY <1>1, <1>6, <2>1, MoveMoves DEF TakeBody, Moves
  <2>3. Shapes'
    BY <1>1, <2>2 DEF Shapes, Moves, times
  <2>4. Stands(r)' /\ Answered(r)'
    BY <1>1, <2>2 DEF Stands, Answered, Inside, times, Read
  <2>5. Standing' = Standing
    BY <2>2 DEF Standing, Done, Inside, Moves
  <2>6. Promise!Meanwhile
    BY <1>1, <2>2, <2>5 DEF Promise!Meanwhile, Shapes, times
  <2> QED BY <1>2, <2>3, <2>4, <2>6, OthersKeep
<1> QED BY <1>3, <1>4, <1>5, <1>6

\* A request whose client has gone is given up while it waits for a key.
LEMMA CancelledKeeps ==
  ASSUME IInv, NEW r \in Requests, Cancelled(r)
  PROVE  IInv' /\ Promise!Withdraw(r)
<1>1. /\ Shapes /\ Stands(r) /\ Answered(r) /\ stage[r] = "keys" /\ ~here[r]
      /\ ask[r] \in Asks /\ UNCHANGED <<times, got>>
      /\ AnswerFresh(r, "abandoned", 0)
  BY DEF IInv, Shapes, Cancelled, Answer
<1>2. /\ Moves(r) /\ stage'[r] = "answered" /\ state'[r] = NoState
      /\ answer'[r] = "abandoned" /\ fresh'[r] = 0 /\ UNCHANGED ask
  BY <1>1, AnswerMoves DEF Moves
<1>3. OthersStay(r)
  BY <1>1, <1>2 DEF OthersStay, Moves, times
<1>4. Shapes'
  BY <1>1, <1>2 DEF Shapes, Moves, times
<1>5. Stands(r)' /\ Answered(r)'
  BY <1>1, <1>2 DEF Stands, Answered, Inside, times
<1>6. \A s \in Requests \ {r} : Standing'[s] = Standing[s]
  BY <1>3, StandingIs DEF OthersStay, Done, Inside
<1>7. Standing[r] = "outside" /\ Standing'[r] = "away"
  BY <1>1, <1>2, StandingIs DEF Done, Inside
<1>8. Promise!Withdraw(r)
  BY <1>1, <1>2, <1>6, <1>7 DEF Promise!Withdraw, Promise!OnlyStanding, times
<1> QED BY <1>3, <1>4, <1>5, <1>8, OthersKeep

\* Time passes, and a listing ages with the token it was made for.
LEMMA TickKeeps ==
  ASSUME IInv, Tick
  PROVE  IInv' /\ Promise!Meanwhile
<1>1. /\ Shapes /\ UNCHANGED <<stage, ask, here, got, state, answer>>
      /\ ListingTTL \in Nat
  BY GateAssumption DEF IInv, Tick
<1>2. ASSUME NEW r \in Requests
      PROVE  /\ left[r] \in Int /\ left'[r] = Down(left[r], -1)
             /\ ahead[r] \in Nat /\ ahead'[r] = Down(ahead[r], 0)
             /\ fresh[r] \in Nat /\ fresh'[r] = Down(fresh[r], 0)
             /\ fresh[r] <= remaining_lifetime(left[r])
  BY <1>1 DEF Tick, Shapes, IInv, Answered
<1>3. ASSUME NEW r \in Requests
      PROVE  /\ left'[r] \in Int /\ left'[r] <= left[r]
             /\ ahead'[r] \in Nat /\ ahead'[r] <= ahead[r]
             /\ fresh'[r] \in Nat /\ fresh'[r] <= fresh[r]
             /\ fresh'[r] <= remaining_lifetime(left'[r])
  BY <1>2 DEF Down, remaining_lifetime
<1>4. Shapes'
  BY <1>1, <1>3 DEF Shapes, Tick
<1>5. ASSUME NEW r \in Requests
      PROVE  Stands(r)' /\ Answered(r)'
  <2>1. Stands(r) /\ Answered(r)
    BY DEF IInv
  <2> QED BY <1>1, <1>2, <1>3, <2>1 DEF Stands, Answered, Inside, Read
<1>6. IInv'
  BY <1>4, <1>5 DEF IInv
<1>7. Standing' = Standing
  BY <1>1 DEF Standing, Done, Inside
<1>8. Promise!Meanwhile
  BY <1>1, <1>3, <1>7 DEF Promise!Meanwhile
<1> QED BY <1>6, <1>8

LEMMA InitHolds == Init => IInv /\ Promise!Init
<1> SUFFICES ASSUME Init PROVE IInv /\ Promise!Init
  OBVIOUS
<1>1. Shapes
  BY NoStateType DEF Init, Shapes, Stages
<1>2. ASSUME NEW r \in Requests PROVE Stands(r) /\ Answered(r)
  BY <1>1, GateAssumption DEF Init, Stands, Answered, Inside, remaining_lifetime
<1>3. Promise!Init
  <2>1. Standing = [r \in Requests |-> "away"]
    <3>1. \A r \in Requests : Standing[r] = "away"
      BY StandingIs DEF Init, Done
    <3> QED BY <3>1 DEF Standing
  <2>2. Whole \in [Requests -> BOOLEAN]
    BY DEF Whole
  <2>3. here \in [Requests -> BOOLEAN] /\ left \in [Requests -> Int]
        /\ ahead \in [Requests -> Nat]
    BY <1>1 DEF Shapes
  <2>4. keys = {}
    BY DEF Init, Keys!Init
  <2> QED BY <2>1, <2>2, <2>3, <2>4 DEF Promise!Init
<1> QED BY <1>1, <1>2, <1>3 DEF IInv

LEMMA NextKeeps ==
  IInv /\ (keys \subseteq Kids)' /\ [Next]_vars => IInv' /\ [Promise!Next]_Promise!vars
<1> SUFFICES ASSUME IInv, keys' \subseteq Kids, [Next]_vars
             PROVE  IInv' /\ [Promise!Next]_Promise!vars
  OBVIOUS
<1>1. ASSUME UNCHANGED <<stage, ask, times, got, state, answer, fresh>>
      PROVE  IInv' /\ Promise!Meanwhile
  <2>1. IInv'
    BY <1>1 DEF IInv, Shapes, Stands, Answered, Inside, Read, times
  <2>2. Standing' = Standing
    BY <1>1 DEF Standing, Done, Inside
  <2> QED BY <1>1, <2>1, <2>2 DEF Promise!Meanwhile, IInv, Shapes, times
<1>2. ASSUME NEW r \in Requests,
             Come(r) \/ Own(r) \/ ReadPart(r) \/ Cancelled(r) \/ HangUp(r) \/ Forget(r)
      PROVE  IInv' /\ Promise!Next
  <2>1. CASE OriginGate(r) \/ ReadPart(r) \/ ReadDisconnect(r) \/ Resolved(r)
    BY <2>1, GateKeeps DEF Promise!Next
  <2>2. CASE Fetch(r)
    BY <1>1, <2>2 DEF Fetch, Promise!Next
  <2>3. CASE Abandon(r) \/ Listing(r) \/ Call(r) \/ Packaged(r)
    BY <2>3, ApplicationKeeps DEF Promise!Next
  <2>4. CASE Come(r) \/ Forget(r) \/ HangUp(r) \/ TakeBody(r)
    BY <2>4, ClientKeeps DEF Promise!Next
  <2>5. CASE Cancelled(r)
    BY <2>5, CancelledKeeps DEF Promise!Next
  <2> QED BY <1>2, <2>1, <2>2, <2>3, <2>4, <2>5 DEF Own
<1>3. CASE Issuer
  BY <1>1, <1>3 DEF Issuer, Promise!Next
<1>4. CASE Tick
  BY <1>4, TickKeeps DEF Promise!Next
<1>5. CASE UNCHANGED vars
  BY <1>1, <1>5 DEF vars, Promise!Next
<1> QED BY <1>2, <1>3, <1>4, <1>5 DEF Next

-----------------------------------------------------------------------------
(* The theorems *)

\* The keys held are keys of the issuer's, all through.
LEMMA KeySetHolds == Spec => []KS!IInv
<1>1. KS!Init => KS!IInv
  BY KS!InitHolds, GateAssumption DEF IsFiniteSet, KS!IsFiniteSet
<1>2. KS!IInv /\ [KS!Next]_KS!vars => KS!IInv'
  BY KS!NextKeeps, GateAssumption DEF IsFiniteSet, KS!IsFiniteSet
<1> QED BY <1>1, <1>2, KeySetStarts, KeySetSteps, PTL DEF Spec

LEMMA KeysAreNamed ==
  /\ KS!IInv => Keys!TypeOK /\ keys \subseteq Kids
  /\ KS!IInv' => (keys \subseteq Kids)' /\ keys' \subseteq basis'
BY DEF KS!IInv, KS!TypeOK, Keys!TypeOK, KS!CacheIsOneFetch, KS!PCs, Keys!PCs, KS!Waiting,
       Keys!Waiting, KS!Fetching, Keys!Fetching

\* The inductive invariant, with the key set's beside it.
THEOREM Invariance == Spec => [](IInv /\ KS!IInv)
BY KeysAreNamed, InitHolds, NextKeeps, KeySetHolds, PTL DEF Spec

\* The chain implements Admission: whatever a request waits for, and whatever the
\* others do meanwhile, it is let in exactly when it has everything it needs in
\* the step that lets it in.
THEOREM Implements == Spec => AdmissionSpec
BY KeysAreNamed, InitHolds, NextKeeps, Invariance, PTL DEF Spec, AdmissionSpec, Promise!Spec

\* Type correctness.
THEOREM TypeCorrect == Spec => []TypeOK
<1>1. IInv /\ KS!IInv => TypeOK
  <2> SUFFICES ASSUME IInv, KS!IInv PROVE TypeOK
    OBVIOUS
  <2>1. Shapes /\ Keys!TypeOK /\ ListingTTL \in Nat
    BY KeysAreNamed, GateAssumption DEF IInv
  <2>2. ASSUME NEW r \in Requests
        PROVE  /\ IF stage[r] = "away" THEN ask[r] = NoAsk /\ state[r] = NoState
                  ELSE /\ ask[r] \in Asks /\ got[r] \in 0..ask[r].parts
                       /\ state[r].called \in {Absent, ask[r].name}
                       /\ state[r].proven \in {Absent, ask[r].method}
               /\ here[r] \in BOOLEAN /\ left[r] \in Int /\ ahead[r] \in Nat
               /\ state[r].principal \in People \cup {Absent}
               /\ fresh[r] \in 0..ListingTTL
    <3>1. Stands(r) /\ Answered(r)
      BY DEF IInv
    <3>2. CASE stage[r] = "away"
      BY <2>1, <3>1, <3>2 DEF Shapes, Stands, Answered, NoState
    <3>3. CASE stage[r] # "away"
      <4>1. ask[r] \in Asks /\ got[r] \in Nat /\ ask[r].parts \in Nat /\ got[r] <= ask[r].parts
        BY <2>1, <3>1, <3>3, AskFields DEF Shapes, Stands
      <4>2. /\ state[r].called \in {Absent, ask[r].name}
            /\ state[r].proven \in {Absent, ask[r].method}
            /\ state[r].principal \in People \cup {Absent}
        <5>1. CASE stage[r] \in {"origin", "shape", "answered"}
          BY <3>1, <5>1 DEF Stands, NoState
        <5>2. CASE stage[r] \in {"keys", "app", "running"}
          BY <3>1, <5>2 DEF Stands, Noted, Worth, Known, Inside, Called
        <5> QED BY <2>1, <3>3, <5>1, <5>2 DEF Shapes, Stages
      <4> QED BY <2>1, <3>1, <3>3, <4>1, <4>2 DEF Shapes, Answered
    <3> QED BY <3>2, <3>3
  <2> QED BY <2>1, <2>2 DEF Shapes, TypeOK
<1> QED BY <1>1, Invariance, PTL

\* Nobody without a principal runs anything but discovery behind the gates.
THEOREM StrangersOnlyDiscover == Spec => []OnlyDiscoveryAnswersStrangers
<1>1. IInv => OnlyDiscoveryAnswersStrangers
  <2> SUFFICES ASSUME IInv, NEW r \in Requests, Inside(r), state[r].principal = Absent
               PROVE  MethodRead(r) = "server/discover" /\ ask[r].era = "modern"
    BY DEF OnlyDiscoveryAnswersStrangers
  <2>1. Promise!Discovery(ask[r], Read(r))
    BY DEF IInv, Stands, Known
  <2> QED BY <2>1 DEF Promise!Discovery, Promise!Legible, MethodRead, Read
<1> QED BY <1>1, Invariance, PTL

\* Dispatch meets no request the gates should have stopped.
THEOREM NothingLeftToFail == Spec => []GatesLeaveNothingToFail
<1>1. IInv => GatesLeaveNothingToFail
  BY DEF IInv, Answered, GatesLeaveNothingToFail
<1> QED BY <1>1, Invariance, PTL

\* No listing outlives the token it was made for.
THEOREM ListingsDie == Spec => []ListingDiesWithItsToken
<1>1. IInv => ListingDiesWithItsToken
  BY DEF IInv, Answered, ListingDiesWithItsToken
<1> QED BY <1>1, Invariance, PTL

\* Nobody who is still there is given up.
THEOREM OnlyTheirClientsAbandon == Spec => []AbandonedByItsClient
<1>1. IInv => AbandonedByItsClient
  BY DEF IInv, Answered, AbandonedByItsClient
<1> QED BY <1>1, Invariance, PTL

\* Whoever is let in with a principal shows a token under a key its issuer
\* published while the keys held were being fetched.
THEOREM SignedByTheIssuer == Spec => KeysAreTheIssuers
<1>1. IInv' /\ KS!IInv' /\ [Promise!Next]_Promise!vars =>
        [\A r \in Requests :
           ~Inside(r) /\ Inside(r)' /\ state'[r].principal # Absent =>
             ask[r].token.signer \in basis']_vars
  <2> SUFFICES ASSUME IInv', KS!IInv', [Promise!Next]_Promise!vars,
                      NEW r \in Requests, ~Inside(r), Inside(r)',
                      state'[r].principal # Absent
               PROVE  ask[r].token.signer \in basis'
    OBVIOUS
  <2>1. Standing[r] # "inside" /\ Standing'[r] = "inside"
    BY StandingIs DEF Done, Inside
  <2>2. Promise!Judge(r)
    BY <2>1 DEF Promise!Next, Promise!vars, Promise!Come, Promise!Judge, Promise!Withdraw,
                Promise!Serve, Promise!Meanwhile, Promise!OnlyStanding
  <2>3. ask' = ask /\ Whole'[r] = Read(r)'
    BY <2>2, StandingIs DEF Promise!Judge, Promise!OnlyStanding, Read, Inside
  <2>4. ~Promise!Discovery(ask[r], Whole'[r])
    BY <2>3 DEF IInv, Stands, Known
  <2>5. Promise!Credential(ask[r], left[r], ahead[r], keys')
    BY <2>1, <2>2, <2>4 DEF Promise!Judge, Promise!MayEnter
  <2> QED BY <2>5, KeysAreNamed DEF Promise!Credential
<1>2. IInv /\ (keys \subseteq Kids)' /\ [Next]_vars => [Promise!Next]_Promise!vars
  BY NextKeeps
<1> QED BY <1>1, <1>2, KeysAreNamed, Invariance, PTL DEF Spec, KeysAreTheIssuers

\* The key set is asked by requests that wait for a key, and by no others.
Asking == \A r \in Requests : pc[r] # "answered" => stage[r] = "keys"

LEMMA AskingKeeps ==
  ASSUME KS!IInv, Asking, DOMAIN stage = Requests, [Next]_vars
  PROVE  Asking'
<1>1. DOMAIN pc = Requests
  BY DEF KS!IInv, KS!TypeOK
<1>3. ASSUME NEW r \in Requests, pc' = [pc EXCEPT ![r] = "answered"],
             \A s \in Requests \ {r} : stage'[s] = stage[s]
      PROVE  Asking'
  BY <1>1, <1>3 DEF Asking
<1>4. ASSUME NEW r \in Requests, stage'[r] = "keys", DOMAIN pc' = Requests,
             \A s \in Requests \ {r} : pc'[s] = pc[s] /\ stage'[s] = stage[s]
      PROVE  Asking'
  BY <1>4 DEF Asking
<1>5. ASSUME NEW r \in Requests, NEW what, NEW until, AnswerFresh(r, what, until)
      PROVE  \A s \in Requests \ {r} : stage'[s] = stage[s]
  BY <1>5 DEF AnswerFresh
<1>6. ASSUME NEW r \in Requests, NEW to, NEW s, Move(r, to, s)
      PROVE  \A q \in Requests \ {r} : stage'[q] = stage[q]
  BY <1>6 DEF Move
<1>7. ASSUME NEW r \in Requests, NEW s, ScopeGate(r, s) \/ Judged(r, s)
      PROVE  \A q \in Requests \ {r} : stage'[q] = stage[q]
  BY <1>5, <1>6, <1>7 DEF ScopeGate, Judged, Answer
<1>8. ASSUME NEW r \in Requests, NEW s, TokenGate(r, s), stage[r] # "keys"
      PROVE  Asking'
  <2>1. CASE UNCHANGED keyVars
    <3>1. \A q \in Requests \ {r} : stage'[q] = stage[q]
      BY <1>5, <1>6, <1>7, <1>8 DEF TokenGate, Answer
    <3> QED BY <1>8, <2>1, <3>1 DEF Asking, keyVars
  <2>2. CASE Keys!Call(r) /\ Move(r, "keys", s)
    <3>1. stage'[r] = "keys" /\ pc' = [pc EXCEPT ![r] = "queued"]
      BY <2>2 DEF Keys!Call, Move
    <3> QED BY <1>1, <1>4, <1>6, <2>2, <3>1
  <2> QED BY <1>8, <2>1, <2>2 DEF TokenGate
<1>9. ASSUME NEW r \in Requests, OriginGate(r) \/ ReadPart(r) \/ ReadDisconnect(r)
      PROVE  Asking'
  <2>1. stage[r] # "keys"
    BY <1>9 DEF OriginGate, ReadPart, ReadDisconnect
  <2>2. CASE \E s : TokenGate(r, s)
    BY <1>8, <2>1, <2>2
  <2>3. CASE UNCHANGED <<keyVars, stage>>
    BY <2>3 DEF Asking, keyVars
  <2>4. ASSUME UNCHANGED keyVars, NEW what, Answer(r, what)
        PROVE  Asking'
    BY <1>5, <2>1, <2>4 DEF Asking, keyVars, Answer
  <2>5. ASSUME UNCHANGED keyVars, Move(r, "shape", NoState)
        PROVE  Asking'
    BY <1>6, <2>1, <2>5 DEF Asking, keyVars
  <2> QED BY <1>9, <2>2, <2>3, <2>4, <2>5 DEF OriginGate, ReadPart, ReadDisconnect, ShapeGate
<1>10. ASSUME NEW r \in Requests, Resolved(r) \/ Cancelled(r)
       PROVE  Asking'
  <2>1. pc' = [pc EXCEPT ![r] = "answered"]
    BY <1>10 DEF Resolved, Cancelled, Keys!HitUnderLock, Keys!RefusedByCooldown,
       Keys!KeysArrive, Keys!Arrived, Keys!FetchFails, Keys!Cancelled, Keys!Leave
  <2>2. \A s \in Requests \ {r} : stage'[s] = stage[s]
    BY <1>5, <1>7, <1>10 DEF Resolved, Cancelled, Answer
  <2> QED BY <1>3, <2>1, <2>2
<1>11. ASSUME NEW r \in Requests, UNCHANGED stage, pc[r] # "answered",
              \A s \in Requests \ {r} : pc'[s] = pc[s]
       PROVE  Asking'
  BY <1>11 DEF Asking
<1>12. ASSUME NEW r \in Requests, Fetch(r)
       PROVE  Asking'
  <2>1. /\ pc[r] # "answered" /\ UNCHANGED stage
        /\ \A s \in Requests \ {r} : pc'[s] = pc[s]
    BY <1>1, <1>12 DEF Fetch, Keys!StartFetch, Keys!DiscoveryArrives, Keys!Owner
  <2> QED BY <1>11, <2>1
<1>13. CASE Issuer
  <2>1. UNCHANGED stage
    BY <1>13 DEF Issuer
  <2>2. CASE Keys!Rotate
    BY <2>1, <2>2 DEF Keys!Rotate, Asking
  <2>3. ASSUME NEW r \in Requests, Keys!KeysServed(r)
        PROVE  Asking'
    <3>1. pc[r] # "answered" /\ \A s \in Requests \ {r} : pc'[s] = pc[s]
      BY <1>1, <2>3 DEF Keys!KeysServed
    <3> QED BY <1>11, <2>1, <3>1
  <2>4. ASSUME NEW r \in Requests, Keys!Progresses(r)
        PROVE  Asking'
    BY <2>1, <2>4 DEF Keys!Progresses, Asking
  <2> QED BY <1>13, <2>2, <2>3, <2>4 DEF Issuer
<1>14. CASE Tick \/ UNCHANGED vars
  BY <1>14 DEF Tick, Keys!Tick, Asking, vars, keyVars
<1>15. ASSUME NEW r \in Requests,
              Come(r) \/ Forget(r) \/ HangUp(r) \/ TakeBody(r) \/ Abandon(r) \/ Listing(r)
              \/ Call(r) \/ Packaged(r)
       PROVE  Asking'
  <2>1. UNCHANGED keyVars /\ (UNCHANGED stage \/ stage[r] # "keys")
    BY <1>15 DEF Come, Forget, HangUp, TakeBody, Abandon, Listing, Call, Packaged
  <2>2. \A s \in Requests \ {r} : stage'[s] = stage[s]
    BY <1>5, <1>6, <1>15 DEF Come, Forget, HangUp, TakeBody, Abandon, Listing, Call,
                             Packaged, Answer
  <2> QED BY <2>1, <2>2 DEF Asking, keyVars
<1> QED BY <1>9, <1>10, <1>12, <1>13, <1>14, <1>15 DEF Next, Own

\* Nothing is asked of the issuer for a token that does not claim to be its own.
THEOREM ForeignTokensCostNothing == Spec => []OnlyOurTokensCostAFetch
<1>1. Init => Asking
  BY DEF Init, Keys!Init, Asking
<1>2. IInv /\ KS!IInv /\ Asking /\ [Next]_vars => Asking'
  <2>1. IInv => DOMAIN stage = Requests
    BY DEF IInv, Shapes
  <2> QED BY <2>1, AskingKeeps
<1>3. IInv /\ Asking => OnlyOurTokensCostAFetch
  <2> SUFFICES ASSUME IInv, Asking, NEW r \in Requests, pc[r] # "answered"
               PROVE  ask[r].token.iss = "ours"
    BY DEF OnlyOurTokensCostAFetch
  <2>1. Worth(state[r], ask[r], Read(r)) /\ ask[r] \in Asks
    BY DEF Asking, IInv, Stands, Shapes
  <2> QED BY <2>1, AskFields, BeforeTheKeySays DEF Worth
<1> QED BY <1>1, <1>2, <1>3, Invariance, PTL DEF Spec

-----------------------------------------------------------------------------
(* Which fault a refused token is told *)

\* A list of checks answers with one of them that fails, and none before it does.
LEMMA FirstFailingIsFirst ==
  ASSUME NEW n \in 1..10,
         NEW checks \in [1..n -> DESCRIPTIONS \cup {Valid}],
         FirstFailing(checks) # Valid
  PROVE  \E i \in 1..n : /\ checks[i] = FirstFailing(checks) /\ checks[i] # Valid
                         /\ \A j \in 1..n : j < i => checks[j] = Valid
<1> DEFINE failing == {i \in DOMAIN checks : checks[i] # Valid}
<1>1. failing # {} /\ failing \in SUBSET (1..10)
  BY DEF FirstFailing
<1>2. PICK i : i = Min(failing)
  OBVIOUS
<1>3. i \in failing /\ \A j \in failing : i =< j
  BY <1>1, <1>2, LeastIndex
<1>4. FirstFailing(checks) = checks[i]
  BY <1>1, <1>2 DEF FirstFailing
<1> QED BY <1>3, <1>4

\* A fault that is there, and none of a lower rank is.
Earliest(what, t, l, h, ks) ==
  \E f \in Faults(t, l, h, ks) :
    f.says = what /\ \A g \in Faults(t, l, h, ks) : f.rank <= g.rank

\* A fault of some rank, where there is none of a lower one.
LEMMA RankIsLeast ==
  ASSUME NEW t, NEW l, NEW h, NEW ks, NEW n \in 1..5, NEW what \in DESCRIPTIONS,
         [rank |-> n, says |-> what] \in Faults(t, l, h, ks),
         \A g \in Faults(t, l, h, ks) : ~(g.rank < n)
  PROVE  Earliest(what, t, l, h, ks)
<1>1. \A g \in Faults(t, l, h, ks) : g.rank \in 1..5
  BY DEF Faults
<1>2. \A g \in Faults(t, l, h, ks) : n <= g.rank
  BY <1>1
<1>3. PICK f : f = [rank |-> n, says |-> what]
  OBVIOUS
<1> QED BY <1>2, <1>3 DEF Earliest

\* Before the key is looked up: nothing is said of a token but its earliest fault.
LEMMA StructureFirst ==
  ASSUME NEW t \in Token, NEW l, NEW h, NEW ks, NoKid \notin ks,
         BeforeTheKey(t) # Valid
  PROVE  Earliest(BeforeTheKey(t), t, l, h, ks)
<1> DEFINE checks ==
      << Check(~t.parses,         "malformed"),
         Check(t.iss = "absent",  "malformed"),
         Check(t.iss # "ours",    "issuer_mismatch"),
         Check(t.kid = NoKid,     "unknown_key") >>
<1>1. checks \in [1..4 -> DESCRIPTIONS \cup {Valid}]
  BY DEF Check, DESCRIPTIONS, Token
<1>2. BeforeTheKey(t) = FirstFailing(checks)
  BY DEF BeforeTheKey
<1>3. PICK i \in 1..4 : /\ checks[i] = BeforeTheKey(t) /\ checks[i] # Valid
                        /\ \A j \in 1..4 : j < i => checks[j] = Valid
  <2> HIDE DEF checks
  <2> QED BY <1>1, <1>2, FirstFailingIsFirst
<1>4. /\ checks[1] = Valid <=> t.parses
      /\ checks[2] = Valid <=> t.iss # "absent"
      /\ checks[3] = Valid <=> t.iss = "ours"
      /\ checks[1] \in {Valid, "malformed"} /\ checks[2] \in {Valid, "malformed"}
      /\ checks[3] \in {Valid, "issuer_mismatch"}
      /\ checks[4] \in {Valid, "unknown_key"} /\ (checks[4] # Valid => t.kid = NoKid)
  BY DEF Check, Valid, Token
<1>5. /\ {"malformed", "issuer_mismatch", "unknown_key"} \subseteq DESCRIPTIONS
      /\ t.iss \in {"ours", "foreign", "absent"}
  BY DEF DESCRIPTIONS, Token
<1> HIDE DEF checks
<1>6. CASE i = 1 \/ i = 2
  <2>1. BeforeTheKey(t) = "malformed" /\ (~t.parses \/ t.iss = "absent")
    BY <1>3, <1>4, <1>6
  <2>2. [rank |-> 1, says |-> "malformed"] \in Faults(t, l, h, ks)
    BY <1>5, <2>1 DEF Faults
  <2>3. \A g \in Faults(t, l, h, ks) : ~(g.rank < 1)
    BY DEF Faults
  <2> QED BY <1>5, <2>1, <2>2, <2>3, RankIsLeast
<1>7. CASE i = 3
  <2>1. BeforeTheKey(t) = "issuer_mismatch" /\ t.parses /\ t.iss = "foreign"
    BY <1>3, <1>4, <1>5, <1>7
  <2>2. [rank |-> 2, says |-> "issuer_mismatch"] \in Faults(t, l, h, ks)
    BY <1>5, <2>1 DEF Faults
  <2>3. \A g \in Faults(t, l, h, ks) : ~(g.rank < 2)
    BY <2>1 DEF Faults
  <2> QED BY <1>5, <2>1, <2>2, <2>3, RankIsLeast
<1>8. CASE i = 4
  <2>1. BeforeTheKey(t) = "unknown_key" /\ t.parses /\ t.iss = "ours" /\ t.kid \notin ks
    BY <1>3, <1>4, <1>5, <1>8
  <2>2. [rank |-> 3, says |-> "unknown_key"] \in Faults(t, l, h, ks)
    BY <1>5, <2>1 DEF Faults
  <2>3. \A g \in Faults(t, l, h, ks) : ~(g.rank < 3)
    BY <2>1 DEF Faults
  <2> QED BY <1>5, <2>1, <2>2, <2>3, RankIsLeast
<1> QED BY <1>6, <1>7, <1>8

\* A key that is not held is the third kind, and the first two have been looked at.
LEMMA KeyNext ==
  ASSUME NEW t \in Token, NEW l, NEW h, NEW ks, BeforeTheKey(t) = Valid, t.kid \notin ks
  PROVE  Earliest("unknown_key", t, l, h, ks)
<1>1. t.parses /\ t.iss = "ours" /\ "unknown_key" \in DESCRIPTIONS
  BY BeforeTheKeySays DEF DESCRIPTIONS
<1>2. [rank |-> 3, says |-> "unknown_key"] \in Faults(t, l, h, ks)
  BY <1>1 DEF Faults
<1>3. \A g \in Faults(t, l, h, ks) : ~(g.rank < 3)
  BY <1>1 DEF Faults
<1> QED BY <1>1, <1>2, <1>3, RankIsLeast

\* With the key: the signature before the claims, and of the claims any one fault.
LEMMA ClaimsLast ==
  ASSUME NEW t \in Token, NEW l \in Int, NEW h \in Nat, NEW ks,
         BeforeTheKey(t) = Valid, t.kid \in ks, AfterTheKey(t, l, h) # Valid
  PROVE  Earliest(AfterTheKey(t, l, h), t, l, h, ks)
<1> DEFINE checks ==
      << Check(t.signer # t.kid,       "signature_invalid"),
         Check(t.exp = "absent",       "malformed"),
         Check(t.aud = "absent",       "audience_missing"),
         Check(t.sub = "absent",       "malformed"),
         Check(t.exp = "unusable",     "malformed"),
         Check(l <= 0,                 "token_expired"),
         Check(t.aud # "ours",         "audience_mismatch"),
         Check(t.sub = "unusable",     "malformed"),
         Check(t.start = "unusable",   "malformed"),
         Check(h > Leeway,             "malformed") >>
<1>1. checks \in [1..10 -> DESCRIPTIONS \cup {Valid}]
  BY DEF Check, DESCRIPTIONS
<1>2. AfterTheKey(t, l, h) = FirstFailing(checks)
  BY DEF AfterTheKey
<1>3. PICK i \in 1..10 : /\ checks[i] = AfterTheKey(t, l, h) /\ checks[i] # Valid
                         /\ \A j \in 1..10 : j < i => checks[j] = Valid
  <2> HIDE DEF checks
  <2> QED BY <1>1, <1>2, FirstFailingIsFirst
<1>4. /\ t.parses /\ t.iss = "ours" /\ checks[i] \in DESCRIPTIONS
      /\ t.exp \in {"usable", "absent", "unusable"}
      /\ t.sub \in {"usable", "absent", "unusable"}
      /\ t.start \in {"usable", "unusable"} /\ t.aud \in {"ours", "foreign", "absent"}
  <2>1. t.parses /\ t.iss = "ours"
    BY BeforeTheKeySays
  <2>2. checks[i] \in DESCRIPTIONS
    <3> HIDE DEF checks
    <3> QED BY <1>1, <1>3
  <2> HIDE DEF checks
  <2> QED BY <2>1, <2>2 DEF Token, Claim
<1>5. CASE t.signer # t.kid
  <2>1. i = 1
    <3>1. checks[1] # Valid
      BY <1>5 DEF Check, Valid
    <3> HIDE DEF checks
    <3> QED BY <1>3, <3>1
  <2>2. checks[i] = "signature_invalid"
    BY <1>5, <2>1 DEF Check
  <2>3. [rank |-> 4, says |-> "signature_invalid"] \in Faults(t, l, h, ks)
    BY <1>5 DEF Faults, DESCRIPTIONS
  <2>4. \A g \in Faults(t, l, h, ks) : ~(g.rank < 4)
    BY <1>4 DEF Faults
  <2> HIDE DEF checks
  <2> QED BY <1>3, <1>4, <2>2, <2>3, <2>4, RankIsLeast
<1>6. CASE t.signer = t.kid
  <2>1. \A g \in Faults(t, l, h, ks) : ~(g.rank < 5)
    BY <1>4, <1>6 DEF Faults
  <2>2. i # 1
    BY <1>3, <1>6 DEF Check, Valid
  <2>3. \/ checks[i] = "token_expired" /\ l <= 0 /\ t.exp = "usable"
        \/ checks[i] = "audience_missing" /\ t.aud = "absent"
        \/ checks[i] = "audience_mismatch" /\ t.aud = "foreign"
        \/ checks[i] = "malformed" /\ (h > Leeway \/ t.start = "unusable"
                                       \/ {t.exp, t.sub} # {"usable"})
    <3>1. CASE i \in {2, 4, 5, 8, 9, 10}
      BY <1>3, <3>1 DEF Check, Valid
    <3>2. CASE i = 3
      BY <1>3, <3>2 DEF Check, Valid
    <3>3. CASE i = 6
      <4>1. checks[2] = Valid /\ checks[5] = Valid
        <5> HIDE DEF checks
        <5> QED BY <1>3, <3>3
      <4>2. t.exp = "usable"
        BY <1>4, <4>1 DEF Check, Valid
      <4> QED BY <1>3, <3>3, <4>2 DEF Check, Valid
    <3>4. CASE i = 7
      <4>1. checks[3] = Valid
        <5> HIDE DEF checks
        <5> QED BY <1>3, <3>4
      <4>2. t.aud # "absent"
        BY <4>1 DEF Check, Valid
      <4> QED BY <1>3, <1>4, <3>4, <4>2 DEF Check, Valid
    <3> HIDE DEF checks
    <3> QED BY <2>2, <3>1, <3>2, <3>3, <3>4
  <2> HIDE DEF checks
  <2>4. PICK says : says = checks[i]
    OBVIOUS
  <2>5. [rank |-> 5, says |-> says] \in Faults(t, l, h, ks)
    BY <1>4, <2>3, <2>4 DEF Faults
  <2> QED BY <1>3, <1>4, <2>1, <2>4, <2>5, RankIsLeast
<1> QED BY <1>5, <1>6

\* What a step may tell a request that is not done: the first cause, if a cause.
Causes(r) ==
  answer'[r] \in DESCRIPTIONS => Earliest(answer'[r], ask[r].token, left[r], ahead[r], keys')

LEMMA OtherAnswers ==
  ASSUME Shapes, NEW r \in Requests, NEW what, NEW until, AnswerFresh(r, what, until),
         what \in DESCRIPTIONS => Earliest(what, ask[r].token, left[r], ahead[r], keys')
  PROVE  Causes(r) /\ \A q \in Requests \ {r} : answer'[q] = answer[q]
BY DEF AnswerFresh, Causes, Shapes

LEMMA MovedOn ==
  ASSUME NEW r \in Requests, NEW to, NEW s, Move(r, to, s), answer[r] = "none"
  PROVE  Causes(r) /\ \A q \in Requests \ {r} : answer'[q] = answer[q]
BY DEF Move, Causes, DESCRIPTIONS

\* The gates one by one, each of which moves or answers one request.
LEMMA ScopeGateCauses ==
  ASSUME Shapes, NEW r \in Requests, NEW s, answer[r] = "none", ScopeGate(r, s)
  PROVE  Causes(r) /\ \A q \in Requests \ {r} : answer'[q] = answer[q]
<1>1. "insufficient_scope" \notin DESCRIPTIONS
  BY DEF DESCRIPTIONS
<1> QED BY <1>1, OtherAnswers, MovedOn DEF ScopeGate, Answer

LEMMA JudgedCauses ==
  ASSUME Shapes, NEW r \in Requests, ask[r] \in Asks, NEW s, answer[r] = "none",
         BeforeTheKey(ask[r].token) = Valid, Judged(r, s)
  PROVE  Causes(r) /\ \A q \in Requests \ {r} : answer'[q] = answer[q]
<1> DEFINE t == ask[r].token
           verdict == IF t.kid \in keys' THEN AfterTheKey(t, left[r], ahead[r])
                      ELSE "unknown_key"
<1>1. t \in Token /\ left[r] \in Int /\ ahead[r] \in Nat
  BY AskFields DEF Shapes
<1>2. verdict # Valid => Earliest(verdict, t, left[r], ahead[r], keys')
  BY <1>1, KeyNext, ClaimsLast
<1>3. "role_missing" \notin DESCRIPTIONS
  BY DEF DESCRIPTIONS
<1>4. \/ verdict # Valid /\ Answer(r, verdict)
      \/ Answer(r, "role_missing")
      \/ ScopeGate(r, [s EXCEPT !.principal = t.subject])
  BY DEF Judged
<1> HIDE DEF verdict
<1> QED BY <1>2, <1>3, <1>4, OtherAnswers, ScopeGateCauses DEF Answer

LEMMA TokenGateCauses ==
  ASSUME Shapes, NEW r \in Requests, ask[r] \in Asks, NEW s, answer[r] = "none",
         keys' \subseteq Kids, TokenGate(r, s)
  PROVE  Causes(r) /\ \A q \in Requests \ {r} : answer'[q] = answer[q]
<1> DEFINE t == ask[r].token
<1>1. t \in Token /\ NoKid \notin keys' /\ "challenge" \notin DESCRIPTIONS
  BY AskFields, GateAssumption DEF DESCRIPTIONS
<1>2. \/ ScopeGate(r, s)
      \/ Answer(r, "challenge")
      \/ BeforeTheKey(t) # Valid /\ Answer(r, BeforeTheKey(t))
      \/ BeforeTheKey(t) = Valid /\ Judged(r, s)
      \/ Move(r, "keys", s)
  BY DEF TokenGate
<1>3. BeforeTheKey(t) # Valid => Earliest(BeforeTheKey(t), t, left[r], ahead[r], keys')
  BY <1>1, StructureFirst
<1> QED BY <1>1, <1>2, <1>3, OtherAnswers, MovedOn, ScopeGateCauses, JudgedCauses DEF Answer

LEMMA ShapeGateCauses ==
  ASSUME Shapes, NEW r \in Requests, ask[r] \in Asks, NEW w, answer[r] = "none",
         keys' \subseteq Kids, ShapeGate(r, w)
  PROVE  Causes(r) /\ \A q \in Requests \ {r} : answer'[q] = answer[q]
<1>1. "header_mismatch" \notin DESCRIPTIONS
  BY DEF DESCRIPTIONS
<1> QED BY <1>1, OtherAnswers, TokenGateCauses DEF ShapeGate, Answer

\* And every step, of whichever request.
LEMMA StepsTellTheFirst ==
  ASSUME IInv, keys' \subseteq Kids, [Next]_vars, NEW r \in Requests, ~Done(r)
  PROVE  Causes(r)
<1>1. /\ Shapes /\ "none" \notin DESCRIPTIONS
      /\ \A q \in Requests : ~Done(q) => answer[q] = "none" /\ ask[q] \in Asks
  BY DEF IInv, Answered, Shapes, Done, DESCRIPTIONS
<1>2. ASSUME answer'[r] = answer[r] PROVE Causes(r)
  BY <1>1, <1>2 DEF Causes
<1>3. ASSUME NEW q \in Requests, OriginGate(q) \/ ReadPart(q) \/ ReadDisconnect(q)
      PROVE  Causes(r)
  <2>1. ~Done(q) /\ "forbidden_origin" \notin DESCRIPTIONS
    BY <1>3 DEF OriginGate, ReadPart, ReadDisconnect, Done, DESCRIPTIONS
  <2>2. \/ Answer(q, "forbidden_origin") \/ Move(q, "shape", NoState)
        \/ TokenGate(q, NoState) \/ ShapeGate(q, TRUE) \/ ShapeGate(q, FALSE)
        \/ answer' = answer
    BY <1>3 DEF OriginGate, ReadPart, ReadDisconnect
  <2>3. answer[q] = "none" /\ ask[q] \in Asks
    BY <1>1, <2>1
  <2>4. \/ answer' = answer
        \/ Causes(q) /\ \A p \in Requests \ {q} : answer'[p] = answer[p]
    BY <1>1, <2>1, <2>2, <2>3, OtherAnswers, MovedOn, TokenGateCauses, ShapeGateCauses
       DEF Answer
  <2> QED BY <1>2, <2>4
<1>4. ASSUME NEW q \in Requests, Resolved(q)
      PROVE  Causes(r)
  <2>1. ~Done(q) /\ Judged(q, state[q]) /\ stage[q] = "keys"
    BY <1>4 DEF Resolved, Done
  <2>2. BeforeTheKey(ask[q].token) = Valid /\ answer[q] = "none" /\ ask[q] \in Asks
    BY <1>1, <2>1 DEF IInv, Stands, Worth
  <2>3. Causes(q) /\ \A p \in Requests \ {q} : answer'[p] = answer[p]
    BY <1>1, <2>1, <2>2, JudgedCauses
  <2> QED BY <1>2, <2>3
<1>5. ASSUME NEW q \in Requests, Come(q) \/ HangUp(q) \/ Fetch(q) \/ TakeBody(q)
      PROVE  Causes(r)
  BY <1>2, <1>5 DEF Come, HangUp, Fetch, TakeBody, Move
<1>6. ASSUME NEW q \in Requests, NEW what, NEW until, AnswerFresh(q, what, until),
             what \notin DESCRIPTIONS
      PROVE  Causes(r)
  BY <1>1, <1>2, <1>6, OtherAnswers
<1>7. ASSUME NEW q \in Requests,
             Cancelled(q) \/ Abandon(q) \/ Listing(q) \/ Call(q) \/ Packaged(q)
      PROVE  Causes(r)
  <2>1. \A p \in Requests : CallAnswer(p) \in {"handled", "internal_error", "role_missing"}
    BY DEF CallAnswer, decide_call, Permitted, DenialClass
  <2>2. \E what, until : AnswerFresh(q, what, until) /\ what \notin DESCRIPTIONS
    <3>1. {"abandoned", "internal_error", "listed", "handled", "role_missing",
           "invalid_params", "discovered", "packaged"} \cap DESCRIPTIONS = {}
      BY DEF DESCRIPTIONS
    <3>2. CASE Cancelled(q) \/ Abandon(q)
      BY <3>1, <3>2 DEF Cancelled, Abandon, Answer
    <3>3. CASE Listing(q)
      BY <3>1, <3>3 DEF Listing, Answer
    <3>4. CASE Call(q)
      <4>1. PICK what : what = IF ask[q].name \notin Tools THEN "invalid_params"
                               ELSE IF state[q].principal = Absent THEN "internal_error"
                               ELSE CallAnswer(q)
        OBVIOUS
      <4>2. Answer(q, what)
        BY <3>4, <4>1 DEF Call
      <4>3. what \notin DESCRIPTIONS
        BY <2>1, <3>1, <4>1
      <4> QED BY <4>2, <4>3 DEF Answer
    <3>5. CASE Packaged(q)
      <4>1. PICK what : what = IF MethodRead(q) = "server/discover" /\ ask[q].era = "modern"
                               THEN "discovered" ELSE "packaged"
        OBVIOUS
      <4>2. Answer(q, what)
        BY <3>5, <4>1 DEF Packaged
      <4>3. what \notin DESCRIPTIONS
        BY <3>1, <4>1
      <4> QED BY <4>2, <4>3 DEF Answer
    <3> QED BY <1>7, <3>2, <3>3, <3>4, <3>5
  <2> QED BY <1>6, <2>2
<1>8. ASSUME NEW q \in Requests, Forget(q)
      PROVE  Causes(r)
  <2>1. q # r /\ answer' = [answer EXCEPT ![q] = "none"]
    BY <1>8 DEF Forget, Done
  <2> QED BY <1>2, <2>1
<1>9. CASE Issuer \/ Tick \/ UNCHANGED vars
  BY <1>2, <1>9 DEF Issuer, Tick, vars
<1> QED BY <1>3, <1>4, <1>5, <1>7, <1>8, <1>9 DEF Next, Own

\* A refused token is told what tokens.py documents: a cause that is true of it
\* in the step that answers it, and none of an earlier kind is, though the key was
\* waited for in between.
THEOREM FirstCauseIsTold == Spec => CauseIsTheFirst
<1>1. ASSUME IInv, (keys \subseteq Kids)', [Next]_vars
      PROVE  \A r \in Requests :
               ~Done(r) /\ answer'[r] \in DESCRIPTIONS =>
                 LET faults == Faults(ask[r].token, left[r], ahead[r], keys') IN
                 \E f \in faults : /\ f.says = answer'[r]
                                   /\ \A g \in faults : f.rank <= g.rank
  BY <1>1, StepsTellTheFirst DEF Causes, Earliest
<1>2. IInv /\ (keys \subseteq Kids)' /\ [Next]_vars =>
        [\A r \in Requests :
           ~Done(r) /\ answer'[r] \in DESCRIPTIONS =>
             LET faults == Faults(ask[r].token, left[r], ahead[r], keys') IN
             \E f \in faults : /\ f.says = answer'[r]
                               /\ \A g \in faults : f.rank <= g.rank]_vars
  BY <1>1
<1> QED BY <1>2, KeysAreNamed, Invariance, PTL DEF Spec, CauseIsTheFirst
=============================================================================
