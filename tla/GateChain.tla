------------------------------- MODULE GateChain -------------------------------
(***************************************************************************)
(* One replica's gate chain (transport/gates.py, composed in app.py) and   *)
(* what stands behind it (transport/dispatch.py), for several requests at  *)
(* once: OriginGate, ShapeGate, TokenGate, ScopeGate, then the protocol    *)
(* package, which calls back for a listing or a call.                      *)
(*                                                                         *)
(* An action runs from one await to the next.  A chain suspends while the  *)
(* body is read and, on a miss, in the key set (KeySet, whose state this   *)
(* module shares); from there to the application nothing else runs.        *)
(***************************************************************************)
EXTENDS Tokens

CONSTANTS
  Requests,        \* requests in flight
  Asks,            \* what a request may be
  AllowedOrigins,  \* OriginGate.allowed_origins, shipped empty
  ListingTTL,      \* MAXIMUM_LISTING_TTL_MS
  Cooldown, Timeout, \* of the key set
  NoAsk            \* where there is no request

\* The key set's state.
VARIABLES keys, haveMetadata, sinceAttempt, queue, pc, kid, silent, reply,
          published, waited, sinceSent, ever, always, basis, outcome, behind

VARIABLES
  stage,   \* where each request is
  ask,     \* what it is
  got,     \* how many parts of its body have been read
  here,    \* its client has not hung up
  left,    \* what its token's lifetime has left, not below -1
  ahead,   \* how far its token's nbf or iat lies ahead
  state,   \* ASGI state: what one gate leaves for the next
  answer,  \* how it was answered
  fresh    \* how long the listing it was answered with is still fresh

Keys == INSTANCE KeySet

keyVars == <<keys, haveMetadata, sinceAttempt, queue, pc, kid, silent, waited,
             reply, published, sinceSent, ever, always, basis, outcome, behind>>
times == <<here, left, ahead>>
vars == <<keyVars, stage, ask, times, got, state, answer, fresh>>

Absent == "absent"

Ask ==
  [origin : AllowedOrigins \cup {Absent, "elsewhere"},
   post   : BOOLEAN,
   parts  : Nat \ {0},              \* messages its body comes in
   json   : BOOLEAN,                \* the body is a JSON object
   era    : {"modern", "legacy"},   \* with or without MCP-Protocol-Version
   header_method : STRING, header_name : STRING, method : STRING, name : STRING,
   bearer : BOOLEAN, token : Token,
   lifetime : Int, starts : Nat]    \* of the token, when the request comes

ASSUME GateAssumption ==
  /\ Asks \subseteq Ask
  /\ Absent \notin People /\ NoKid \notin Kids
  /\ {ListingTTL, Leeway} \subseteq Nat
  /\ IsFiniteSet(Requests) /\ {Cooldown, Timeout} \subseteq Nat \ {0}

NoState == [called |-> Absent, proven |-> Absent, principal |-> Absent]

\* away: no request.  answered: the client has its answer, and may still use it.
Stages == {"away", "origin", "shape", "keys", "app", "running", "answered"}

-----------------------------------------------------------------------------
(* How a step leaves a request *)

Move(r, to, s) ==
  /\ stage' = [stage EXCEPT ![r] = to]
  /\ state' = [state EXCEPT ![r] = s]
  /\ UNCHANGED <<ask, answer, fresh>>

AnswerFresh(r, what, until) ==
  /\ stage' = [stage EXCEPT ![r] = "answered"]
  /\ state' = [state EXCEPT ![r] = NoState]
  /\ answer' = [answer EXCEPT ![r] = what]
  /\ fresh' = [fresh EXCEPT ![r] = until]
  /\ UNCHANGED ask

Answer(r, what) == AnswerFresh(r, what, 0)

-----------------------------------------------------------------------------
(* ScopeGate *)

CallerOf(r, s) == Principal(s.principal, ask[r].token.scope)

\* A tool nobody registered, and a request nobody proved, are left to dispatch.
ScopeGate(r, s) ==
  IF /\ s.called \in Tools /\ s.principal # Absent
     /\ ~permits_scope(CallerOf(r, s), Action(s.called))
  THEN Answer(r, "insufficient_scope")
  ELSE Move(r, "app", s)

(* TokenGate *)

\* Mutant: the lifetime is checked with the structure, before the key is waited for.
JudgedAsItCame(r, s) ==
  LET t == ask[r].token
      verdict == IF t.kid \in keys' THEN AfterTheKey(t, ask[r].lifetime, ahead[r])
                 ELSE "unknown_key"
  IN  IF verdict # Valid THEN Answer(r, verdict)
      ELSE IF t.subject \notin People THEN Answer(r, "role_missing")
      ELSE ScopeGate(r, [s EXCEPT !.principal = t.subject])

\* `validate` has its key or is out of luck; nothing suspends from here on.
Judged(r, s) ==
  LET t == ask[r].token
      verdict == IF t.kid \in keys' THEN AfterTheKey(t, left[r], ahead[r])
                 ELSE "unknown_key"
  IN  IF verdict # Valid THEN Answer(r, verdict)
      ELSE IF t.subject \notin People THEN Answer(r, "role_missing")
      ELSE ScopeGate(r, [s EXCEPT !.principal = t.subject])

\* Mutant: the exemption is granted on the header.
TokenGateByHeader(r, s) ==
  LET t == ask[r].token IN
  IF ask[r].header_method = "server/discover"
  THEN ScopeGate(r, s) /\ UNCHANGED keyVars
  ELSE IF ~ask[r].bearer THEN Answer(r, "challenge") /\ UNCHANGED keyVars
  ELSE IF BeforeTheKey(t) # Valid THEN Answer(r, BeforeTheKey(t)) /\ UNCHANGED keyVars
  ELSE IF t.kid \in keys THEN UNCHANGED keyVars /\ Judged(r, s)
  ELSE /\ Keys!Call(r) /\ kid' = [kid EXCEPT ![r] = t.kid]
       /\ Move(r, "keys", s)

\* A key that is held is a hit: the verdict comes in the same step.
TokenGate(r, s) ==
  LET t == ask[r].token IN
  IF s.proven = "server/discover" THEN ScopeGate(r, s) /\ UNCHANGED keyVars
  ELSE IF ~ask[r].bearer THEN Answer(r, "challenge") /\ UNCHANGED keyVars
  ELSE IF BeforeTheKey(t) # Valid THEN Answer(r, BeforeTheKey(t)) /\ UNCHANGED keyVars
  ELSE IF t.kid \in keys THEN UNCHANGED keyVars /\ Judged(r, s)
  ELSE /\ Keys!Call(r) /\ kid' = [kid EXCEPT ![r] = t.kid]
       /\ Move(r, "keys", s)

(* ShapeGate *)

\* Mutant: the tool is the one the header names, as it is for a router.
CalledByHeader(a) == a.header_name

\* _called_tool: on either leg, the name in the body.
Called(a) == IF a.method = "tools/call" THEN a.name ELSE Absent

\* Headers against body, where the protocol package will route as modern.
Agrees(a) ==
  /\ a.header_method = a.method
  /\ a.method = "tools/call" /\ a.name # Absent => a.header_name = a.name

\* What the gate leaves in the request's state: only the modern leg proves.
Shaped(r) ==
  [called    |-> Called(ask[r]),
   proven    |-> IF ask[r].era = "modern" THEN ask[r].method ELSE Absent,
   principal |-> Absent]

\* The body has been drained: whole or cut short, and decoded if it can be.
ShapeGate(r, whole) ==
  IF ~(whole /\ ask[r].json) THEN TokenGate(r, NoState)
  ELSE IF ask[r].era = "modern" /\ ~Agrees(ask[r])
       THEN Answer(r, "header_mismatch") /\ UNCHANGED keyVars
       ELSE TokenGate(r, Shaped(r))

-----------------------------------------------------------------------------
(* A request's steps *)

\* A client sends a request; which one is its own affair.
Come(r) ==
  /\ stage[r] = "away"
  /\ \E a \in Asks :
       /\ ask' = [ask EXCEPT ![r] = a]
       /\ left' = [left EXCEPT ![r] = a.lifetime]
       /\ ahead' = [ahead EXCEPT ![r] = a.starts]
  /\ stage' = [stage EXCEPT ![r] = "origin"]
  /\ here' = [here EXCEPT ![r] = TRUE]
  /\ UNCHANGED <<keyVars, got, state, answer, fresh>>

\* It has no more use for the answer it got.
Forget(r) ==
  /\ stage[r] = "answered"
  /\ stage' = [stage EXCEPT ![r] = "away"]
  /\ got' = [got EXCEPT ![r] = 0]
  /\ here' = [here EXCEPT ![r] = FALSE]
  /\ left' = [left EXCEPT ![r] = -1] /\ ahead' = [ahead EXCEPT ![r] = 0]
  /\ answer' = [answer EXCEPT ![r] = "none"]
  /\ fresh' = [fresh EXCEPT ![r] = 0]
  /\ ask' = [ask EXCEPT ![r] = NoAsk]
  /\ UNCHANGED <<keyVars, state>>

\* OriginGate on every path; ShapeGate lets all but a POST through untouched.
OriginGate(r) ==
  /\ stage[r] = "origin"
  /\ IF ask[r].origin \notin AllowedOrigins \cup {Absent}
     THEN Answer(r, "forbidden_origin") /\ UNCHANGED keyVars
     ELSE IF ask[r].post THEN Move(r, "shape", NoState) /\ UNCHANGED keyVars
     ELSE TokenGate(r, NoState)
  /\ UNCHANGED <<times, got>>

\* _buffer takes one more part of the body; the last one hands over to the gate.
ReadPart(r) ==
  /\ stage[r] = "shape" /\ here[r]
  /\ got' = [got EXCEPT ![r] = got[r] + 1]
  /\ IF got[r] + 1 < ask[r].parts
     THEN UNCHANGED <<keyVars, stage, ask, state, answer, fresh>>
     ELSE ShapeGate(r, TRUE)
  /\ UNCHANGED times

\* A disconnect ends the draining with what has come.
ReadDisconnect(r) ==
  /\ stage[r] = "shape" /\ ~here[r]
  /\ ShapeGate(r, FALSE)
  /\ UNCHANGED <<times, got>>

\* signing_key returns, in the step that leaves the lock, with a key or without.
Resolved(r) ==
  /\ stage[r] = "keys"
  /\ \/ Keys!HitUnderLock(r) \/ Keys!RefusedByCooldown(r)
     \/ Keys!KeysArrive(r) \/ Keys!FetchFails(r)
  /\ Judged(r, state[r])
  /\ UNCHANGED <<times, got>>

\* The fetch goes on.
Fetch(r) ==
  /\ Keys!StartFetch(r) \/ Keys!DiscoveryArrives(r)
  /\ UNCHANGED <<stage, ask, times, got, state, answer, fresh>>

\* A request whose client has gone may be cancelled while it waits for a key.
Cancelled(r) ==
  /\ stage[r] = "keys" /\ ~here[r]
  /\ Keys!Cancelled(r)
  /\ Answer(r, "abandoned")
  /\ UNCHANGED <<times, got>>

(* The application *)

\* Mutant: the channel ends after the body it replays.
ReplayThenEnd(r, replayed) == IF ~replayed THEN "body" ELSE "disconnect"

\* The channel ShapeGate leaves behind: the body once, then the original.
Replay(r, replayed) ==
  IF ~replayed THEN "body" ELSE IF here[r] THEN "nothing yet" ELSE "disconnect"

TakeBody(r) ==
  /\ stage[r] = "app" /\ Replay(r, FALSE) = "body"
  /\ Move(r, "running", state[r])
  /\ UNCHANGED <<keyVars, times, got>>

\* The package listens on while it works, and gives up when the client is gone.
Abandon(r) ==
  /\ stage[r] = "running" /\ Replay(r, TRUE) = "disconnect"
  /\ Answer(r, "abandoned")
  /\ UNCHANGED <<keyVars, times, got>>

\* The body the package reads, if it can make anything of it.
MethodRead(r) ==
  IF ask[r].post /\ ask[r].json /\ got[r] = ask[r].parts THEN ask[r].method
  ELSE Absent

\* Mutant: a listing is fresh for as long as any listing may be.
ttl_capped(r) == ListingTTL

ttl(r) ==
  IF remaining_lifetime(left[r]) < ListingTTL THEN remaining_lifetime(left[r])
  ELSE ListingTTL

\* _listing: for the principal of the request, fresh no longer than its token.
Listing(r) ==
  /\ stage[r] = "running" /\ MethodRead(r) = "tools/list"
  /\ IF state[r].principal = Absent THEN Answer(r, "internal_error")
     ELSE AnswerFresh(r, "listed", ttl(r))
  /\ UNCHANGED <<keyVars, times, got>>

\* What the chain of the tool's own handler says of the call as a whole: a
\* reason of the challenge class cannot be rendered any more.
CallAnswer(r) ==
  LET said == decide_call(CallerOf(r, state[r]), Action(ask[r].name))
  IN  IF said = Permitted THEN "handled"
      ELSE IF DenialClass(said) = "challenge" THEN "internal_error"
      ELSE said

\* _called: the registry first, then the principal, then the handler.
Call(r) ==
  /\ stage[r] = "running" /\ MethodRead(r) = "tools/call"
  /\ Answer(r, IF ask[r].name \notin Tools THEN "invalid_params"
               ELSE IF state[r].principal = Absent THEN "internal_error"
               ELSE CallAnswer(r))
  /\ UNCHANGED <<keyVars, times, got>>

\* Everything else the protocol package answers by itself.
Packaged(r) ==
  /\ stage[r] = "running" /\ MethodRead(r) \notin {"tools/list", "tools/call"}
  /\ Answer(r, IF MethodRead(r) = "server/discover" /\ ask[r].era = "modern"
               THEN "discovered" ELSE "packaged")
  /\ UNCHANGED <<keyVars, times, got>>

-----------------------------------------------------------------------------
(* The client, the authorization server and the clock *)

HangUp(r) ==
  /\ stage[r] \notin {"away", "answered"} /\ here[r]
  /\ here' = [here EXCEPT ![r] = FALSE]
  /\ UNCHANGED <<keyVars, stage, ask, left, ahead, got, state, answer, fresh>>

Issuer ==
  /\ Keys!Rotate \/ \E r \in Requests : Keys!KeysServed(r) \/ Keys!Progresses(r)
  /\ UNCHANGED <<stage, ask, times, got, state, answer, fresh>>

Down(n, floor) == IF n > floor THEN n - 1 ELSE n

Tick ==
  /\ Keys!Tick
  /\ left' = [r \in Requests |-> Down(left[r], -1)]
  /\ ahead' = [r \in Requests |-> Down(ahead[r], 0)]
  /\ fresh' = [r \in Requests |-> Down(fresh[r], 0)]
  /\ UNCHANGED <<stage, ask, here, got, state, answer>>

Init ==
  /\ Keys!Init
  /\ stage = [r \in Requests |-> "away"]
  /\ ask = [r \in Requests |-> NoAsk]
  /\ got = [r \in Requests |-> 0]
  /\ here = [r \in Requests |-> FALSE]
  /\ left = [r \in Requests |-> -1] /\ ahead = [r \in Requests |-> 0]
  /\ state = [r \in Requests |-> NoState]
  /\ answer = [r \in Requests |-> "none"]
  /\ fresh = [r \in Requests |-> 0]

Own(r) ==
  \/ OriginGate(r) \/ ReadDisconnect(r) \/ Resolved(r) \/ Fetch(r) \/ TakeBody(r)
  \/ Abandon(r) \/ Listing(r) \/ Call(r) \/ Packaged(r)

Next ==
  \/ \E r \in Requests :
       Come(r) \/ Own(r) \/ ReadPart(r) \/ Cancelled(r) \/ HangUp(r) \/ Forget(r)
  \/ Issuer
  \/ Tick

Spec == Init /\ [][Next]_vars

\* What the event loop runs as soon as it can.
Prompt(r) ==
  \/ OriginGate(r) \/ ReadDisconnect(r) \/ TakeBody(r)
  \/ Abandon(r) \/ Listing(r) \/ Call(r) \/ Packaged(r)
  \/ Keys!Owner(r) /\ (Resolved(r) \/ Fetch(r))

\* Time passes, and an outbound request silent for the timeout ends; that the
\* authorization server ever answers is not assumed.
FairSpec ==
  /\ Spec
  /\ WF_vars(Tick)
  /\ \A r \in Requests :
       /\ WF_vars(Prompt(r))
       /\ WF_vars(silent = Timeout /\ Resolved(r))

-----------------------------------------------------------------------------
(* Properties *)

Done(r) == stage[r] \in {"away", "answered"}
Inside(r) == stage[r] \in {"app", "running"}

TypeOK ==
  /\ Keys!TypeOK
  /\ stage \in [Requests -> Stages]
  /\ \A r \in Requests :
       /\ IF stage[r] = "away" THEN ask[r] = NoAsk /\ state[r] = NoState
          ELSE /\ ask[r] \in Asks /\ got[r] \in 0..ask[r].parts
               /\ state[r].called \in {Absent, ask[r].name}
               /\ state[r].proven \in {Absent, ask[r].method}
       /\ here[r] \in BOOLEAN /\ left[r] \in Int /\ ahead[r] \in Nat
       /\ state[r].principal \in People \cup {Absent}
       /\ fresh[r] \in 0..ListingTTL

\* What has been read of a request's body is all of it.
Whole == 
  [r \in Requests |-> stage[r] # "away" /\ got[r] = ask[r].parts]

\* A request is outside until the last gate has passed it on.
Standing ==
  [r \in Requests |-> CASE Done(r)   -> "away"
                        [] Inside(r) -> "inside"
                        [] OTHER     -> "outside"]

Promise == INSTANCE Admission WITH standing <- Standing, whole <- Whole, held <- keys

\* The chain admits exactly the requests that have everything they need in the
\* step that admits them, whatever the wait for a body or a key changed, and
\* turns away no other.
AdmissionSpec == Promise!Spec

\* Whoever runs behind the gates without a principal runs discovery and nothing
\* else: the body that is served is the one whose method was proved.
OnlyDiscoveryAnswersStrangers ==
  \A r \in Requests :
    Inside(r) /\ state[r].principal = Absent =>
      MethodRead(r) = "server/discover" /\ ask[r].era = "modern"

\* Dispatch never meets what only the gates can answer: a listing or a call with
\* no principal, or a scope refusal with no challenge left to carry it.
GatesLeaveNothingToFail == \A r \in Requests : answer[r] # "internal_error"

\* What is wrong with a token, by the order tokens.py documents: structure,
\* issuer, key, signature, the remaining claims.
Faults(t, l, h, ks) ==
  {f \in [rank : 1..5, says : DESCRIPTIONS] :
     \/ f.rank = 1 /\ f.says = "malformed" /\ (~t.parses \/ t.iss = "absent")
     \/ f.rank = 2 /\ f.says = "issuer_mismatch" /\ t.iss = "foreign"
     \/ f.rank = 3 /\ f.says = "unknown_key" /\ t.kid \notin ks
     \/ f.rank = 4 /\ f.says = "signature_invalid" /\ t.signer # t.kid
     \/ /\ f.rank = 5
        /\ \/ f.says = "token_expired" /\ t.exp = "usable" /\ l <= 0
           \/ f.says = "audience_missing" /\ t.aud = "absent"
           \/ f.says = "audience_mismatch" /\ t.aud = "foreign"
           \/ f.says = "malformed" /\ (h > Leeway \/ t.start = "unusable"
                                       \/ {t.exp, t.sub} # {"usable"})}

\* The cause a refused token is told is a cause that is true of it then, and no
\* cause of an earlier kind is.
CauseIsTheFirst ==
  [][\A r \in Requests :
       ~Done(r) /\ answer'[r] \in DESCRIPTIONS =>
         LET faults == Faults(ask[r].token, left[r], ahead[r], keys') IN
         \E f \in faults : /\ f.says = answer'[r]
                           /\ \A g \in faults : f.rank <= g.rank]_vars

\* A token is accepted under a key its issuer published at some time since the
\* fetch that brought the keys held was sent, whatever rotated since or before.
KeysAreTheIssuers ==
  [][\A r \in Requests :
       ~Inside(r) /\ Inside(r)' /\ state'[r].principal # Absent =>
         ask[r].token.signer \in basis']_vars

\* Nothing is asked of the issuer for a token that does not claim to be its own.
OnlyOurTokensCostAFetch ==
  \A r \in Requests : pc[r] # "answered" => ask[r].token.iss = "ours"

\* A listing is stale to its reader by the time its token has expired, however
\* long the request waited before it was listed.
ListingDiesWithItsToken ==
  \A r \in Requests : fresh[r] <= remaining_lifetime(left[r])

\* A request is given up only when its client has gone.
AbandonedByItsClient ==
  \A r \in Requests : answer[r] = "abandoned" => ~here[r]

\* A request whose body has been read is answered, even when the fetch it waits
\* for, or a fetch ahead of it in the queue, hangs: unless the authorization
\* server drips one answer for ever.
EveryRequestIsAnswered ==
  \/ \E r \in Requests : Keys!DripFed(r)
  \/ \A r \in Requests : stage[r] \in {"keys", "app", "running"} ~> Done(r)
=============================================================================
