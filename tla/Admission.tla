------------------------------- MODULE Admission -------------------------------
(***************************************************************************)
(* What the gate chain promises (transport/gates.py, its opening comment), *)
(* with no gates in it.  A request stands outside until it is judged once, *)
(* and is let in exactly when everything it needs is true of it in that    *)
(* step: not when it arrived, nor when a gate looked at some part of it.   *)
(***************************************************************************)
EXTENDS Policy, Integers

CONSTANTS
  Requests,        \* requests in flight
  Asks,            \* what a request may be
  AllowedOrigins,  \* origins a browser may send
  Leeway

VARIABLES
  standing, \* away, outside or inside
  ask,      \* what each request is
  whole,    \* its body has arrived to its end
  here,     \* its client has not hung up
  left,     \* what its token's lifetime has left
  ahead,    \* how far its token's validity lies ahead
  held      \* the signing keys held

vars == <<standing, ask, whole, here, left, ahead, held>>

-----------------------------------------------------------------------------
\* A POST whose body can be read.
Legible(a, w) == a.post /\ a.json /\ w

\* Headers that speak of the body speak the truth.
Truthful(a, w) ==
  Legible(a, w) /\ a.era = "modern" =>
    /\ a.header_method = a.method
    /\ a.method = "tools/call" /\ a.name # "absent" => a.header_name = a.name

\* Discovery needs no token.
Discovery(a, w) ==
  Legible(a, w) /\ a.era = "modern" /\ a.method = "server/discover"

\* A token of ours, for us, signed by the key it names, in force now, held by
\* somebody the directory knows.
Credential(a, l, h, ks) ==
  /\ a.bearer /\ a.token.parses
  /\ a.token.iss = "ours" /\ a.token.aud = "ours"
  /\ a.token.kid \in ks /\ a.token.signer = a.token.kid
  /\ {a.token.exp, a.token.sub, a.token.start} = {"usable"}
  /\ l > 0 /\ h <= Leeway
  /\ a.token.subject \in People

\* The call its body makes is one its scopes allow.
Entitled(a, w) ==
  Legible(a, w) /\ a.method = "tools/call" /\ a.name \in Tools =>
    Action(a.name).scope \in a.token.scope

MayEnter(a, w, l, h, ks) ==
  /\ a.origin \in AllowedOrigins \cup {"absent"}
  /\ Truthful(a, w)
  /\ Discovery(a, w) \/ (Credential(a, l, h, ks) /\ Entitled(a, w))

-----------------------------------------------------------------------------
Init ==
  /\ standing = [r \in Requests |-> "away"]
  /\ whole \in [Requests -> BOOLEAN] /\ here \in [Requests -> BOOLEAN]
  /\ left \in [Requests -> Int] /\ ahead \in [Requests -> Nat]
  /\ held = {}

\* Nothing else moves.
OnlyStanding(r) ==
  /\ \A s \in Requests \ {r} : standing'[s] = standing[s]
  /\ UNCHANGED <<ask, here, left, ahead>>

\* A request comes.
Come(r) ==
  /\ standing[r] = "away" /\ standing'[r] = "outside"
  /\ ask'[r] \in Asks
  /\ \A s \in Requests \ {r} : standing'[s] = standing[s] /\ ask'[s] = ask[s]

\* It is judged as it is in that step, once.
Judge(r) ==
  /\ standing[r] = "outside"
  /\ standing'[r] = IF MayEnter(ask[r], whole'[r], left[r], ahead[r], held')
                    THEN "inside" ELSE "away"
  /\ OnlyStanding(r)

\* Outside, only one whose client hung up goes unjudged.
Withdraw(r) ==
  /\ standing[r] = "outside" /\ ~here[r] /\ standing'[r] = "away"
  /\ OnlyStanding(r)

\* One that was let in is served.
Serve(r) ==
  /\ standing[r] = "inside" /\ standing'[r] = "away"
  /\ OnlyStanding(r)

\* Time passes, keys come and go, bodies arrive, clients hang up.  What a request
\* was is of no interest once it is away.
Meanwhile ==
  /\ UNCHANGED standing
  /\ \A r \in Requests : standing[r] # "away" =>
       /\ ask'[r] = ask[r]
       /\ left'[r] <= left[r] /\ ahead'[r] <= ahead[r]
       /\ here'[r] => here[r]

Next ==
  \/ \E r \in Requests : Come(r) \/ Judge(r) \/ Withdraw(r) \/ Serve(r)
  \/ Meanwhile

Spec == Init /\ [][Next]_vars
=============================================================================
