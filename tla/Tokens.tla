-------------------------------- MODULE Tokens --------------------------------
(***************************************************************************)
(* Local token validation (transport/tokens.py): the checks `validate`     *)
(* makes of one bearer token, in their order, either side of the one await *)
(* it has, the key lookup.                                                 *)
(*                                                                         *)
(* A token is a record of what the checks can tell apart.  Its times are   *)
(* not in it: how long it has left and how far ahead its nbf and iat lie   *)
(* change while a request waits, and are given beside it.                  *)
(***************************************************************************)
EXTENDS Policy, Integers, Sequences

CONSTANTS
  Kids,     \* key identifiers
  NoKid,    \* a header that names no key, or an empty one
  Subjects, \* whom a token may name: People, and others
  Leeway    \* NOT_YET_VALID_LEEWAY_SECONDS

\* A claim is usable, not there, or there and of no use.
Claim == {"usable", "absent", "unusable"}

Token ==
  [parses : BOOLEAN,                       \* both segments decode
   iss    : {"ours", "foreign", "absent"}, \* foreign: anything that is not ours
   kid    : Kids \cup {NoKid},
   signer : Kids \cup {NoKid},             \* the key that verifies it under RS256
   exp    : Claim,
   aud    : {"ours", "foreign", "absent"},
   sub    : Claim, subject : Subjects,
   start  : {"usable", "unusable"},        \* nbf and iat, where there are any
   scope  : SUBSET Scopes]                 \* scope_set of the claim

DESCRIPTIONS ==
  {"token_expired", "audience_mismatch", "audience_missing", "issuer_mismatch",
   "signature_invalid", "unknown_key", "malformed"}

\* What `validate` answers when it does not raise.
Valid == "valid"

-----------------------------------------------------------------------------
\* A check answers with its description, or lets the token pass.
Check(fails, says) == IF fails THEN says ELSE Valid

\* What the first check that fails says.
FirstFailing(checks) ==
  LET failing == {i \in DOMAIN checks : checks[i] # Valid}
  IN  IF failing = {} THEN Valid ELSE checks[Min(failing)]

\* Mutant: the key's name is read before the issuer is compared.
BeforeTheKeyNameFirst(t) == FirstFailing(
  << Check(~t.parses,         "malformed"),
     Check(t.kid = NoKid,     "unknown_key"),
     Check(t.iss = "absent",  "malformed"),
     Check(t.iss # "ours",    "issuer_mismatch") >>)

\* Mutant: the issuer is left to the decode, after the key has been looked up.
BeforeTheKeyAnyIssuer(t) == FirstFailing(
  << Check(~t.parses,         "malformed"),
     Check(t.kid = NoKid,     "unknown_key") >>)

\* Before the key is looked up: structure, issuer, the name of a key.
BeforeTheKey(t) == FirstFailing(
  << Check(~t.parses,         "malformed"),
     Check(t.iss = "absent",  "malformed"),
     Check(t.iss # "ours",    "issuer_mismatch"),
     Check(t.kid = NoKid,     "unknown_key") >>)

\* PyJWT's decode under our options (the signature, the required claims, expiry
\* with no leeway, audience, subject), then _refuse_if_not_yet_valid.
AfterTheKey(t, left, ahead) == FirstFailing(
  << Check(t.signer # t.kid,       "signature_invalid"),
     Check(t.exp = "absent",       "malformed"),
     Check(t.aud = "absent",       "audience_missing"),
     Check(t.sub = "absent",       "malformed"),
     Check(t.exp = "unusable",     "malformed"),
     Check(left <= 0,              "token_expired"),
     Check(t.aud # "ours",         "audience_mismatch"),
     Check(t.sub = "unusable",     "malformed"),
     Check(t.start = "unusable",   "malformed"),
     Check(ahead > Leeway,         "malformed") >>)

\* ValidatedToken.remaining_lifetime_ms: floored at zero.
remaining_lifetime(left) == IF left > 0 THEN left ELSE 0
=============================================================================
