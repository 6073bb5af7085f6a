------------------------------ MODULE MCGateChain ------------------------------
(***************************************************************************)
(* Small instances of GateChain.  The requests are those that differ from  *)
(* a good one in the ways listed, alone and in pairs.                      *)
(***************************************************************************)
EXTENDS GateChain

MCDirectory == [p \in {"alice"} |-> [partition |-> "p1", roles |-> {}]]

Token1 ==
  [parses |-> TRUE, iss |-> "ours", kid |-> "k1", signer |-> "k1",
   exp |-> "usable", aud |-> "ours", sub |-> "usable", subject |-> "alice",
   start |-> "usable", scope |-> {"erp.read"}]

Calling ==
  [origin |-> Absent, post |-> TRUE, parts |-> 1, json |-> TRUE, era |-> "modern",
   header_method |-> "tools/call", header_name |-> "get_requisition",
   method |-> "tools/call", name |-> "get_requisition",
   bearer |-> TRUE, token |-> Token1, lifetime |-> 2, starts |-> 0]

Listing1 ==
  [Calling EXCEPT !.header_method = "tools/list", !.method = "tools/list",
                  !.header_name = Absent, !.name = Absent]

Discovering ==
  [Listing1 EXCEPT !.header_method = "server/discover", !.method = "server/discover",
                   !.bearer = FALSE]

\* A field, and a value other than the one above.
TokenChanges ==
  {<<"parses", FALSE>>, <<"iss", "foreign">>, <<"iss", "absent">>,
   <<"kid", NoKid>>, <<"signer", NoKid>>,
   <<"exp", "absent">>, <<"exp", "unusable">>,
   <<"aud", "foreign">>, <<"aud", "absent">>,
   <<"sub", "absent">>, <<"sub", "unusable">>, <<"subject", "mallory">>,
   <<"start", "unusable">>}

TimeChanges == {<<"lifetime", 0>>, <<"lifetime", 1>>, <<"starts", Leeway + 1>>,
                <<"starts", Leeway + 2>>}

ShapeChanges ==
  {<<"origin", "elsewhere">>, <<"post", FALSE>>, <<"parts", 2>>, <<"json", FALSE>>,
   <<"era", "legacy">>, <<"bearer", FALSE>>,
   <<"header_method", Absent>>, <<"header_method", "server/discover">>,
   <<"header_name", "submit_requisition">>, <<"name", Absent>>,
   <<"name", "submit_requisition">>, <<"name", "no_such_tool">>,
   <<"method", "tools/call">>, <<"method", "server/discover">>, <<"method", "ping">>}

Changed(a, c) == [a EXCEPT ![c[1]] = c[2]]

Bearing(c) == [Calling EXCEPT !.token = Changed(Token1, c)]

\* Tokens with one or two things changed, one of them perhaps a time.
TokenAsks ==
  LET ones == {Bearing(c) : c \in TokenChanges}
  IN  ones
      \cup {[Calling EXCEPT !.token = Changed(Changed(Token1, c), d)] :
               c \in TokenChanges, d \in TokenChanges}
      \cup {Changed(a, c) : a \in ones \cup {Calling, Listing1}, c \in TimeChanges}

\* Requests with one or two things changed.
ShapeAsks ==
  LET bases == {Calling, Listing1, Discovering}
      ones == {Changed(a, c) : a \in bases, c \in ShapeChanges}
  IN  bases \cup ones \cup {Changed(a, c) : a \in ones, c \in ShapeChanges}

OneAtATime == ShapeAsks \cup TokenAsks

\* For several requests at once: what tells their interleavings apart.
FewAsks ==
  {Changed(a, <<"lifetime", 1>>) : a \in {Calling, Listing1}}

\* For an issuer that rotates its keys: tokens under either, and one that lies.
KeyAsks ==
  {Calling} \cup {[Calling EXCEPT !.token.kid = "k2", !.token.signer = k] : k \in Kids}
=============================================================================
