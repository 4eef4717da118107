----------------------------- MODULE MCPipeline -----------------------------
(* Two calls to one method of each shape: a unary method whose policy looks  *)
(* at the request, a server stream, a stream authorized per message, an      *)
(* extra route, a framework method and a method without a policy.            *)
EXTENDS Pipeline, TLC

CONSTANTS member, own, suspended, loggedIn,              \* requirements
          edit, watch, chat, hook, health, orphan,       \* methods
          alice, bearer, c1, c2,
          mine, other, malformed                         \* messages

Plain == [preset |-> NoPreset, anonymous |-> FALSE,
          require |-> <<>>, anyOf |-> <<>>, forbid |-> <<>>]

MCMethod == {edit, watch, chat, hook, health, orphan}

MCPolicyOf ==
  [m \in MCMethod |->
     CASE m = edit  -> [Plain EXCEPT !.anyOf = <<<<member>>, <<loggedIn, own>>>>, !.forbid = <<suspended>>]
       [] m = watch -> [Plain EXCEPT !.require = <<member>>]
       [] m = chat  -> [Plain EXCEPT !.require = <<own>>, !.forbid = <<suspended>>]
       [] m = hook  -> [Plain EXCEPT !.anonymous = TRUE, !.forbid = <<suspended>>]
       [] OTHER     -> NoPolicy]

MCKindOf   == (bearer :> "bearer")
MCOwnerOf  == (bearer :> alice)
MCClaimsOf == (bearer :> {})
MCPresentation == {{}, {bearer}}
MCChain == <<"bearer">>
MCInvalidCredentialPolicy ==
  [k \in {"bearer", "api_key", "cookie", "ticket", "client_cert"} |-> "ignoreOnAnonymous"]

MCProves == (mine :> {own}) @@ (other :> {}) @@ (malformed :> {own})

MCRecords == {[roles |-> {member}]}

Symmetry == Permutations({c1, c2})

=============================================================================
