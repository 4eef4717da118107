------------------------------- MODULE MCAuthn ------------------------------
(* Two calls to a public and a protected method, with credentials of every   *)
(* family that the authenticators treat differently.                         *)
EXTENDS Authn, TLC

CONSTANTS member, admin, suspended,             \* claims
          public, guarded,                      \* methods
          alice, c1, c2,                        \* a user, and the calls
          bearer, forged, cookie, ticket, key, cert   \* credentials

Plain == [preset |-> NoPreset, anonymous |-> FALSE,
          require |-> <<>>, anyOf |-> <<>>, forbid |-> <<>>]

MCPolicyOf ==
  (public :> [Plain EXCEPT !.anonymous = TRUE]) @@ (guarded :> [Plain EXCEPT !.require = <<member>>])

\* The cookie is a session cookie; the API key has a foreign prefix.
MCKindOf == (bearer :> "bearer") @@ (forged :> "bearer") @@ (cookie :> "cookie")
              @@ (ticket :> "ticket") @@ (key :> "api_key") @@ (cert :> "client_cert")

MCOwnerOf == [x \in {bearer, forged, cookie, ticket, key, cert} |-> alice]

MCClaimsOf == [x \in {bearer, forged, cookie, ticket, key, cert} |->
                 IF x = bearer THEN {member, admin} ELSE {member}]

MCPresentation == {{}, {bearer}, {forged}, {bearer, forged}, {cert}, {ticket, bearer}, {cookie, key}}

MCRecords == {NoRecord, [roles |-> {admin}]}

Symmetry == Permutations({c1, c2})

MCChain == <<"ticket", "api_key", "bearer", "cookie">>

\* Invalid API keys are never ignored.
MCInvalidCredentialPolicy ==
  [k \in {"bearer", "api_key", "cookie", "ticket", "client_cert"} |->
     IF k = "api_key" THEN "reject" ELSE "ignoreOnAnonymous"]

=============================================================================
