------------------------------- MODULE Authn --------------------------------
(***************************************************************************)
(* Authentication of concurrent calls: the authn interceptor with its      *)
(* chain of authenticators and the admin enricher.  Each store that is     *)
(* consulted is consulted in a step of its own, and between two steps the  *)
(* credentials expire or are revoked, the stores fail, and the admin       *)
(* records change.                                                         *)
(***************************************************************************)
EXTENDS Policy, FiniteSets

CONSTANTS
  Call, Method, User, Cred,
  PolicyOf, NoPolicy,  \* the effective policy of each method, if it has one
  KindOf, OwnerOf,     \* the kind and the principal ID of each credential
  ClaimsOf,            \* the claims a credential carries
  Presentation,        \* the sets of credentials that calls present
  Foreign,             \* credentials that their authenticator does not know
  Forged,              \* credentials refused by their signature alone
  Chain,               \* the kinds of the authenticators, in chain order
  MultipleCredentialPolicy, InvalidCredentialPolicy,
  AdminClaims,         \* the claims the admin store is authoritative for
  SuspendedClaim,
  None,                \* no credential, no principal
  NoRecord, Suspended, \* no admin record, a suspended one
  InitialRecord,       \* the records the admin store starts with
  MaxEvents            \* bound on what happens to stores and credentials

VARIABLES
  pc,        \* where each call stands
  method,    \* the method it calls
  creds,     \* the credentials it presents
  at,        \* the authenticator being tried
  via,       \* the credential that authenticated it
  claims,    \* the claims of its principal
  code,      \* the answer of a finished call
  live,      \* credentials their stores accept now
  down,      \* the stores that do not answer
  record,    \* the admin record of each user
  events,    \* how much has happened to the stores
  failed,    \* history: the stores that did not answer while a call was authenticated
  born,      \* history: the credentials alive when a call arrived
  seen       \* history: the admin records of each user while a call was authenticated

callVars  == <<method, creds, born>>
storeVars == <<live, down, record, events, failed>>
authnVars == <<pc, callVars, at, via, claims, code, storeVars, seen>>

Kinds  == {"bearer", "api_key", "cookie", "ticket", "client_cert"}
Stores == {Chain[i] : i \in DOMAIN Chain} \cup {"admin"}
Active == [roles : SUBSET AdminClaims]
Record == Active \cup {NoRecord, Suspended}

ASSUME AuthnAssumption ==
  /\ PolicyOf \in [Method -> Policies \cup {NoPolicy}] /\ NoPolicy \notin Policies
  /\ KindOf \in [Cred -> Kinds] /\ OwnerOf \in [Cred -> User]
  /\ ClaimsOf \in [Cred -> SUBSET Req]
  /\ Presentation \subseteq SUBSET Cred
  /\ Foreign \subseteq Cred /\ Forged \subseteq Cred /\ Foreign \cap Forged = {}
  /\ Chain \in Seq(Kinds)
  /\ MultipleCredentialPolicy \in {"reject", "firstWins"}
  /\ InvalidCredentialPolicy \in [Kinds -> {"reject", "ignoreOnAnonymous"}]
  /\ AdminClaims \subseteq Req /\ SuspendedClaim \in Req \ AdminClaims
  /\ None \notin Cred
  /\ NoRecord \notin Active /\ Suspended \notin Active /\ NoRecord # Suspended
  /\ InitialRecord \subseteq Record
  /\ MaxEvents \in Nat

-----------------------------------------------------------------------------

IsAnonymous(m) == PolicyOf[m] # NoPolicy /\ PolicyOf[m].anonymous

PresentedKinds(cs) == {KindOf[x] : x \in cs}

\* Two values of one kind; several Cookie headers are legal.
Repeated(cs) ==
  \E x, y \in cs : x # y /\ KindOf[x] = KindOf[y] /\ KindOf[x] \in {"bearer", "api_key", "ticket"}

ignoreInvalid(c) ==
  /\ \A k \in PresentedKinds(creds[c]) : InvalidCredentialPolicy[k] = "ignoreOnAnonymous"
  /\ IsAnonymous(method[c])

\* The credentials that the authenticator being tried looks at.  An API key
\* without the prefix and a cookie of another name are passed over unasked.
Offered(c) ==
  {x \in creds[c] : KindOf[x] = Chain[at[c]] /\ (x \in Foreign => KindOf[x] = "ticket")}

\* A slip: the failure of a store counts as an invalid credential.
VerdictOutageInvalid(x) ==
  IF x \in Forged \/ KindOf[x] \in down THEN "invalid"
  ELSE IF x \in Foreign THEN "unknown"
  ELSE IF x \in live THEN "accepted" ELSE "invalid"

\* The contract of ticket.Store makes of its failure what it makes of a ticket
\* that is used up: an unauthenticated status.
Verdict(x) ==
  IF x \in Forged THEN "invalid"
  ELSE IF KindOf[x] \in down THEN IF KindOf[x] = "ticket" THEN "invalid" ELSE "outage"
  ELSE IF x \in Foreign THEN "unknown"
  ELSE IF x \in live THEN "accepted" ELSE "invalid"

\* A slip: a ticket is looked up, and left to expire.
RedeemedLeft(x) == live

\* A ticket is redeemed in the same call to its store that recognises it.
Redeemed(x) == IF KindOf[x] = "ticket" THEN live \ {x} ELSE live

\* A slip: the record's roles are added to what the credential claims.
EnrichedAdded(cl, r) ==
  IF r = NoRecord THEN cl
  ELSE IF r = Suspended THEN (cl \ AdminClaims) \cup {SuspendedClaim}
  ELSE cl \cup r.roles

\* The admin store is authoritative for the claims it governs.
Enriched(cl, r) ==
  IF r = NoRecord THEN cl
  ELSE IF r = Suspended THEN (cl \ AdminClaims) \cup {SuspendedClaim}
  ELSE (cl \ AdminClaims) \cup r.roles

-----------------------------------------------------------------------------

Step(c, to) == pc' = [pc EXCEPT ![c] = to]

\* A slip: the authenticators' plain errors reach the client as they are.
RefuseUnnormalized(c, why) ==
  /\ Step(c, "done")
  /\ code' = [code EXCEPT ![c] = IF why = "unauthenticated" THEN "unknown" ELSE why]

Refuse(c, why) == Step(c, "done") /\ code' = [code EXCEPT ![c] = why]

AuthnInit ==
  /\ pc = [c \in Call |-> "idle"]
  /\ method \in [Call -> Method]
  /\ creds = [c \in Call |-> {}] /\ born = [c \in Call |-> {}]
  /\ at = [c \in Call |-> 0]
  /\ via = [c \in Call |-> None] /\ claims = [c \in Call |-> {}]
  /\ code = [c \in Call |-> "none"]
  /\ live = Cred \ (Foreign \cup Forged)
  /\ down = {} /\ record \in [User -> InitialRecord] /\ events = 0
  /\ failed = [c \in Call |-> {}]
  /\ seen = [c \in Call |-> [u \in User |-> {}]]

\* The extractor finds the credentials cs in the call's metadata or headers.
Arrive(c, cs) ==
  /\ pc[c] = "idle"
  /\ Step(c, "authn")
  /\ creds' = [creds EXCEPT ![c] = cs]
  /\ born' = [born EXCEPT ![c] = live]
  /\ seen' = [seen EXCEPT ![c] = [u \in User |-> {record[u]}]]
  /\ failed' = [failed EXCEPT ![c] = down]
  /\ UNCHANGED <<method, at, via, claims, code, live, down, record, events>>

Present(c) ==
  /\ pc[c] = "authn"
  /\ \/ /\ creds[c] = {}
        /\ Step(c, "passed")
        /\ UNCHANGED <<at, code>>
     \/ /\ \/ Repeated(creds[c])
           \/ MultipleCredentialPolicy = "reject" /\ Cardinality(PresentedKinds(creds[c])) > 1
        /\ Refuse(c, "unauthenticated")
        /\ UNCHANGED at
     \/ /\ creds[c] # {} /\ ~Repeated(creds[c])
        /\ MultipleCredentialPolicy = "reject" => Cardinality(PresentedKinds(creds[c])) = 1
        /\ Step(c, "chain")
        /\ at' = [at EXCEPT ![c] = 1]
        /\ UNCHANGED code
  /\ UNCHANGED <<callVars, via, claims, storeVars, seen>>

\* One authenticator of the chain.
Authenticate(c) ==
  /\ pc[c] = "chain" /\ at[c] <= Len(Chain)
  /\ \/ /\ Offered(c) = {} \/ \E x \in Offered(c) : Verdict(x) = "unknown"
        /\ at' = [at EXCEPT ![c] = @ + 1]
        /\ UNCHANGED <<pc, via, claims, code, live>>
     \/ \E x \in Offered(c) :
          /\ Verdict(x) = "accepted"
          /\ via' = [via EXCEPT ![c] = x]
          /\ claims' = [claims EXCEPT ![c] = ClaimsOf[x]]
          /\ live' = Redeemed(x)
          /\ Step(c, "enrich")
          /\ UNCHANGED <<at, code>>
     \/ \E x \in Offered(c) :
          /\ Verdict(x) = "invalid"
          /\ \/ ignoreInvalid(c) /\ Step(c, "passed") /\ UNCHANGED code
             \/ ~ignoreInvalid(c) /\ Refuse(c, "unauthenticated")
          /\ UNCHANGED <<at, via, claims, live>>
     \/ \E x \in Offered(c) :
          /\ Verdict(x) = "outage"
          /\ Refuse(c, "unavailable")
          /\ UNCHANGED <<at, via, claims, live>>
  /\ UNCHANGED <<callVars, down, record, events, failed, seen>>

\* No authenticator knew the credentials: refused, even on a public method.
Unrecognized(c) ==
  /\ pc[c] = "chain" /\ at[c] > Len(Chain)
  /\ Refuse(c, "unauthenticated")
  /\ UNCHANGED <<callVars, at, via, claims, storeVars, seen>>

Enrich(c) ==
  /\ pc[c] = "enrich"
  /\ \/ /\ "admin" \in down
        /\ Refuse(c, "unavailable")
        /\ UNCHANGED claims
     \/ /\ "admin" \notin down
        /\ claims' = [claims EXCEPT ![c] = Enriched(@, record[OwnerOf[via[c]]])]
        /\ Step(c, "passed")
        /\ UNCHANGED code
  /\ UNCHANGED <<callVars, at, via, storeVars, seen>>

-----------------------------------------------------------------------------
(* The environment *)

Event == events < MaxEvents /\ events' = events + 1

\* A credential expires, is revoked, or its session is destroyed.
Revoke(x) ==
  /\ Event /\ x \in live
  /\ live' = live \ {x}
  /\ UNCHANGED <<pc, callVars, at, via, claims, code, down, record, failed, seen>>

\* A store stops answering, or answers again.
Outage(s) ==
  /\ Event
  /\ down' = IF s \in down THEN down \ {s} ELSE down \cup {s}
  /\ failed' = [c \in Call |-> IF pc[c] \in {"authn", "chain"} THEN failed[c] \cup down' ELSE failed[c]]
  /\ UNCHANGED <<pc, callVars, at, via, claims, code, live, record, seen>>

ChangeRecord(u, r) ==
  /\ Event /\ record[u] # r
  /\ record' = [record EXCEPT ![u] = r]
  /\ seen' = [c \in Call |-> IF pc[c] \in {"authn", "chain", "enrich"}
                             THEN [seen[c] EXCEPT ![u] = @ \cup {r}] ELSE seen[c]]
  /\ UNCHANGED <<pc, callVars, at, via, claims, code, live, down, failed>>

AuthnStep(c) ==
  \/ \E cs \in Presentation : Arrive(c, cs)
  \/ Present(c)
  \/ Authenticate(c)
  \/ Unrecognized(c)
  \/ Enrich(c)

Environment ==
  \/ \E x \in Cred : Revoke(x)
  \/ \E s \in Stores : Outage(s)
  \/ \E u \in User, r \in Record : ChangeRecord(u, r)

AuthnNext == (\E c \in Call : AuthnStep(c)) \/ Environment

AuthnSpec == AuthnInit /\ [][AuthnNext]_authnVars

-----------------------------------------------------------------------------

Codes == {"none", "ok", "unauthenticated", "unavailable", "denied", "exhausted",
          "internal", "invalid", "failed", "aborted", "context error", "deadline exceeded"}
\* The stages after "passed" are those of module Pipeline.
Places == {"idle", "authn", "chain", "enrich", "passed", "done"}
            \cup {"authz", "handle", "count", "audit"}

TypeOK ==
  /\ pc \in [Call -> Places]
  /\ method \in [Call -> Method] /\ creds \in [Call -> SUBSET Cred]
  /\ at \in [Call -> 0 .. Len(Chain) + 1]
  /\ via \in [Call -> Cred \cup {None}] /\ claims \in [Call -> SUBSET Req]
  /\ code \in [Call -> Codes]
  /\ live \in SUBSET Cred /\ down \in SUBSET Stores
  /\ record \in [User -> Record] /\ events \in 0 .. MaxEvents /\ failed \in [Call -> SUBSET Stores]
  /\ born \in [Call -> SUBSET Cred] /\ seen \in [Call -> [User -> SUBSET Record]]

\* Before an authenticator is tried, the ones in front of it have passed the
\* call's credentials over because they do not know them.
PassedOver(c) ==
  \A i \in DOMAIN Chain, x \in creds[c] : i < at[c] /\ KindOf[x] = Chain[i] => x \in Foreign

\* A principal comes from a credential that the call presented and that was
\* still accepted after the call arrived, of the first authenticator that knows
\* one; no later one takes over from an authenticator that refused.  A ticket
\* is good for one call, however the calls that present it interleave.
IdentityIsEarned ==
  /\ \A c \in Call : via[c] # None => via[c] \in creds[c] \cap born[c] /\ PassedOver(c)
  /\ \A c, d \in Call : c # d /\ via[c] = via[d] /\ via[c] # None => KindOf[via[c]] # "ticket"

\* A call with credentials goes on without a principal only if one of its
\* credentials really is dead, the method is public, and every kind presented
\* may be ignored: no outage of a store makes a caller anonymous.  Excepted is a
\* ticket whose store failed during the call: the contract of ticket.Store has
\* that say the same as a used ticket (ticket.go:23), although GENERALIZATION.md
\* says of every store that its failure is not disguised (1070).
GoesOnAnonymous(c) ==
  pc[c] \notin {"idle", "authn", "chain", "done"} /\ creds[c] # {} /\ via[c] = None

NoSilentDowngrade ==
  \A c \in Call :
    GoesOnAnonymous(c) =>
      /\ IsAnonymous(method[c])
      /\ \A x \in creds[c] : InvalidCredentialPolicy[KindOf[x]] = "ignoreOnAnonymous"
      /\ \E x \in creds[c] : \/ x \notin live \cup Foreign
                             \/ KindOf[x] = "ticket" /\ "ticket" \in failed[c]

\* An admin claim was granted by the owner's admin record at some moment while
\* the call was being authenticated (or by the credential, when there was no
\* record), and a user who was suspended all along is marked as such.
AdminClaimsWereGranted ==
  \A c \in Call :
    pc[c] \notin {"idle", "authn", "chain", "enrich", "done"} /\ via[c] # None =>
      LET history == seen[c][OwnerOf[via[c]]]
      IN  /\ \A a \in claims[c] \cap AdminClaims : \E r \in history :
               IF r = NoRecord THEN a \in ClaimsOf[via[c]] ELSE r # Suspended /\ a \in r.roles
          /\ history = {Suspended} => SuspendedClaim \in claims[c]

=============================================================================
