--------------------------- MODULE PipelineProofs ---------------------------
(***************************************************************************)
(* Authentication, and the pipeline around it, for any policies, methods,  *)
(* messages, credentials, users, authenticators and number of concurrent   *)
(* calls, and any sequence of events in the stores.                        *)
(*                                                                         *)
(* First the properties of AuthnSpec.  Then what handlers are given: a     *)
(* call has a message only once it is past authentication, from where its  *)
(* identity and claims are fixed, and every message, or the opening of its *)
(* stream, passed the decider with that identity; a requirement whose      *)
(* evaluation failed cannot have been what let it through.  Last what is   *)
(* written down of it: the audit entry of a call and its outcome, and the  *)
(* counters of usage with what was scraped from them.                      *)
(***************************************************************************)
EXTENDS Pipeline, PolicyProofs, FiniteSetTheorems

(***************************************************************************)
(* Types                                                                   *)
(***************************************************************************)

LEMMA EnrichedType ==
  ASSUME NEW cl \in SUBSET Req, NEW r \in Record
  PROVE  Enriched(cl, r) \in SUBSET Req
BY AuthnAssumption DEF Enriched, Record, Active

LEMMA StepTypes ==
  ASSUME TypeOK, NEW c \in Call
  PROVE  /\ \A to \in Places : Step(c, to) => pc' \in [Call -> Places]
         /\ \A why \in Codes : Refuse(c, why) =>
              pc' \in [Call -> Places] /\ code' \in [Call -> Codes]
<1>1. "done" \in Places
  BY DEF Places
<1> QED
  BY <1>1 DEF Step, Refuse, TypeOK

LEMMA CallTypes ==
  ASSUME TypeOK, NEW c \in Call, pc[c] = "enrich" => via[c] # None, AuthnStep(c)
  PROVE  TypeOK'
<1>1. ASSUME NEW cs \in Presentation, Arrive(c, cs) PROVE TypeOK'
  BY <1>1, AuthnAssumption DEF Arrive, Step, TypeOK, Places, storeVars
<1> Len(Chain) \in Nat
  BY AuthnAssumption
<1> /\ {"passed", "chain", "enrich"} \subseteq Places
    /\ {"unauthenticated", "unavailable"} \subseteq Codes
  BY DEF Places, Codes
<1>2. CASE Present(c)
  <2>1. pc' \in [Call -> Places] /\ code' \in [Call -> Codes]
    BY <1>2, StepTypes DEF Present, TypeOK
  <2>2. at' \in [Call -> 0 .. Len(Chain) + 1]
    BY <1>2 DEF Present, TypeOK
  <2> QED
    BY <1>2, <2>1, <2>2 DEF Present, TypeOK, callVars, storeVars
<1>3. CASE Authenticate(c)
  <2>1. pc' \in [Call -> Places] /\ code' \in [Call -> Codes]
    <3> USE StepTypes DEF TypeOK
    <3>1. CASE UNCHANGED <<pc, code>>
      BY <3>1
    <3>2. CASE Step(c, "enrich") /\ UNCHANGED code
      BY <3>2
    <3>3. CASE Step(c, "passed") /\ UNCHANGED code
      BY <3>3
    <3>4. CASE Refuse(c, "unauthenticated")
      BY <3>4
    <3>5. CASE Refuse(c, "unavailable")
      BY <3>5
    <3> QED
      BY <1>3, <3>1, <3>2, <3>3, <3>4, <3>5 DEF Authenticate
  <2>2. at' \in [Call -> 0 .. Len(Chain) + 1]
    <3>1. at[c] + 1 \in 0 .. Len(Chain) + 1
      BY <1>3 DEF Authenticate, TypeOK
    <3>2. at' = at \/ at' = [at EXCEPT ![c] = @ + 1]
      BY <1>3 DEF Authenticate
    <3> QED
      BY <3>1, <3>2 DEF TypeOK
  <2>3. via' \in [Call -> Cred \cup {None}]
    <3>1. Offered(c) \subseteq Cred
      BY DEF Offered, TypeOK
    <3> QED
      BY <1>3, <3>1 DEF Authenticate, TypeOK
  <2>4. claims' \in [Call -> SUBSET Req]
    <3>1. \A x \in Offered(c) : ClaimsOf[x] \in SUBSET Req
      BY AuthnAssumption DEF Offered, TypeOK
    <3> QED
      BY <1>3, <3>1 DEF Authenticate, TypeOK
  <2>5. live' \in SUBSET Cred
    BY <1>3 DEF Authenticate, Redeemed, TypeOK
  <2> QED
    BY <1>3, <2>1, <2>2, <2>3, <2>4, <2>5 DEF Authenticate, TypeOK, callVars
<1>4. CASE Unrecognized(c)
  BY <1>4, StepTypes DEF Unrecognized, TypeOK, callVars, storeVars
<1>5. CASE Enrich(c)
  <2>1. via[c] \in Cred /\ OwnerOf[via[c]] \in User
    BY <1>5, AuthnAssumption DEF Enrich, TypeOK
  <2>2. Enriched(claims[c], record[OwnerOf[via[c]]]) \in SUBSET Req
    BY <2>1, EnrichedType DEF TypeOK
  <2>3. pc' \in [Call -> Places] /\ code' \in [Call -> Codes]
    BY <1>5, StepTypes DEF Enrich, TypeOK
  <2>4. claims' \in [Call -> SUBSET Req]
    BY <1>5, <2>2 DEF Enrich, TypeOK
  <2> QED
    BY <1>5, <2>3, <2>4 DEF Enrich, TypeOK, callVars, storeVars
<1> QED
  BY <1>1, <1>2, <1>3, <1>4, <1>5 DEF AuthnStep

LEMMA EnvironmentTypes ==
  ASSUME TypeOK, Environment
  PROVE  TypeOK'
<1>1. events' \in 0 .. MaxEvents
  BY AuthnAssumption DEF Environment, Revoke, Outage, ChangeRecord, Event, TypeOK
<1>2. ASSUME NEW x \in Cred, Revoke(x) PROVE TypeOK'
  BY <1>1, <1>2 DEF Revoke, TypeOK, callVars
<1>3. ASSUME NEW s \in Stores, Outage(s) PROVE TypeOK'
  BY <1>1, <1>3 DEF Outage, TypeOK, callVars
<1>4. ASSUME NEW u \in User, NEW r \in Record, ChangeRecord(u, r) PROVE TypeOK'
  BY <1>1, <1>4 DEF ChangeRecord, TypeOK, callVars
<1> QED
  BY <1>2, <1>3, <1>4 DEF Environment


(***************************************************************************)
(* The inductive invariant                                                 *)
(***************************************************************************)

\* What is known of a call at each stage: its principal is set once, when a
\* credential is accepted; what its histories record; and a ticket that was
\* redeemed stays redeemed.
Progress ==
  \A c \in Call :
    /\ pc[c] \in {"idle", "authn", "chain"} => via[c] = None
    /\ pc[c] = "enrich" => via[c] # None /\ claims[c] = ClaimsOf[via[c]]
    /\ pc[c] # "idle" => live \subseteq born[c]
    /\ pc[c] \in {"authn", "chain", "enrich"} => \A u \in User : record[u] \in seen[c][u]
    /\ pc[c] \in {"authn", "chain"} => down \subseteq failed[c]
    /\ pc[c] = "chain" => PassedOver(c) /\ ~Repeated(creds[c])
    /\ via[c] # None /\ KindOf[via[c]] = "ticket" => via[c] \notin live

AuthnInv ==
  /\ TypeOK /\ Progress /\ live \cap Forged = {}
  /\ IdentityIsEarned /\ NoSilentDowngrade /\ AdminClaimsWereGranted

\* What was passed over is a matter of the call's credentials and its place.
LEMMA PassingOverStands ==
  ASSUME NEW c, at'[c] = at[c], creds'[c] = creds[c]
  PROVE  PassedOver(c)' = PassedOver(c)
BY DEF PassedOver

LEMMA ArriveKeeps ==
  ASSUME AuthnInv, NEW c \in Call, NEW cs \in Presentation, Arrive(c, cs)
  PROVE  AuthnInv'
<1> USE DEF AuthnInv, Arrive, Step, storeVars
<1>1. TypeOK'
  <2>1. AuthnStep(c)
    BY DEF AuthnStep
  <2> QED
    BY <2>1, CallTypes
<1>2. /\ pc' = [pc EXCEPT ![c] = "authn"] /\ pc[c] = "idle" /\ via[c] = None
      /\ born' = [born EXCEPT ![c] = live]
      /\ \A d \in Call \ {c} : pc'[d] = pc[d] /\ creds'[d] = creds[d] /\ born'[d] = born[d]
                               /\ seen'[d] = seen[d]
      /\ pc'[c] = "authn" /\ born'[c] = live /\ seen'[c] = [u \in User |-> {record[u]}]
      /\ failed'[c] = down /\ \A d \in Call \ {c} : failed'[d] = failed[d]
      /\ UNCHANGED <<method, at, via, claims, live, down, record>>
  BY DEF TypeOK, Progress
<1>3. \A d \in Call \ {c} : PassedOver(d)' = PassedOver(d)
  BY <1>2, PassingOverStands
<1>4. Progress'
  BY <1>2, <1>3 DEF Progress
<1>5. IdentityIsEarned'
  BY <1>2, <1>3 DEF IdentityIsEarned
<1>6. NoSilentDowngrade'
  BY <1>2 DEF NoSilentDowngrade, GoesOnAnonymous, IsAnonymous
<1>7. AdminClaimsWereGranted'
  <2>1. \A d \in Call : pc'[d] # "authn" => pc'[d] = pc[d] /\ seen'[d] = seen[d]
    BY <1>2
  <2> QED
    BY <2>1 DEF AdminClaimsWereGranted
<1> QED
  BY <1>1, <1>4, <1>5, <1>6, <1>7

LEMMA PresentKeeps ==
  ASSUME AuthnInv, NEW c \in Call, Present(c) \/ Unrecognized(c)
  PROVE  AuthnInv'
<1> USE DEF AuthnInv, callVars, storeVars
<1>1. TypeOK'
  <2>1. AuthnStep(c)
    BY DEF AuthnStep
  <2>2. pc[c] # "enrich"
    BY DEF Present, Unrecognized
  <2> QED
    BY <2>1, <2>2, CallTypes
<1>2. /\ via[c] = None /\ pc[c] \in {"authn", "chain"}
      /\ \A d \in Call \ {c} : pc'[d] = pc[d]
      /\ \/ pc'[c] = "passed" /\ creds[c] = {}
         \/ pc'[c] = "done"
         \/ pc[c] = "authn" /\ pc'[c] = "chain" /\ at'[c] = 1 /\ ~Repeated(creds[c])
      /\ UNCHANGED <<method, creds, born, via, claims, live, down, failed, record, seen>>
      /\ \A d \in Call \ {c} : at'[d] = at[d]
  BY DEF Present, Unrecognized, Step, Refuse, TypeOK, Progress
<1>3. \A d \in Call \ {c} : PassedOver(d)' = PassedOver(d)
  BY <1>2, PassingOverStands
<1>4. pc'[c] = "chain" => PassedOver(c)'
  <2>1. Chain \in Seq(Kinds)
    BY AuthnAssumption
  <2>2. \A i \in DOMAIN Chain : ~(i < 1)
    BY <2>1
  <2> QED
    BY <1>2, <2>2 DEF PassedOver
<1>5. Progress'
  BY <1>2, <1>3, <1>4 DEF Progress
<1>6. IdentityIsEarned'
  BY <1>2, <1>3 DEF IdentityIsEarned
<1>7. NoSilentDowngrade'
  BY <1>2 DEF NoSilentDowngrade, GoesOnAnonymous, IsAnonymous
<1>8. AdminClaimsWereGranted'
  BY <1>2 DEF AdminClaimsWereGranted
<1> QED
  BY <1>1, <1>2, <1>5, <1>6, <1>7, <1>8


LEMMA AuthenticateKeeps ==
  ASSUME AuthnInv, NEW c \in Call, Authenticate(c)
  PROVE  AuthnInv'
<1> USE DEF AuthnInv, callVars
<1>1. TypeOK'
  <2>1. AuthnStep(c) /\ pc[c] # "enrich"
    BY DEF AuthnStep, Authenticate
  <2> QED
    BY <2>1, CallTypes
<1>2. /\ pc[c] = "chain" /\ via[c] = None /\ live \subseteq born[c]
      /\ UNCHANGED <<method, creds, born, down, failed, record, seen>>
      /\ \A d \in Call \ {c} : pc'[d] = pc[d] /\ via'[d] = via[d] /\ claims'[d] = claims[d]
                               /\ at'[d] = at[d]
      /\ live' \subseteq live
  BY DEF Authenticate, Redeemed, Step, Refuse, TypeOK, Progress
<1>3. \A d \in Call \ {c} : PassedOver(d)' = PassedOver(d)
  BY <1>2, PassingOverStands
<1>4. at' = at => PassedOver(c)' = PassedOver(c)
  BY <1>2, PassingOverStands
<1>5. pc'[c] = "chain" => PassedOver(c)'
  <2>1. ASSUME at' = [at EXCEPT ![c] = @ + 1],
               Offered(c) = {} \/ \E x \in Offered(c) : Verdict(x) = "unknown"
        PROVE  PassedOver(c)'
    <3>1. at[c] \in Nat /\ at'[c] = at[c] + 1
      BY <2>1, AuthnAssumption DEF TypeOK
    <3>2. \A i \in DOMAIN Chain : i \in Nat
      BY AuthnAssumption
    <3>3. \A i \in DOMAIN Chain : i < at'[c] => i < at[c] \/ i = at[c]
      BY <3>1, <3>2
    <3>4. \A x \in creds[c] : KindOf[x] = Chain[at[c]] => x \in Foreign
      <4>1. \A x \in Offered(c) : Verdict(x) = "unknown" => x \in Foreign /\ KindOf[x] = "ticket"
        BY AuthnAssumption DEF Offered, Verdict
      <4>2. \A x \in creds[c] : KindOf[x] = Chain[at[c]] => x \in Foreign \/ x \in Offered(c)
        BY DEF Offered
      <4>3. Offered(c) = {} \/ Chain[at[c]] = "ticket"
        BY <2>1, <4>1 DEF Offered
      <4>4. pc[c] = "chain" /\ ~Repeated(creds[c])
        BY <1>2 DEF Progress
      <4> QED
        BY <2>1, <4>1, <4>2, <4>3, <4>4 DEF Offered, Repeated
    <3> QED
      BY <1>2, <3>3, <3>4 DEF PassedOver, Progress
  <2> QED
    BY <1>2, <2>1 DEF Authenticate, Step, Refuse, TypeOK
<1>6. CASE UNCHANGED <<via, claims, live>> /\ pc'[c] \in {"chain", "done"}
  <2>1. Progress'
    BY <1>2, <1>6, <1>3, <1>5 DEF Progress
  <2>2. IdentityIsEarned' /\ AdminClaimsWereGranted'
    BY <1>2, <1>6, <1>3 DEF IdentityIsEarned, AdminClaimsWereGranted
  <2>3. NoSilentDowngrade'
    BY <1>2, <1>6 DEF NoSilentDowngrade, GoesOnAnonymous, IsAnonymous
  <2> QED
    BY <1>1, <1>6, <2>1, <2>2, <2>3
<1>7. ASSUME NEW x \in Offered(c), Verdict(x) = "accepted",
             via' = [via EXCEPT ![c] = x], claims' = [claims EXCEPT ![c] = ClaimsOf[x]],
             live' = Redeemed(x), at' = at,
             pc'[c] = "enrich"
      PROVE  AuthnInv'
  <2>1. /\ x \in creds[c] /\ x \in live /\ x \in Cred /\ x # None
        /\ via'[c] = x /\ claims'[c] = ClaimsOf[x]
    BY <1>7, AuthnAssumption DEF Offered, Verdict, TypeOK
  <2>2. Progress'
    BY <1>2, <1>7, <1>3, <2>1 DEF Progress, Redeemed
  <2>3. IdentityIsEarned'
    <3>1. \A d \in Call : via[d] = x => KindOf[x] # "ticket"
      BY <2>1 DEF Progress
    <3>2. PassedOver(c)'
      BY <1>2, <1>7, <1>4 DEF Progress
    <3> QED
      BY <1>2, <1>3, <2>1, <3>1, <3>2 DEF IdentityIsEarned
  <2>4. AdminClaimsWereGranted'
    BY <1>2, <1>7 DEF AdminClaimsWereGranted
  <2>5. NoSilentDowngrade'
    BY <1>2, <1>7, <2>1 DEF NoSilentDowngrade, GoesOnAnonymous, IsAnonymous
  <2> QED
    BY <1>1, <1>2, <2>2, <2>3, <2>4, <2>5
<1>8. ASSUME NEW x \in Offered(c), Verdict(x) = "invalid", ignoreInvalid(c),
             pc'[c] = "passed", UNCHANGED <<via, claims, live>>
      PROVE  AuthnInv'
  <2>1. /\ x \in creds[c]
        /\ x \notin live \cup Foreign \/ (KindOf[x] = "ticket" /\ "ticket" \in failed[c])
    BY <1>2, <1>8, AuthnAssumption DEF Offered, Verdict, Progress
  <2>2. Progress'
    BY <1>2, <1>8, <1>3 DEF Progress
  <2>3. IdentityIsEarned' /\ AdminClaimsWereGranted'
    BY <1>2, <1>8, <1>3 DEF IdentityIsEarned, AdminClaimsWereGranted
  <2>4. NoSilentDowngrade'
    BY <1>2, <1>8, <2>1 DEF NoSilentDowngrade, GoesOnAnonymous, IsAnonymous, ignoreInvalid, PresentedKinds
  <2> QED
    BY <1>1, <1>8, <2>2, <2>3, <2>4
<1> QED
  BY <1>2, <1>6, <1>7, <1>8 DEF Authenticate, Step, Refuse, TypeOK

LEMMA EnrichKeeps ==
  ASSUME AuthnInv, NEW c \in Call, Enrich(c)
  PROVE  AuthnInv'
<1> USE DEF AuthnInv, callVars, storeVars
<1>1. TypeOK'
  <2>1. AuthnStep(c) /\ via[c] # None
    BY DEF AuthnStep, Enrich, Progress
  <2> QED
    BY <2>1, CallTypes
<1> DEFINE u == OwnerOf[via[c]]
<1>2. /\ pc[c] = "enrich" /\ via[c] # None /\ claims[c] = ClaimsOf[via[c]]
      /\ u \in User /\ record[u] \in seen[c][u] /\ record[u] \in Record
      /\ UNCHANGED <<method, creds, born, at, via, live, down, failed, record, seen>>
      /\ \A d \in Call \ {c} : pc'[d] = pc[d] /\ claims'[d] = claims[d]
      /\ \/ pc'[c] = "done"
         \/ pc'[c] = "passed" /\ claims'[c] = Enriched(claims[c], record[u])
  BY AuthnAssumption DEF Enrich, Step, Refuse, TypeOK, Progress
<1>3. \A d \in Call : PassedOver(d)' = PassedOver(d)
  BY <1>2, PassingOverStands
<1>4. Progress'
  BY <1>2, <1>3 DEF Progress
<1>5. IdentityIsEarned' /\ NoSilentDowngrade'
  BY <1>2, <1>3 DEF IdentityIsEarned, NoSilentDowngrade, GoesOnAnonymous, IsAnonymous
<1>6. AdminClaimsWereGranted'
  <2>1. ASSUME claims'[c] = Enriched(ClaimsOf[via[c]], record[u])
        PROVE  /\ \A a \in claims'[c] \cap AdminClaims :
                    IF record[u] = NoRecord THEN a \in ClaimsOf[via[c]]
                    ELSE record[u] # Suspended /\ a \in record[u].roles
               /\ record[u] = Suspended => SuspendedClaim \in claims'[c]
    BY <2>1, AuthnAssumption DEF Enriched
  <2> QED
    BY <1>2, <2>1 DEF AdminClaimsWereGranted
<1> QED
  BY <1>1, <1>2, <1>4, <1>5, <1>6

LEMMA EnvironmentKeeps ==
  ASSUME AuthnInv, Environment
  PROVE  AuthnInv'
<1> USE DEF AuthnInv, callVars
<1>1. TypeOK'
  BY EnvironmentTypes
<1>2. /\ live' \subseteq live
      /\ UNCHANGED <<pc, method, creds, born, at, via, claims>>
      /\ \A c \in Call : failed[c] \subseteq failed'[c]
      /\ \A c \in Call : pc[c] \in {"authn", "chain"} => down' \subseteq failed'[c]
  BY DEF Environment, Revoke, Outage, ChangeRecord, Progress
<1>3. \A c \in Call : PassedOver(c)' = PassedOver(c)
  BY <1>2, PassingOverStands
<1>4. IdentityIsEarned' /\ NoSilentDowngrade'
  BY <1>2, <1>3 DEF IdentityIsEarned, NoSilentDowngrade, GoesOnAnonymous, IsAnonymous
<1>5. CASE UNCHANGED <<record, seen>>
  BY <1>1, <1>2, <1>4, <1>5, <1>3 DEF Progress, AdminClaimsWereGranted
<1>6. ASSUME NEW u \in User, NEW r \in Record, ChangeRecord(u, r)
      PROVE  AuthnInv'
  <2>1. /\ record' = [record EXCEPT ![u] = r]
        /\ \A c \in Call : seen'[c] = IF pc[c] \in {"authn", "chain", "enrich"}
                                      THEN [seen[c] EXCEPT ![u] = @ \cup {r}] ELSE seen[c]
    BY <1>6 DEF ChangeRecord
  <2>2. ASSUME NEW c \in Call, pc[c] \in {"authn", "chain", "enrich"}, NEW v \in User
        PROVE  record'[v] \in seen'[c][v]
    <3>1. record[v] \in seen[c][v]
      BY <2>2 DEF Progress
    <3>2. /\ record'[v] = IF v = u THEN r ELSE record[v]
          /\ seen'[c][v] = IF v = u THEN seen[c][v] \cup {r} ELSE seen[c][v]
      BY <2>1, <2>2 DEF TypeOK
    <3> QED
      BY <3>1, <3>2
  <2>3. Progress'
    BY <1>2, <1>3, <2>2 DEF Progress
  <2>4. AdminClaimsWereGranted'
    BY <1>2, <2>1 DEF AdminClaimsWereGranted
  <2> QED
    BY <1>1, <1>2, <1>4, <2>3, <2>4
<1> QED
  BY <1>5, <1>6 DEF Environment, Revoke, Outage

\* A step of a later stage of the same call disturbs nothing of this.
LEMMA LaterStagesKeep ==
  ASSUME AuthnInv, NEW c \in Call,
         pc[c] \notin {"idle", "authn", "chain", "enrich", "done"},
         NEW to \in Places \ {"idle", "authn", "chain", "enrich"},
         pc' = [pc EXCEPT ![c] = to], code' \in [Call -> Codes],
         UNCHANGED <<callVars, at, via, claims, storeVars, seen>>
  PROVE  AuthnInv'
<1> USE DEF AuthnInv, callVars, storeVars
<1>1. TypeOK' /\ \A d \in Call : pc'[d] = IF d = c THEN to ELSE pc[d]
  BY DEF TypeOK
<1>2. \A d \in Call : PassedOver(d)' = PassedOver(d)
  BY PassingOverStands
<1>3. Progress'
  BY <1>1, <1>2 DEF Progress
<1>4. IdentityIsEarned' /\ AdminClaimsWereGranted'
  BY <1>1, <1>2 DEF IdentityIsEarned, AdminClaimsWereGranted
<1>5. NoSilentDowngrade'
  BY <1>1 DEF NoSilentDowngrade, GoesOnAnonymous, IsAnonymous
<1> QED
  BY <1>1, <1>3, <1>4, <1>5

LEMMA AuthnInitHolds ==
  ASSUME AuthnInit
  PROVE  AuthnInv
<1>1. TypeOK
  BY AuthnAssumption DEF AuthnInit, TypeOK, Places, Codes, Stores
<1>2. Progress /\ live \cap Forged = {}
  BY DEF AuthnInit, Progress
<1>3. IdentityIsEarned /\ NoSilentDowngrade /\ AdminClaimsWereGranted
  BY DEF AuthnInit, IdentityIsEarned, NoSilentDowngrade, GoesOnAnonymous, AdminClaimsWereGranted
<1> QED
  BY <1>1, <1>2, <1>3 DEF AuthnInv

LEMMA AuthnNextKeeps ==
  ASSUME AuthnInv, AuthnNext
  PROVE  AuthnInv'
BY ArriveKeeps, PresentKeeps, AuthenticateKeeps, EnrichKeeps, EnvironmentKeeps
   DEF AuthnNext, AuthnStep

LEMMA AuthnInvHolds == AuthnSpec => []AuthnInv
<1>1. AuthnInit => AuthnInv
  BY AuthnInitHolds
<1>2. AuthnInv /\ [AuthnNext]_authnVars => AuthnInv'
  <2>1. CASE AuthnNext
    BY <2>1, AuthnNextKeeps
  <2>2. CASE UNCHANGED authnVars
    BY <2>2 DEF authnVars, callVars, storeVars, AuthnInv, TypeOK, Progress, IdentityIsEarned,
                PassedOver, NoSilentDowngrade, GoesOnAnonymous, AdminClaimsWereGranted, IsAnonymous
  <2> QED
    BY <2>1, <2>2
<1> QED
  BY <1>1, <1>2, PTL DEF AuthnSpec

(***************************************************************************)
(* What follows, however calls, stores, credentials and admin records      *)
(* interleave                                                              *)
(***************************************************************************)

\* The type invariant.
THEOREM AuthnIsTyped == AuthnSpec => []TypeOK
<1>1. AuthnInv => TypeOK
  BY DEF AuthnInv
<1> QED
  BY <1>1, AuthnInvHolds, PTL

\* A principal comes from a credential of the call that was live after the call
\* arrived, and a ticket serves one call (Chain.Authenticate, ticket.Authenticate).
THEOREM AuthenticationIsSound == AuthnSpec => []IdentityIsEarned
<1>1. AuthnInv => IdentityIsEarned
  BY DEF AuthnInv
<1> QED
  BY <1>1, AuthnInvHolds, PTL

\* No outage makes a caller anonymous, but that of the ticket store while the
\* call presents a ticket, which the store's contract calls an unauthenticated
\* status: otherwise only a credential that is really dead may be ignored, on a
\* public method whose policy ignores it.
THEOREM OutagesDoNotDowngrade == AuthnSpec => []NoSilentDowngrade
<1>1. AuthnInv => NoSilentDowngrade
  BY DEF AuthnInv
<1> QED
  BY <1>1, AuthnInvHolds, PTL

\* No admin claim is held that was not granted while the call was authenticated
\* (Enricher.Enrich strips what the credential says).
THEOREM AdminClaimsAreEarned == AuthnSpec => []AdminClaimsWereGranted
<1>1. AuthnInv => AdminClaimsWereGranted
  BY DEF AuthnInv
<1> QED
  BY <1>1, AuthnInvHolds, PTL

(***************************************************************************)
(* The invariant of the pipeline                                           *)
(***************************************************************************)

Settled == {"handle", "count", "audit", "done"}

Fed == \A c \in Call : given[c] # {} => pc[c] \in Settled

\* What let an open stream in; its messages are then not looked at again,
\* except per message.
Admits(c) ==
  IF PolicyOf[method[c]] = NoPolicy THEN method[c] \in Exempt
  ELSE \/ method[c] \in PerMessage
       \/ Allowed(PolicyOf[method[c]], via[c] # None, Evaluate(c, {}, {}))

Opened == \A c \in Call : pc[c] = "handle" /\ method[c] \in Streams => Admits(c)

PipelineInv == AuthnInv /\ PipelineTypeOK /\ Fed /\ Opened /\ DeliveredOnlyIfAllowed

(***************************************************************************)
(* The decider as the interceptor calls it                                 *)
(***************************************************************************)

LEMMA EvaluateTypes ==
  ASSUME NEW c \in Call, NEW proved \in SUBSET Req, NEW failing \in SUBSET Req
  PROVE  /\ Evaluate(c, proved, failing) \in [Req -> Outcome]
         /\ Evaluate(c, proved, {}) \in [Req -> {"match", "miss"}]
         /\ \A r \in Req : Evaluate(c, proved, failing)[r] # "error" =>
              Evaluate(c, proved, {})[r] = Evaluate(c, proved, failing)[r]
BY DEF Evaluate, Outcome

LEMMA AuthorizeTypes ==
  ASSUME NEW c \in Call, NEW proved, NEW failing, NEW resolved \in BOOLEAN
  PROVE  authorize(c, proved, failing, resolved) \in Codes \cup {"allow"}
BY DEF authorize, decidePolicy, Codes

LEMMA AuthorizeAllows ==
  ASSUME NEW c \in Call, NEW proved \in SUBSET Req, NEW failing \in SUBSET Req,
         NEW resolved \in BOOLEAN, PolicyOf[method[c]] \in Policies,
         authorize(c, proved, failing, resolved) = "allow"
  PROVE  Allowed(PolicyOf[method[c]], via[c] # None, Evaluate(c, proved, {}))
<1> DEFINE present == via[c] # None
<1>1. Allowed(PolicyOf[method[c]], present, Evaluate(c, proved, failing))
  BY DEF authorize, Allowed
<1>2. present \in BOOLEAN
  OBVIOUS
<1> HIDE DEF present
<1>3. Allowed(PolicyOf[method[c]], present, Evaluate(c, proved, {}))
  BY <1>1, <1>2, EvaluateTypes, FailuresNeverAllow
<1> QED
  BY <1>3 DEF present

\* What a call is permitted does not change while it keeps its identity.
LEMMA PermissionsStand ==
  ASSUME NEW c \in Call, NEW m \in Message, Permits(c, m),
         method' = method, via'[c] = via[c], claims'[c] = claims[c]
  PROVE  Permits(c, m)'
<1> DEFINE proved == IF method[c] \in Streams \ PerMessage THEN {} ELSE Proves[m]
<1>1. Evaluate(c, proved, {})' = Evaluate(c, proved, {})
  BY DEF Evaluate
<1> QED
  BY <1>1 DEF Permits

LEMMA AdmissionStands ==
  ASSUME NEW c \in Call, Admits(c), method' = method, via'[c] = via[c], claims'[c] = claims[c]
  PROVE  Admits(c)'
<1>1. Evaluate(c, {}, {})' = Evaluate(c, {}, {})
  BY DEF Evaluate
<1> QED
  BY <1>1 DEF Admits

LEMMA NothingNewDelivered ==
  ASSUME PipelineInv, method' = method,
         \A c \in Call : given'[c] # {} =>
           given'[c] = given[c] /\ via'[c] = via[c] /\ claims'[c] = claims[c]
  PROVE  DeliveredOnlyIfAllowed'
<1> SUFFICES ASSUME NEW c \in Call, NEW m \in given'[c]
             PROVE  Permits(c, m)'
  BY DEF DeliveredOnlyIfAllowed
<1>1. Permits(c, m) /\ m \in Message
  BY DEF PipelineInv, PipelineTypeOK, DeliveredOnlyIfAllowed
<1> QED
  BY <1>1, PermissionsStand

LEMMA PoliciesAreDeclared ==
  ASSUME TypeOK, NEW c \in Call
  PROVE  /\ method[c] \in Method
         /\ PolicyOf[method[c]] # NoPolicy => PolicyOf[method[c]] \in Policies
BY AuthnAssumption DEF TypeOK

(***************************************************************************)
(* The steps                                                               *)
(***************************************************************************)

PipeTypes ==
  /\ given \in [Call -> SUBSET Message]
  /\ granted \in [User \cup {Anonymous} -> 0 .. Limit]
  /\ rows \in [Method -> Row] /\ scraped \in [Method -> Row]
  /\ audit \in [Call -> AuditEvents \cup {NoEvent}]
  /\ admitted \subseteq Call /\ panicked \subseteq Call

\* The calls that are past authentication take no part in it.
LEMMA AuthnLeavesSettledCalls ==
  ASSUME TypeOK, AuthnNext, NEW d \in Call, pc[d] \in Settled
  PROVE  /\ method' = method
         /\ pc'[d] = pc[d] /\ via'[d] = via[d] /\ claims'[d] = claims[d]
<1>1. CASE Environment
  BY <1>1 DEF Environment, Revoke, Outage, ChangeRecord, callVars
<1>2. ASSUME NEW c \in Call, AuthnStep(c)
      PROVE  /\ method' = method
             /\ pc'[d] = pc[d] /\ via'[d] = via[d] /\ claims'[d] = claims[d]
  <2>1. c # d
    BY <1>2 DEF AuthnStep, Arrive, Present, Authenticate, Unrecognized, Enrich, Settled
  <2>2. /\ method' = method
        /\ \/ pc' = pc
           \/ \E to : pc' = [pc EXCEPT ![c] = to]
        /\ \/ via' = via
           \/ \E x : via' = [via EXCEPT ![c] = x]
        /\ \/ claims' = claims
           \/ \E s : claims' = [claims EXCEPT ![c] = s]
    <3>1. CASE (\E cs \in Presentation : Arrive(c, cs)) \/ Present(c) \/ Unrecognized(c)
      BY <3>1 DEF Arrive, Present, Unrecognized, Step, Refuse, callVars
    <3>2. CASE Authenticate(c)
      BY <3>2 DEF Authenticate, Step, Refuse, callVars
    <3>3. CASE Enrich(c)
      BY <3>3 DEF Enrich, Step, Refuse, callVars
    <3> QED
      BY <1>2, <3>1, <3>2, <3>3 DEF AuthnStep
  <2> QED
    BY <2>1, <2>2 DEF TypeOK
<1> QED
  BY <1>1, <1>2 DEF AuthnNext

LEMMA OnlyLaterStagesHandle ==
  ASSUME TypeOK, AuthnNext, NEW d \in Call, pc'[d] = "handle"
  PROVE  pc[d] = "handle"
<1>1. \/ pc' = pc
      \/ \E c \in Call, to \in {"authn", "chain", "enrich", "passed", "done"} :
           pc' = [pc EXCEPT ![c] = to]
  <2>1. CASE Environment
    BY <2>1 DEF Environment, Revoke, Outage, ChangeRecord
  <2>2. ASSUME NEW c \in Call, AuthnStep(c)
        PROVE  \/ pc' = pc
               \/ \E to \in {"authn", "chain", "enrich", "passed", "done"} :
                    pc' = [pc EXCEPT ![c] = to]
    BY <2>2 DEF AuthnStep, Arrive, Present, Authenticate, Unrecognized, Enrich, Step, Refuse
  <2> QED
    BY <2>1, <2>2 DEF AuthnNext
<1> QED
  BY <1>1 DEF TypeOK

LEMMA AuthnKeepsPipeline ==
  ASSUME PipelineInv, AuthnNext, UNCHANGED pipeVars
  PROVE  PipelineInv'
<1> USE DEF pipeVars
<1>1. AuthnInv'
  BY AuthnNextKeeps DEF PipelineInv
<1>2. \A d \in Call : given[d] # {} =>
        pc'[d] = pc[d] /\ via'[d] = via[d] /\ claims'[d] = claims[d]
  BY AuthnLeavesSettledCalls DEF PipelineInv, AuthnInv, Fed
<1>3. method' = method
  BY DEF AuthnNext, AuthnStep, Environment, Arrive, Present, Authenticate, Unrecognized, Enrich,
         Revoke, Outage, ChangeRecord, callVars
<1>4. DeliveredOnlyIfAllowed'
  BY <1>2, <1>3, NothingNewDelivered
<1>5. Fed'
  BY <1>2 DEF PipelineInv, Fed
<1>6. PipelineTypeOK'
  BY <1>1 DEF PipelineInv, AuthnInv, PipelineTypeOK
<1>7. Opened'
  <2> SUFFICES ASSUME NEW d \in Call, pc'[d] = "handle", method'[d] \in Streams
               PROVE  Admits(d)'
    BY DEF Opened
  <2>1. pc[d] = "handle"
    BY OnlyLaterStagesHandle DEF PipelineInv, AuthnInv
  <2>2. via'[d] = via[d] /\ claims'[d] = claims[d]
    BY <2>1, AuthnLeavesSettledCalls DEF PipelineInv, AuthnInv, Settled
  <2> QED
    BY <1>3, <2>1, <2>2, AdmissionStands DEF PipelineInv, Opened
<1> QED
  BY <1>1, <1>4, <1>5, <1>6, <1>7 DEF PipelineInv

\* What a later stage must show of its step.
LEMMA StageKeeps ==
  ASSUME PipelineInv, NEW c \in Call,
         pc[c] \in {"passed", "authz", "handle", "count", "audit"},
         NEW to \in {"authz"} \cup Settled,
         pc' = [pc EXCEPT ![c] = to], code' \in [Call -> Codes],
         UNCHANGED <<callVars, at, via, claims, storeVars, seen>>,
         PipeTypes',
         \A d \in Call \ {c} : given'[d] = given[d],
         given'[c] # {} => to \in Settled,
         to = "handle" /\ method[c] \in Streams => Admits(c),
         \A m \in given'[c] : m \in given[c] \/ Permits(c, m)
  PROVE  PipelineInv'
<1>1. AuthnInv'
  <2>1. to \in Places \ {"idle", "authn", "chain", "enrich"}
    BY DEF Settled, Places
  <2> QED
    BY <2>1, LaterStagesKeep DEF PipelineInv
<1>2. PipelineTypeOK'
  BY <1>1 DEF PipelineTypeOK, PipeTypes, AuthnInv
<1>3. Fed'
  BY DEF PipelineInv, Fed, AuthnInv, TypeOK
<1>4. DeliveredOnlyIfAllowed'
  <2> SUFFICES ASSUME NEW d \in Call, NEW m \in given'[d]
               PROVE  Permits(d, m)'
    BY DEF DeliveredOnlyIfAllowed
  <2>1. Permits(d, m)
    BY DEF PipelineInv, DeliveredOnlyIfAllowed
  <2>2. m \in Message
    BY DEF PipeTypes
  <2> QED
    BY <2>1, <2>2, PermissionsStand DEF callVars
<1>5. Opened'
  <2> SUFFICES ASSUME NEW d \in Call, pc'[d] = "handle", method'[d] \in Streams
               PROVE  Admits(d)'
    BY DEF Opened
  <2>1. Admits(d)
    BY DEF PipelineInv, Opened, AuthnInv, TypeOK, callVars
  <2> QED
    BY <2>1, AdmissionStands DEF callVars
<1> QED
  BY <1>1, <1>2, <1>3, <1>4, <1>5 DEF PipelineInv

LEMMA BudgetTypes ==
  ASSUME granted \in [User \cup {Anonymous} -> 0 .. Limit],
         NEW c \in Call, principal(c) \in User \cup {Anonymous}, NEW expired,
         Budget!Grant(c, expired) \/ Budget!Deny(c, expired)
  PROVE  granted' \in [User \cup {Anonymous} -> 0 .. Limit]
<1> DEFINE k == principal(c)
           r == Budget!Renewed(expired)
<1>1. Limit \in Nat
  BY PipelineAssumption
<1>2. r \in [User \cup {Anonymous} -> 0 .. Limit]
  BY <1>1 DEF Budget!Renewed
<1>3. \/ r[k] < Limit /\ granted' = [r EXCEPT ![k] = @ + 1]
      \/ granted' = r
  BY DEF Budget!Grant, Budget!Deny
<1> HIDE DEF r, k
<1>4. CASE r[k] < Limit /\ granted' = [r EXCEPT ![k] = @ + 1]
  <2>1. r[k] + 1 \in 0 .. Limit
    BY <1>1, <1>2, <1>4 DEF k
  <2> QED
    BY <1>2, <1>4, <2>1
<1> QED
  BY <1>2, <1>3, <1>4

LEMMA RateLimitKeeps ==
  ASSUME PipelineInv, NEW c \in Call, RateLimit(c)
  PROVE  PipelineInv'
<1>1. PipeTypes /\ TypeOK /\ given[c] = {}
  BY DEF RateLimit, PipelineInv, PipelineTypeOK, PipeTypes, Fed, Settled
<1>2. principal(c) \in User \cup {Anonymous}
  BY <1>1, AuthnAssumption DEF principal, TypeOK
<1>3. granted' \in [User \cup {Anonymous} -> 0 .. Limit]
  BY <1>1, <1>2, BudgetTypes DEF RateLimit, PipeTypes
<1>4. PipeTypes' /\ given' = given
  BY <1>1, <1>3 DEF RateLimit, PipeTypes
<1>5. CASE Step(c, "authz") /\ UNCHANGED code
  <2>1. code' \in [Call -> Codes] /\ pc' = [pc EXCEPT ![c] = "authz"] /\ pc[c] = "passed"
    BY <1>1, <1>5 DEF RateLimit, Step, TypeOK
  <2> QED
    BY <1>1, <1>4, <2>1, StageKeeps DEF RateLimit
<1>6. CASE Refuse(c, "exhausted")
  <2>1. code' \in [Call -> Codes]
    BY <1>1, <1>6 DEF Refuse, TypeOK, Codes
  <2> QED
    BY <1>1, <1>4, <1>6, <2>1, StageKeeps DEF RateLimit, Refuse, Step, Settled
<1> QED
  BY <1>5, <1>6 DEF RateLimit

LEMMA AnswerTypes ==
  ASSUME TypeOK, NEW c \in Call, NEW why \in Codes, Answer(c, why)
  PROVE  /\ code' \in [Call -> Codes]
         /\ \E to \in {"done", "count"} : pc' = [pc EXCEPT ![c] = to]
BY DEF Answer, Step, TypeOK

LEMMA AuthorizeKeeps ==
  ASSUME PipelineInv, NEW c \in Call, NEW m \in Message, NEW failing \in SUBSET Flaky,
         NEW resolved \in BOOLEAN, Authorize(c, m, failing, resolved)
  PROVE  PipelineInv'
<1> DEFINE policy == PolicyOf[method[c]]
           proved == IF method[c] \in Streams THEN {} ELSE Proves[m]
           answer == IF policy = NoPolicy
                     THEN IF method[c] \in Exempt THEN "allow" ELSE "internal"
                     ELSE IF method[c] \in PerMessage THEN "allow"
                     ELSE authorize(c, proved, failing, resolved)
<1>1. /\ PipeTypes /\ TypeOK /\ given[c] = {}
      /\ pc[c] \in {"passed", "authz"}
      /\ UNCHANGED <<callVars, at, via, claims, storeVars, seen,
                     granted, rows, scraped, audit, admitted, panicked>>
  BY DEF Authorize, PipelineInv, PipelineTypeOK, PipeTypes, Fed, Settled
<1>2. answer \in Codes \cup {"allow"}
  BY AuthorizeTypes DEF Codes
<1>3. answer = "allow" /\ method[c] \notin Streams
        /\ (method[c] \in Http \cup Exempt \/ m \in Valid) => Permits(c, m)
  <2> SUFFICES ASSUME answer = "allow", method[c] \notin Streams, policy # NoPolicy,
                      method[c] \in Http \cup Exempt \/ m \in Valid
               PROVE  Permits(c, m)
    BY DEF Permits
  <2>1. /\ proved = Proves[m] /\ proved \in SUBSET Req /\ failing \in SUBSET Req
        /\ authorize(c, proved, failing, resolved) = "allow" /\ policy \in Policies
    BY <1>1, PipelineAssumption, PoliciesAreDeclared
  <2>2. Allowed(policy, via[c] # None, Evaluate(c, proved, {}))
    BY <2>1, AuthorizeAllows
  <2> QED
    BY <2>1, <2>2 DEF Permits
<1> HIDE DEF answer
<1>4. \/ Answer(c, answer) /\ UNCHANGED given /\ answer # "allow"
      \/ Step(c, "handle") /\ UNCHANGED <<code, given>> /\ answer = "allow" /\ method[c] \in Streams
      \/ /\ Step(c, "handle") /\ given' = [given EXCEPT ![c] = {m}] /\ UNCHANGED code
         /\ answer = "allow" /\ method[c] \notin Streams
         /\ method[c] \in Http \cup Exempt \/ m \in Valid
      \/ Answer(c, "invalid") /\ UNCHANGED given
  BY DEF Authorize, answer
<1>5. CASE UNCHANGED given /\ \E why \in Codes : Answer(c, why)
  <2>1. PipeTypes'
    BY <1>1, <1>5 DEF PipeTypes
  <2> QED
    BY <1>1, <1>5, <2>1, AnswerTypes, StageKeeps DEF Settled
<1>6. CASE /\ Step(c, "handle") /\ UNCHANGED <<code, given>>
           /\ answer = "allow" /\ method[c] \in Streams
  <2>1. PipeTypes'
    BY <1>1, <1>6 DEF PipeTypes
  <2>2. Admits(c)
    <3> SUFFICES ASSUME policy # NoPolicy, method[c] \notin PerMessage
                 PROVE  Allowed(policy, via[c] # None, Evaluate(c, {}, {}))
      BY <1>6 DEF Admits, answer
    <3>1. /\ proved = {} /\ failing \in SUBSET Req /\ policy \in Policies
          /\ authorize(c, proved, failing, resolved) = "allow"
      BY <1>1, <1>6, PipelineAssumption, PoliciesAreDeclared DEF answer
    <3> QED
      BY <3>1, AuthorizeAllows
  <2> QED
    BY <1>1, <1>6, <2>1, <2>2, StageKeeps DEF Settled, Step, TypeOK
<1>7. CASE /\ Step(c, "handle") /\ given' = [given EXCEPT ![c] = {m}] /\ UNCHANGED code
           /\ Permits(c, m) /\ method[c] \notin Streams
  <2>1. PipeTypes' /\ given'[c] = {m} /\ \A d \in Call \ {c} : given'[d] = given[d]
    BY <1>1, <1>7 DEF PipeTypes
  <2> QED
    BY <1>1, <1>7, <2>1, StageKeeps DEF Settled, Step, TypeOK
<1>8. "invalid" \in Codes
  BY DEF Codes
<1> QED
  BY <1>2, <1>3, <1>4, <1>5, <1>6, <1>7, <1>8

LEMMA RecvKeeps ==
  ASSUME PipelineInv, NEW c \in Call, NEW m \in Message, NEW failing \in SUBSET Flaky,
         NEW resolved \in BOOLEAN, Recv(c, m, failing, resolved)
  PROVE  PipelineInv'
<1> DEFINE policy == PolicyOf[method[c]]
           answer == IF method[c] \in PerMessage /\ policy # NoPolicy
                     THEN authorize(c, Proves[m], failing, resolved) ELSE "allow"
           accepted == answer = "allow" /\ (m \in Valid \/ method[c] \in Exempt)
<1>1. /\ PipeTypes /\ TypeOK /\ pc[c] = "handle" /\ method[c] \in Streams /\ Admits(c)
      /\ UNCHANGED <<callVars, at, via, claims, storeVars, seen,
                     granted, rows, scraped, audit, admitted, panicked>>
  BY DEF Recv, PipelineInv, PipelineTypeOK, PipeTypes, Opened
<1>2. answer \in Codes \cup {"allow"} /\ "invalid" \in Codes
  BY AuthorizeTypes DEF Codes
<1>3. accepted => Permits(c, m)
  <2> SUFFICES ASSUME accepted, policy # NoPolicy
               PROVE  Permits(c, m)
    BY <1>1 DEF Permits, Admits
  <2>1. CASE method[c] \in PerMessage
    <3>1. /\ Proves[m] \in SUBSET Req /\ failing \in SUBSET Req /\ policy \in Policies
          /\ authorize(c, Proves[m], failing, resolved) = "allow"
      BY <1>1, <2>1, PipelineAssumption, PoliciesAreDeclared
    <3> QED
      BY <2>1, <3>1, AuthorizeAllows DEF Permits
  <2>2. CASE method[c] \notin PerMessage
    BY <1>1, <2>2 DEF Permits, Admits
  <2> QED
    BY <2>1, <2>2
<1> HIDE DEF answer
<1>4. \/ accepted /\ given' = [given EXCEPT ![c] = @ \cup {m}] /\ UNCHANGED <<pc, code>>
      \/ UNCHANGED given /\ \E why \in Codes : Answer(c, why)
      \/ UNCHANGED <<pc, code, given>>
  BY <1>2 DEF Recv, answer
<1>5. CASE UNCHANGED given /\ \E why \in Codes : Answer(c, why)
  <2>1. PipeTypes'
    BY <1>1, <1>5 DEF PipeTypes
  <2> QED
    BY <1>1, <1>5, <2>1, AnswerTypes, StageKeeps DEF Settled
<1>6. CASE UNCHANGED <<pc, code>> /\ Permits(c, m) /\ given' = [given EXCEPT ![c] = @ \cup {m}]
  <2>1. /\ PipeTypes' /\ given'[c] = given[c] \cup {m}
        /\ \A d \in Call \ {c} : given'[d] = given[d]
    BY <1>1, <1>6 DEF PipeTypes
  <2>2. pc' = [pc EXCEPT ![c] = "handle"] /\ code' \in [Call -> Codes]
    BY <1>1, <1>6 DEF TypeOK
  <2>3. \A x \in given'[c] : x \in given[c] \/ Permits(c, x)
    BY <1>6, <2>1
  <2>4. pc[c] \in {"passed", "authz", "handle", "count", "audit"} /\ "handle" \in Settled
    BY <1>1 DEF Settled
  <2> QED
    BY <1>1, <2>1, <2>2, <2>3, <2>4, StageKeeps
<1>7. CASE UNCHANGED <<pc, code, given>>
  <2>1. PipeTypes'
    BY <1>1, <1>7 DEF PipeTypes
  <2>2. pc' = [pc EXCEPT ![c] = "handle"] /\ code' \in [Call -> Codes]
    BY <1>1, <1>7 DEF TypeOK
  <2> QED
    BY <1>1, <1>7, <2>1, <2>2, StageKeeps DEF Settled
<1> QED
  BY <1>3, <1>4, <1>5, <1>6, <1>7

LEMMA RowsStayTyped ==
  ASSUME TypeOK, PipeTypes, NEW c \in Call, Count(c)
  PROVE  rows' \in [Method -> Row]
BY DEF Count, PipeTypes, Row, TypeOK

\* The handler's end, and the interceptors that only watch.
LEMMA EndKeeps ==
  ASSUME PipelineInv, NEW c \in Call,
         \/ \E why \in {"ok", "failed", "context error"} : Return(c, why)
         \/ Panic(c) \/ Count(c) \/ RecordEvent(c)
  PROVE  PipelineInv'
<1>1. PipeTypes /\ TypeOK /\ c \in Call
  BY DEF PipelineInv, PipelineTypeOK, PipeTypes
<1>2. {"ok", "failed", "aborted", "internal", "context error", "deadline exceeded"} \subseteq Codes
  BY DEF Codes
<1>3. ASSUME NEW why \in {"ok", "failed", "context error"}, Return(c, why)
      PROVE  PipelineInv'
  <2>1. PipeTypes' /\ given' = given /\ pc[c] = "handle" /\ Answer(c, why)
    BY <1>1, <1>3 DEF Return, Handled, pipeVars, PipeTypes
  <2>2. why \in Codes
    BY <1>2
  <2> QED
    BY <1>1, <1>3, <2>1, <2>2, AnswerTypes, StageKeeps DEF Return, Settled
<1>4. CASE Panic(c)
  <2>1. PipeTypes' /\ given' = given /\ pc[c] = "handle"
    BY <1>1, <1>4 DEF Panic, Handled, PipeTypes
  <2>2. code' \in [Call -> Codes] /\ pc' = [pc EXCEPT ![c] = "done"]
    BY <1>1, <1>4, <1>2 DEF Panic, Refuse, Step, TypeOK
  <2> QED
    BY <1>1, <1>4, <2>1, <2>2, StageKeeps DEF Panic, Settled
<1>5. CASE Count(c)
  <2>1. rows' \in [Method -> Row]
    BY <1>1, <1>5, RowsStayTyped
  <2>2. PipeTypes' /\ given' = given
    BY <1>1, <1>5, <2>1 DEF Count, PipeTypes
  <2>3. code' \in [Call -> Codes] /\ pc' = [pc EXCEPT ![c] = "audit"] /\ pc[c] = "count"
    BY <1>1, <1>5 DEF Count, Step, TypeOK
  <2> QED
    BY <1>1, <1>5, <2>2, <2>3, StageKeeps DEF Count, Settled
<1>6. CASE RecordEvent(c)
  <2>1. StatusCode(code[c]) \in Codes \cup {"unknown"} /\ FromContextError(code[c]) \in Codes
    BY <1>1, <1>2 DEF StatusCode, FromContextError, TypeOK
  <2>2. [principal |-> principal(c), code |-> StatusCode(code[c])] \in AuditEvents
    BY <1>1, <2>1, AuthnAssumption DEF AuditEvents, principal, TypeOK
  <2>3. audit' \in [Call -> AuditEvents \cup {NoEvent}]
    BY <1>1, <1>6, <2>2 DEF RecordEvent, PipeTypes
  <2>4. PipeTypes' /\ given' = given
    BY <1>1, <1>6, <2>3 DEF RecordEvent, PipeTypes
  <2>5. code' \in [Call -> Codes] /\ pc' = [pc EXCEPT ![c] = "done"] /\ pc[c] = "audit"
    BY <1>1, <1>6, <2>1 DEF RecordEvent, Step, TypeOK
  <2> QED
    BY <1>1, <1>6, <2>4, <2>5, StageKeeps DEF RecordEvent, Settled
<1> QED
  BY <1>3, <1>4, <1>5, <1>6

\* What neither moves a call nor hands out a message.
LEMMA ScrapingKeeps ==
  ASSUME PipelineInv, UNCHANGED <<authnVars, given>>, PipeTypes'
  PROVE  PipelineInv'
<1> USE DEF authnVars, callVars, storeVars
<1>1. AuthnInv'
  BY DEF PipelineInv, AuthnInv, TypeOK, Progress, IdentityIsEarned, PassedOver,
         NoSilentDowngrade, GoesOnAnonymous, AdminClaimsWereGranted, IsAnonymous
<1>2. PipelineTypeOK'
  BY <1>1 DEF AuthnInv, PipelineTypeOK, PipeTypes
<1>3. Fed'
  BY DEF PipelineInv, Fed
<1>4. DeliveredOnlyIfAllowed'
  BY NothingNewDelivered
<1>5. Opened'
  BY AdmissionStands DEF PipelineInv, Opened
<1> QED
  BY <1>1, <1>2, <1>3, <1>4, <1>5 DEF PipelineInv

LEMMA PipelineInitHolds ==
  ASSUME PipelineInit
  PROVE  PipelineInv
<1>1. AuthnInv
  BY AuthnInitHolds DEF PipelineInit
<1>2. PipelineTypeOK
  BY <1>1, PipelineAssumption
     DEF PipelineInit, PipelineTypeOK, AuthnInv, Budget!LimiterInit, Row
<1>3. Fed /\ Opened /\ DeliveredOnlyIfAllowed
  BY DEF PipelineInit, AuthnInit, Fed, Opened, DeliveredOnlyIfAllowed
<1> QED
  BY <1>1, <1>2, <1>3 DEF PipelineInv

LEMMA PipelineStepKeeps ==
  ASSUME PipelineInv, [Next]_vars
  PROVE  PipelineInv'
<1>1. CASE AuthnNext /\ UNCHANGED pipeVars
  BY <1>1, AuthnKeepsPipeline
<1>2. ASSUME NEW c \in Call, CallStep(c)
      PROVE  PipelineInv'
  BY <1>2, RateLimitKeeps, AuthorizeKeeps, RecvKeeps, EndKeeps DEF CallStep
<1>3. PipeTypes
  BY DEF PipelineInv, PipelineTypeOK, PipeTypes
<1>4. CASE SnapshotAndReset
  <2>1. rows' \in [Method -> Row] /\ scraped' \in [Method -> Row]
    BY <1>3, <1>4 DEF SnapshotAndReset, PipeTypes, Row
  <2>2. PipeTypes'
    BY <1>3, <1>4, <2>1 DEF SnapshotAndReset, PipeTypes
  <2> QED
    BY <1>4, <2>2, ScrapingKeeps DEF SnapshotAndReset
<1>5. CASE UNCHANGED vars
  <2>1. PipeTypes' /\ UNCHANGED <<authnVars, given>>
    BY <1>3, <1>5 DEF PipeTypes, vars, pipeVars
  <2> QED
    BY <2>1, ScrapingKeeps
<1> QED
  BY <1>1, <1>2, <1>4, <1>5 DEF Next

\* No interleaving of calls, messages, store events and failing requirements
\* gives a handler a message that the method's policy does not allow to the
\* caller, in any shape of call that the interceptors tell apart.
THEOREM HandlersSeeOnlyAllowedMessages == Spec => []DeliveredOnlyIfAllowed
<1>1. PipelineInv => DeliveredOnlyIfAllowed
  BY DEF PipelineInv
<1> QED
  BY <1>1, PipelineInitHolds, PipelineStepKeeps, PTL DEF Spec

\* The state of the pipeline stays well typed; in particular the limiter never
\* hands out more than Limit grants of one budget.
THEOREM PipelineIsTyped == Spec => []PipelineTypeOK
<1>1. PipelineInv => PipelineTypeOK
  BY DEF PipelineInv
<1> QED
  BY <1>1, PipelineInitHolds, PipelineStepKeeps, PTL DEF Spec

\* Behind the whole chain, and while it runs, authentication keeps what it
\* promises: no later stage of a call undoes it.
THEOREM AuthenticationSurvivesThePipeline ==
  Spec => [](IdentityIsEarned /\ NoSilentDowngrade /\ AdminClaimsWereGranted)
<1>1. PipelineInv => IdentityIsEarned /\ NoSilentDowngrade /\ AdminClaimsWereGranted
  BY DEF PipelineInv, AuthnInv
<1> QED
  BY <1>1, PipelineInitHolds, PipelineStepKeeps, PTL DEF Spec

-----------------------------------------------------------------------------
(***************************************************************************)
(* What audit and usage tell.  A call enters the stages that they wrap only *)
(* through the limiter, and leaves them through the meter and the audit    *)
(* record, unless its handler panics; the answers that end a call at once  *)
(* are those of routes, of authentication and of the limiter itself.       *)
(***************************************************************************)

Later == {"authz"} \cup Settled

\* What an event may say to an answer.
Tells(event, answer) == event # answer => event = "unknown" /\ answer = "deadline exceeded"

\* What the ledgers rest on, call by call.
EntryOf(c) ==
  /\ c \in admitted => pc[c] \in Later /\ method[c] \notin Http
  /\ pc[c] \in Later \ {"done"} => c \in admitted \/ (pc[c] = "handle" /\ method[c] \in Http)
  /\ c \in panicked => pc[c] = "done"
  /\ audit[c] # NoEvent =>
       /\ pc[c] = "done" /\ audit[c].principal = principal(c)
       /\ Tells(audit[c].code, code[c])
  /\ pc[c] = "done" /\ c \in admitted \ panicked /\ method[c] \in Audited => audit[c] # NoEvent

Entries == \A c \in Call : EntryOf(c)

InLedger(c) == c \in admitted \ panicked /\ pc[c] \in {"audit", "done"}

Failed(m) == {c \in Counted(m) : code[c] # "ok"}

Ledger == IsFiniteSet(admitted) /\ Entries /\ UsageIsConserved

\* Only the call that moves needs looking at.
LEMMA EntriesOfOthersStand ==
  ASSUME Entries, NEW c \in Call, UNCHANGED <<method, via>>,
         \A d \in Call \ {c} :
           /\ pc'[d] = pc[d] /\ code'[d] = code[d] /\ audit'[d] = audit[d]
           /\ d \in admitted' <=> d \in admitted
           /\ d \in panicked' <=> d \in panicked,
         EntryOf(c)'
  PROVE  Entries'
<1> SUFFICES ASSUME NEW d \in Call, d # c
             PROVE  EntryOf(d)'
  BY DEF Entries
<1> QED
  BY DEF Entries, EntryOf, principal

LEMMA CountsStand ==
  ASSUME UsageIsConserved, UNCHANGED <<method, rows, scraped>>,
         admitted \subseteq Call, admitted' \subseteq Call,
         \A d \in Call : /\ InLedger(d)' <=> InLedger(d)
                         /\ InLedger(d) => (code'[d] = "ok" <=> code[d] = "ok")
  PROVE  UsageIsConserved'
<1>1. ASSUME NEW m \in Method
      PROVE  Counted(m)' = Counted(m) /\ Failed(m)' = Failed(m)
  <2>1. Counted(m)' = Counted(m)
    BY DEF Counted, InLedger
  <2>2. \A d \in Counted(m) : code'[d] = "ok" <=> code[d] = "ok"
    BY DEF Counted, InLedger
  <2> QED
    BY <2>1, <2>2 DEF Failed
<1> SUFFICES ASSUME NEW m \in Method
             PROVE  /\ (rows[m].requests + scraped[m].requests = Cardinality(Counted(m)))'
                    /\ (rows[m].errors + scraped[m].errors = Cardinality(Failed(m)))'
  BY DEF UsageIsConserved, Failed
<1> QED
  BY <1>1 DEF UsageIsConserved, Failed

\* The calls that authentication moves have not entered the later stages, and
\* are not in them when it is done with them.
LEMMA AuthnLeavesLedgers ==
  ASSUME TypeOK, AuthnNext, NEW d \in Call
  PROVE  /\ method' = method
         /\ \/ pc'[d] = pc[d] /\ via'[d] = via[d] /\ code'[d] = code[d]
            \/ pc[d] \notin Later \cup {"passed"} /\ pc'[d] \notin Later \ {"done"}
<1>1. CASE Environment
  BY <1>1 DEF Environment, Revoke, Outage, ChangeRecord, callVars
<1>2. ASSUME NEW c \in Call, AuthnStep(c)
      PROVE  /\ method' = method
             /\ \/ pc'[d] = pc[d] /\ via'[d] = via[d] /\ code'[d] = code[d]
                \/ pc[d] \notin Later \cup {"passed"} /\ pc'[d] \notin Later \ {"done"}
  <2>1. /\ method' = method
        /\ pc[c] \notin Later \cup {"passed"}
        /\ \/ pc' = pc
           \/ \E to \in {"authn", "chain", "enrich", "passed", "done"} : pc' = [pc EXCEPT ![c] = to]
        /\ \/ via' = via
           \/ \E x : via' = [via EXCEPT ![c] = x]
        /\ \/ code' = code
           \/ \E why : code' = [code EXCEPT ![c] = why]
    <3>1. CASE (\E cs \in Presentation : Arrive(c, cs)) \/ Present(c) \/ Unrecognized(c)
      BY <3>1 DEF Arrive, Present, Unrecognized, Step, Refuse, callVars, Later, Settled
    <3>2. CASE Authenticate(c)
      BY <3>2 DEF Authenticate, Step, Refuse, callVars, Later, Settled
    <3>3. CASE Enrich(c)
      BY <3>3 DEF Enrich, Step, Refuse, callVars, Later, Settled
    <3> QED
      BY <1>2, <3>1, <3>2, <3>3 DEF AuthnStep
  <2>2. CASE d # c
    BY <2>1, <2>2 DEF TypeOK
  <2>3. CASE d = c
    <3>1. \/ pc' = pc
          \/ pc'[d] \notin Later \ {"done"}
      BY <2>1, <2>3 DEF TypeOK, Later, Settled
    <3> QED
      BY <2>1, <2>3, <3>1 DEF Later
  <2> QED
    BY <2>2, <2>3
<1> QED
  BY <1>1, <1>2 DEF AuthnNext

LEMMA AuthnKeepsLedger ==
  ASSUME TypeOK, PipeTypes, Ledger, AuthnNext, UNCHANGED pipeVars
  PROVE  Ledger'
<1> USE DEF pipeVars
<1>1. Entries'
  <2> SUFFICES ASSUME NEW d \in Call
               PROVE  EntryOf(d)'
    BY DEF Entries
  <2>1. EntryOf(d) /\ method' = method
    BY AuthnLeavesLedgers DEF Ledger, Entries
  <2>2. CASE pc'[d] = pc[d] /\ via'[d] = via[d] /\ code'[d] = code[d]
    BY <2>1, <2>2 DEF EntryOf, principal
  <2>3. CASE pc[d] \notin Later \cup {"passed"} /\ pc'[d] \notin Later \ {"done"}
    <3>1. d \notin admitted /\ d \notin panicked /\ audit[d] = NoEvent
      BY <2>1, <2>3 DEF EntryOf, Later, Settled
    <3> QED
      BY <2>3, <3>1 DEF EntryOf
  <2> QED
    BY <2>2, <2>3, AuthnLeavesLedgers
<1>2. \A d \in Call : /\ InLedger(d)' <=> InLedger(d)
                      /\ InLedger(d) => code'[d] = code[d]
  <2> SUFFICES ASSUME NEW d \in Call
               PROVE  /\ InLedger(d)' <=> InLedger(d)
                      /\ InLedger(d) => code'[d] = code[d]
    OBVIOUS
  <2>1. EntryOf(d)
    BY DEF Ledger, Entries
  <2> QED
    BY <2>1, AuthnLeavesLedgers DEF InLedger, EntryOf, Later, Settled
<1>3. UNCHANGED <<method, rows, scraped>> /\ admitted \subseteq Call /\ admitted' \subseteq Call
  BY AuthnLeavesLedgers, AuthnAssumption DEF PipeTypes, AuthnNext, AuthnStep, Environment, Arrive, Present, Authenticate, Unrecognized, Enrich,
         Revoke, Outage, ChangeRecord, callVars
<1>4. UsageIsConserved'
  BY <1>2, <1>3, CountsStand DEF Ledger
<1> QED
  BY <1>1, <1>4 DEF Ledger

\* An answer from inside audit and usage: a route is done with it, and any
\* other call goes on to be counted.
LEMMA AnswersKeepLedger ==
  ASSUME TypeOK, PipeTypes, Ledger, NEW c \in Call, NEW why,
         \/ pc[c] = "passed" /\ method[c] \in Http
         \/ pc[c] = "authz"
         \/ pc[c] = "handle",
         Answer(c, why),
         UNCHANGED <<method, via, rows, scraped, audit, admitted, panicked>>
  PROVE  Ledger'
<1>1. EntryOf(c) /\ admitted \subseteq Call
  BY DEF Ledger, Entries, PipeTypes
<1>2. /\ pc'[c] = IF method[c] \in Http THEN "done" ELSE "count"
      /\ \A d \in Call \ {c} : pc'[d] = pc[d] /\ code'[d] = code[d]
  BY DEF Answer, Step, TypeOK
<1>3. EntryOf(c)'
  BY <1>1, <1>2 DEF EntryOf, Later, Settled
<1>4. Entries'
  BY <1>2, <1>3, EntriesOfOthersStand DEF Ledger
<1>5. \A d \in Call : /\ InLedger(d)' <=> InLedger(d)
                      /\ InLedger(d) => code'[d] = code[d]
  BY <1>1, <1>2 DEF InLedger, EntryOf
<1> QED
  BY <1>1, <1>4, <1>5, CountsStand DEF Ledger

\* A step of a call that stays before the meter, with its answer as it is.
LEMMA PassingKeepsLedger ==
  ASSUME TypeOK, PipeTypes, Ledger, NEW c \in Call,
         \/ pc[c] = "passed" /\ method[c] \in Http
         \/ pc[c] \in {"authz", "handle"},
         Step(c, "handle"),
         UNCHANGED <<method, via, code, rows, scraped, audit, admitted, panicked>>
  PROVE  Ledger'
<1>1. EntryOf(c) /\ admitted \subseteq Call
  BY DEF Ledger, Entries, PipeTypes
<1>2. pc'[c] = "handle" /\ \A d \in Call \ {c} : pc'[d] = pc[d]
  BY DEF Step, TypeOK
<1>3. EntryOf(c)'
  BY <1>1, <1>2 DEF EntryOf, Later, Settled
<1>4. Entries'
  BY <1>2, <1>3, EntriesOfOthersStand DEF Ledger
<1>5. \A d \in Call : InLedger(d)' <=> InLedger(d)
  BY <1>1, <1>2 DEF InLedger
<1> QED
  BY <1>1, <1>4, <1>5, CountsStand DEF Ledger

LEMMA RateLimitKeepsLedger ==
  ASSUME TypeOK, PipeTypes, Ledger, NEW c \in Call, RateLimit(c)
  PROVE  Ledger'
<1>1. /\ EntryOf(c) /\ pc[c] = "passed" /\ method[c] \notin Http
      /\ UNCHANGED <<method, via, rows, scraped, audit, panicked>>
      /\ admitted \subseteq Call
  BY DEF Ledger, Entries, RateLimit, callVars, PipeTypes
<1>2. c \notin admitted /\ c \notin panicked /\ audit[c] = NoEvent
  BY <1>1 DEF EntryOf, Later, Settled
<1>3. \/ Step(c, "authz") /\ UNCHANGED code /\ admitted' = admitted \cup {c}
      \/ Refuse(c, "exhausted") /\ UNCHANGED admitted
  BY DEF RateLimit
<1>4. /\ \A d \in Call \ {c} : pc'[d] = pc[d] /\ code'[d] = code[d]
      /\ \/ pc'[c] = "authz" /\ admitted' = admitted \cup {c}
         \/ pc'[c] = "done" /\ admitted' = admitted
  BY <1>3 DEF Step, Refuse, TypeOK
<1>5. EntryOf(c)'
  BY <1>1, <1>2, <1>4 DEF EntryOf, Later, Settled
<1>6. Entries'
  BY <1>1, <1>4, <1>5, EntriesOfOthersStand DEF Ledger
<1>7. \A d \in Call : /\ InLedger(d)' <=> InLedger(d)
                      /\ InLedger(d) => code'[d] = code[d]
  BY <1>1, <1>2, <1>4 DEF InLedger
<1>8. IsFiniteSet(admitted')
  BY <1>4, FS_AddElement DEF Ledger
<1>9. UsageIsConserved'
  BY <1>1, <1>4, <1>7, CountsStand DEF Ledger
<1> QED
  BY <1>6, <1>8, <1>9 DEF Ledger

LEMMA PanicKeepsLedger ==
  ASSUME TypeOK, PipeTypes, Ledger, NEW c \in Call, Panic(c)
  PROVE  Ledger'
<1>1. /\ EntryOf(c) /\ pc[c] = "handle" /\ admitted \subseteq Call
      /\ UNCHANGED <<method, via, rows, scraped, audit, admitted>>
      /\ panicked' = panicked \cup {c}
  BY DEF Ledger, Entries, Panic, Handled, callVars, PipeTypes
<1>2. pc'[c] = "done" /\ \A d \in Call \ {c} : pc'[d] = pc[d] /\ code'[d] = code[d]
  BY DEF Panic, Refuse, Step, TypeOK
<1>3. EntryOf(c)'
  BY <1>1, <1>2 DEF EntryOf, Later, Settled
<1>4. Entries'
  BY <1>1, <1>2, <1>3, EntriesOfOthersStand DEF Ledger
<1>5. \A d \in Call : /\ InLedger(d)' <=> InLedger(d)
                      /\ InLedger(d) => code'[d] = code[d]
  BY <1>1, <1>2 DEF InLedger
<1> QED
  BY <1>1, <1>4, <1>5, CountsStand DEF Ledger

LEMMA RecordEventKeepsLedger ==
  ASSUME TypeOK, PipeTypes, Ledger, NEW c \in Call, RecordEvent(c)
  PROVE  Ledger'
<1>1. /\ EntryOf(c) /\ pc[c] = "audit" /\ admitted \subseteq Call
      /\ UNCHANGED <<method, via, rows, scraped, admitted, panicked>>
  BY DEF Ledger, Entries, RecordEvent, callVars, PipeTypes
<1>2. /\ pc'[c] = "done" /\ code'[c] = FromContextError(code[c])
      /\ \A d \in Call \ {c} : pc'[d] = pc[d] /\ code'[d] = code[d]
  BY DEF RecordEvent, Step, TypeOK
<1>3. audit[c] = NoEvent
  BY <1>1 DEF EntryOf
<1>4. /\ audit'[c] = IF method[c] \in Audited
                     THEN [principal |-> principal(c), code |-> StatusCode(code[c])]
                     ELSE NoEvent
      /\ \A d \in Call \ {c} : audit'[d] = audit[d]
  BY <1>3 DEF RecordEvent, PipeTypes
<1>5. [principal |-> principal(c), code |-> StatusCode(code[c])] # NoEvent
  <2>1. StatusCode(code[c]) \in Codes \cup {"unknown"}
    BY DEF StatusCode, TypeOK, Codes
  <2> QED
    BY <2>1, AuthnAssumption, PipelineAssumption DEF AuditEvents, principal, TypeOK
<1>6. principal(c)' = principal(c)
  BY <1>1 DEF principal
<1>7. Tells(StatusCode(code[c]), FromContextError(code[c]))
  BY DEF StatusCode, FromContextError, Tells
<1>8. EntryOf(c)'
  BY <1>1, <1>2, <1>4, <1>5, <1>6, <1>7 DEF EntryOf, Later, Settled
<1>9. Entries'
  BY <1>1, <1>2, <1>4, <1>8, EntriesOfOthersStand DEF Ledger
<1>10. \A d \in Call : /\ InLedger(d)' <=> InLedger(d)
                       /\ InLedger(d) => (code'[d] = "ok" <=> code[d] = "ok")
  BY <1>1, <1>2 DEF InLedger, FromContextError
<1>11. /\ UsageIsConserved /\ IsFiniteSet(admitted')
       /\ admitted \subseteq Call /\ admitted' \subseteq Call
       /\ UNCHANGED <<method, rows, scraped>>
  BY <1>1 DEF Ledger
<1>12. UsageIsConserved'
  BY <1>10, <1>11, CountsStand
<1> QED
  BY <1>9, <1>11, <1>12 DEF Ledger

\* The meter's step: one more call that is done with its handler, in the row
\* of its method, and among the errors just when the client got one.
LEMMA CountKeepsLedger ==
  ASSUME TypeOK, PipeTypes, Ledger, NEW c \in Call, Count(c)
  PROVE  Ledger'
<1>1. /\ EntryOf(c) /\ pc[c] = "count" /\ admitted \subseteq Call
      /\ UNCHANGED <<method, via, code, scraped, audit, admitted, panicked>>
  BY DEF Ledger, Entries, Count, callVars, PipeTypes
<1>2. pc'[c] = "audit" /\ \A d \in Call \ {c} : pc'[d] = pc[d]
  BY DEF Count, Step, TypeOK
<1>3. c \in admitted \ panicked
  BY <1>1 DEF EntryOf, Later, Settled
<1>4. EntryOf(c)'
  BY <1>1, <1>2, <1>3 DEF EntryOf, Later, Settled
<1>5. Entries'
  BY <1>1, <1>2, <1>4, EntriesOfOthersStand DEF Ledger
<1>6. ASSUME NEW m \in Method, m # method[c]
      PROVE  Counted(m)' = Counted(m) /\ Failed(m)' = Failed(m) /\ rows'[m] = rows[m]
  <2>1. Counted(m)' = Counted(m)
    BY <1>1, <1>2, <1>6 DEF Counted
  <2> QED
    BY <1>1, <1>6, <2>1 DEF Failed, Count, PipeTypes
<1>7. DEFINE m == method[c]
<1>8. /\ m \in Method /\ c \notin Counted(m)
      /\ \A n : n = m => /\ Counted(n)' = Counted(m) \cup {c}
                         /\ Failed(n)' = IF code[c] # "ok" THEN Failed(m) \cup {c} ELSE Failed(m)
  <2>1. m \in Method /\ c \notin Counted(m)
    BY <1>1 DEF Counted, TypeOK
  <2>2. \A n : n = m => Counted(n)' = Counted(m) \cup {c}
    BY <1>1, <1>2, <1>3 DEF Counted
  <2>3. \A n : n = m => Failed(n)' = IF code[c] # "ok" THEN Failed(m) \cup {c} ELSE Failed(m)
    BY <1>1, <2>2 DEF Failed
  <2> QED
    BY <2>1, <2>2, <2>3
<1>9. IsFiniteSet(Counted(m)) /\ IsFiniteSet(Failed(m)) /\ c \notin Failed(m)
  BY <1>8, FS_Subset DEF Ledger, Counted, Failed
<1>10. /\ Cardinality(Counted(m) \cup {c}) = Cardinality(Counted(m)) + 1
       /\ Cardinality(Failed(m) \cup {c}) = Cardinality(Failed(m)) + 1
       /\ Cardinality(Counted(m)) \in Nat /\ Cardinality(Failed(m)) \in Nat
  BY <1>8, <1>9, FS_AddElement, FS_CardinalityType
<1>11. UsageIsConserved'
  <2> SUFFICES ASSUME NEW n \in Method
               PROVE  /\ (rows[n].requests + scraped[n].requests = Cardinality(Counted(n)))'
                      /\ (rows[n].errors + scraped[n].errors = Cardinality(Failed(n)))'
    BY DEF UsageIsConserved, Failed
  <2>1. /\ rows[n].requests + scraped[n].requests = Cardinality(Counted(n))
        /\ rows[n].errors + scraped[n].errors = Cardinality(Failed(n))
    BY DEF Ledger, UsageIsConserved, Failed
  <2>2. CASE n # m
    BY <1>1, <1>6, <2>1, <2>2
  <2>3. CASE n = m
    <3>1. /\ rows'[n].requests = rows[n].requests + 1
          /\ rows'[n].errors = IF code[c] # "ok" THEN rows[n].errors + 1 ELSE rows[n].errors
          /\ {rows[n].requests, rows[n].errors, scraped[n].requests, scraped[n].errors} \subseteq Nat
      BY <2>3 DEF Count, PipeTypes, Row
    <3>2. /\ Cardinality(Counted(n))' = Cardinality(Counted(n)) + 1
          /\ Cardinality(Failed(n))' = IF code[c] # "ok" THEN Cardinality(Failed(n)) + 1
                                       ELSE Cardinality(Failed(n))
      <4>1. /\ Counted(n)' = Counted(n) \cup {c}
            /\ Failed(n)' = IF code[c] # "ok" THEN Failed(n) \cup {c} ELSE Failed(n)
        BY <1>8, <2>3
      <4> QED
        BY <1>10, <2>3, <4>1
    <3> QED
      BY <1>1, <1>10, <2>1, <2>3, <3>1, <3>2
  <2> QED
    BY <2>2, <2>3
<1> QED
  BY <1>1, <1>5, <1>11 DEF Ledger

\* What follows the decider: an answer, or the way on to the handler.
LEMMA AuthorizeKeepsLedger ==
  ASSUME TypeOK, PipeTypes, Ledger, NEW c \in Call, NEW m \in Message, NEW failing,
         NEW resolved, Authorize(c, m, failing, resolved)
  PROVE  Ledger'
<1>1. /\ \/ pc[c] = "passed" /\ method[c] \in Http
         \/ pc[c] = "authz"
      /\ UNCHANGED <<method, via, rows, scraped, audit, admitted, panicked>>
  BY DEF Authorize, callVars
<1>2. \/ \E why : Answer(c, why)
      \/ Step(c, "handle") /\ UNCHANGED code
  BY DEF Authorize
<1> QED
  BY <1>1, <1>2, AnswersKeepLedger, PassingKeepsLedger

LEMMA HandlingKeepsLedger ==
  ASSUME TypeOK, PipeTypes, Ledger, NEW c \in Call,
         \/ \E m \in Message, failing \in SUBSET Flaky, resolved \in BOOLEAN :
              Recv(c, m, failing, resolved)
         \/ \E why \in {"ok", "failed", "context error"} : Return(c, why)
  PROVE  Ledger'
<1>1. /\ pc[c] = "handle"
      /\ UNCHANGED <<method, via, rows, scraped, audit, admitted, panicked>>
      /\ \/ \E why : Answer(c, why)
         \/ UNCHANGED <<pc, code>>
  BY DEF Recv, Return, Handled, callVars, pipeVars
<1>2. CASE UNCHANGED <<pc, code>>
  <2>1. Step(c, "handle")
    BY <1>1, <1>2 DEF Step, TypeOK
  <2> QED
    BY <1>1, <1>2, <2>1, PassingKeepsLedger
<1> QED
  BY <1>1, <1>2, AnswersKeepLedger

\* Between them, a scrape moves what was counted and loses none of it.
LEMMA ScrapingKeepsLedger ==
  ASSUME PipeTypes, Ledger, SnapshotAndReset
  PROVE  Ledger'
<1> USE DEF authnVars, callVars
<1>1. Entries'
  BY DEF Ledger, Entries, EntryOf, principal, SnapshotAndReset
<1>2. ASSUME NEW m \in Method
      PROVE  Counted(m)' = Counted(m) /\ Failed(m)' = Failed(m)
  BY DEF Counted, Failed, SnapshotAndReset
<1>3. ASSUME NEW m \in Method
      PROVE  /\ rows'[m].requests + scraped'[m].requests = rows[m].requests + scraped[m].requests
             /\ rows'[m].errors + scraped'[m].errors = rows[m].errors + scraped[m].errors
  BY DEF SnapshotAndReset, PipeTypes, Row
<1>4. UsageIsConserved'
  BY <1>2, <1>3 DEF Ledger, UsageIsConserved, Failed
<1> QED
  BY <1>1, <1>4 DEF Ledger, SnapshotAndReset

LEMMA LedgerInitHolds ==
  ASSUME PipelineInit
  PROVE  Ledger
<1>1. Entries
  BY DEF PipelineInit, AuthnInit, Entries, EntryOf, Later, Settled
<1>2. IsFiniteSet(admitted)
  BY FS_EmptySet DEF PipelineInit
<1>3. ASSUME NEW m \in Method
      PROVE  Counted(m) = {} /\ Failed(m) = {}
  BY DEF PipelineInit, Counted, Failed
<1>4. UsageIsConserved
  BY <1>3, FS_EmptySet DEF PipelineInit, UsageIsConserved, Failed
<1> QED
  BY <1>1, <1>2, <1>4 DEF Ledger

LEMMA LedgerStepKeeps ==
  ASSUME PipelineInv, Ledger, [Next]_vars
  PROVE  Ledger'
<1>1. TypeOK /\ PipeTypes
  BY DEF PipelineInv, PipelineTypeOK, PipeTypes
<1>2. CASE AuthnNext /\ UNCHANGED pipeVars
  BY <1>1, <1>2, AuthnKeepsLedger
<1>3. ASSUME NEW c \in Call, CallStep(c)
      PROVE  Ledger'
  BY <1>1, <1>3, RateLimitKeepsLedger, AuthorizeKeepsLedger, HandlingKeepsLedger,
     PanicKeepsLedger, CountKeepsLedger, RecordEventKeepsLedger DEF CallStep
<1>4. CASE SnapshotAndReset
  BY <1>1, <1>4, ScrapingKeepsLedger
<1>5. CASE UNCHANGED vars
  <2>1. Entries'
    BY <1>5 DEF Ledger, Entries, EntryOf, principal, vars, pipeVars, authnVars, callVars
  <2>2. UsageIsConserved' /\ IsFiniteSet(admitted)'
    BY <1>5 DEF Ledger, UsageIsConserved, Counted, vars, pipeVars, authnVars, callVars
  <2> QED
    BY <2>1, <2>2 DEF Ledger
<1> QED
  BY <1>2, <1>3, <1>4, <1>5 DEF Next

\* Every audited call that passed the limiter and whose handler did not panic
\* ends with one event, and an event names the caller and the code the client
\* got - or Unknown, where the handler returned the bare error of its context and
\* the client gets DeadlineExceeded - whatever the other calls, the stores and
\* the scraper do meanwhile.
THEOREM AuditIsTruthful == Spec => []AuditTellsTheOutcome
<1>1. Ledger => AuditTellsTheOutcome
  BY DEF Ledger, Entries, EntryOf, Tells, AuditTellsTheOutcome
<1> QED
  BY <1>1, PipelineInitHolds, PipelineStepKeeps, LedgerInitHolds, LedgerStepKeeps, PTL DEF Spec

\* The rows of the meter and what was scraped add up, for every method and at
\* every moment, to the calls that are done with their handler, and their
\* errors to those among them that failed; for any number of calls.
THEOREM NoRequestIsLostToAScrape == Spec => []UsageIsConserved
<1>1. Ledger => UsageIsConserved
  BY DEF Ledger
<1> QED
  BY <1>1, PipelineInitHolds, PipelineStepKeeps, LedgerInitHolds, LedgerStepKeeps, PTL DEF Spec

=============================================================================
