----------------------------- MODULE JWKSProofs -----------------------------
(***************************************************************************)
(* The key cache, for any number of callers and rotations.  Everything     *)
(* rests on refreshMu: whoever is between its second check and its return  *)
(* holds it, so between the issuer's answer and the write to the cache     *)
(* nobody else writes, and only rotations can have made the answer old.    *)
(***************************************************************************)
EXTENDS JWKS, TLAPS

HolderIsLocked == \A c \in Caller : pc[c] \in Locked <=> refreshMu = c

Ages ==
  /\ keys <= published
  /\ \A c \in Caller : pc[c] = "fetched" =>
       got[c] \in keys .. published /\ got[c] # NoKeys

Debts ==
  \A c \in Caller :
    /\ fresh => ~owed[c]
    /\ had[c] => keys # NoKeys
    /\ pc[c] = "fallback" => failed[c]

Inv == /\ TypeOK /\ HolderIsLocked /\ Ages /\ Debts
       /\ StaleOnlyAfterFailure /\ AvailableOnceCached

LEMMA InitHolds ==
  ASSUME Init
  PROVE  Inv
<1>1. TypeOK
  <2>1. owed \in [Caller -> BOOLEAN]
    BY DEF Init
  <2>2. failed \in [Caller -> BOOLEAN] /\ had \in [Caller -> BOOLEAN]
    BY <2>1, Zenon DEF Init
  <2>3. /\ keys \in Nat /\ published \in Nat \ {NoKeys} /\ got \in [Caller -> Nat]
        /\ pc \in [Caller -> {"idle", "check", "wait"} \cup Locked]
    BY DEF Init, NoKeys
  <2>4. fresh \in BOOLEAN /\ refreshMu \in Caller \cup {Nobody}
    BY DEF Init
  <2>5. ~fresh
    BY DEF Init
  <2> QED
    BY <2>1, <2>2, <2>3, <2>4, <2>5 DEF TypeOK
<1>2. HolderIsLocked /\ Ages
  BY JWKSAssumption DEF Init, HolderIsLocked, Ages, Locked, NoKeys
<1>3. Debts /\ StaleOnlyAfterFailure /\ AvailableOnceCached
  BY DEF Init, Debts, StaleOnlyAfterFailure, AvailableOnceCached
<1> QED
  BY <1>1, <1>2, <1>3 DEF Inv

LEMMA TypesHold ==
  ASSUME TypeOK, Ages, [Next]_vars
  PROVE  TypeOK'
<1> USE DEF TypeOK, Locked, Step, callerVars, history
<1>1. ASSUME NEW c \in Caller, KeyFunc(c)
      PROVE  TypeOK'
  <2>1. /\ pc' \in [Caller -> {"idle", "check", "wait"} \cup Locked] /\ got' \in [Caller -> Nat]
        /\ failed' \in [Caller -> BOOLEAN]
    BY <1>1 DEF KeyFunc, NoKeys
  <2>2. owed' \in [Caller -> BOOLEAN] /\ had' \in [Caller -> BOOLEAN]
    BY <1>1, Zenon DEF KeyFunc
  <2> QED
    BY <1>1, <2>1, <2>2 DEF KeyFunc
<1>2. ASSUME NEW c \in Caller, Lock(c) \/ Check(c) \/ Recheck(c)
      PROVE  TypeOK'
  BY <1>2 DEF Lock, Check, Recheck
<1>3. ASSUME NEW c \in Caller, Fetched(c) \/ FetchFails(c) \/ Fallback(c)
      PROVE  TypeOK'
  <2>1. CASE Fetched(c)
    BY <2>1 DEF Fetched
  <2>2. CASE FetchFails(c)
    BY <2>2 DEF FetchFails
  <2>3. CASE Fallback(c)
    BY <2>3 DEF Fallback
  <2> QED
    BY <1>3, <2>1, <2>2, <2>3
<1>4. ASSUME NEW c \in Caller, Store(c)
      PROVE  TypeOK'
  BY <1>4 DEF Store, Ages
<1>5. ASSUME NEW c \in Caller, Return(c)
      PROVE  TypeOK'
  BY <1>5 DEF Return
<1>6. CASE Rotate
  BY <1>6 DEF Rotate, NoKeys
<1>7. CASE Expire
  BY <1>7 DEF Expire
<1>8. CASE UNCHANGED vars
  BY <1>8 DEF vars
<1> QED
  BY <1>1, <1>2, <1>3, <1>4, <1>5, <1>6, <1>7, <1>8 DEF Next, Serve

LEMMA HolderHolds ==
  ASSUME TypeOK, HolderIsLocked, [Next]_vars
  PROVE  HolderIsLocked'
<1> USE DEF TypeOK, HolderIsLocked, Locked, Step, callerVars
<1>1. ASSUME NEW c \in Caller, KeyFunc(c) \/ Lock(c) \/ Return(c)
      PROVE  HolderIsLocked'
  BY <1>1, JWKSAssumption DEF KeyFunc, Lock, Return
<1>2. ASSUME NEW c \in Caller, Check(c) \/ Recheck(c) \/ Fetched(c) \/ FetchFails(c)
      PROVE  HolderIsLocked'
  BY <1>2 DEF Check, Recheck, Fetched, FetchFails
<1>3. ASSUME NEW c \in Caller, Store(c) \/ Fallback(c)
      PROVE  HolderIsLocked'
  BY <1>3 DEF Store, Fallback
<1>4. CASE Rotate \/ Expire \/ UNCHANGED vars
  BY <1>4 DEF Rotate, Expire, vars
<1> QED
  BY <1>1, <1>2, <1>3, <1>4 DEF Next, Serve

LEMMA AgesHold ==
  ASSUME Inv, [Next]_vars
  PROVE  Ages' /\ keys' >= keys
<1> USE DEF Inv, TypeOK, Ages, Step, callerVars, NoKeys
<1>1. ASSUME NEW c \in Caller, KeyFunc(c) \/ Lock(c) \/ Return(c)
      PROVE  Ages' /\ keys' >= keys
  BY <1>1 DEF KeyFunc, Lock, Return
<1>2. ASSUME NEW c \in Caller, Check(c) \/ Recheck(c) \/ FetchFails(c) \/ Fallback(c)
      PROVE  Ages' /\ keys' >= keys
  BY <1>2 DEF Check, Recheck, FetchFails, Fallback
<1>3. ASSUME NEW c \in Caller, Fetched(c)
      PROVE  Ages' /\ keys' >= keys
  BY <1>3 DEF Fetched
<1>4. ASSUME NEW c \in Caller, Store(c)
      PROVE  Ages' /\ keys' >= keys
  <2>1. \A d \in Caller : pc'[d] # "fetched"
    BY <1>4 DEF Store, HolderIsLocked, Locked
  <2> QED
    BY <1>4, <2>1 DEF Store
<1>5. CASE Rotate \/ Expire \/ UNCHANGED vars
  BY <1>5 DEF Rotate, Expire, vars
<1> QED
  BY <1>1, <1>2, <1>3, <1>4, <1>5 DEF Next, Serve

LEMMA DebtsHold ==
  ASSUME Inv, [Next]_vars
  PROVE  (Debts /\ StaleOnlyAfterFailure /\ AvailableOnceCached)'
<1> USE DEF Inv, TypeOK, Debts, StaleOnlyAfterFailure, AvailableOnceCached, Step, callerVars,
            history, NoKeys
<1>1. ASSUME NEW c \in Caller, KeyFunc(c) \/ Lock(c)
      PROVE  (Debts /\ StaleOnlyAfterFailure /\ AvailableOnceCached)'
  BY <1>1 DEF KeyFunc, Lock
<1>2. ASSUME NEW c \in Caller, Check(c) \/ Recheck(c)
      PROVE  (Debts /\ StaleOnlyAfterFailure /\ AvailableOnceCached)'
  BY <1>2 DEF Check, Recheck
<1>3. ASSUME NEW c \in Caller, Fetched(c) \/ FetchFails(c)
      PROVE  (Debts /\ StaleOnlyAfterFailure /\ AvailableOnceCached)'
  BY <1>3 DEF Fetched, FetchFails
<1>4. ASSUME NEW c \in Caller, Fallback(c) \/ Return(c)
      PROVE  (Debts /\ StaleOnlyAfterFailure /\ AvailableOnceCached)'
  BY <1>4 DEF Fallback, Return
<1>5. ASSUME NEW c \in Caller, Store(c)
      PROVE  (Debts /\ StaleOnlyAfterFailure /\ AvailableOnceCached)'
  BY <1>5 DEF Store, Ages
<1>6. CASE Rotate \/ Expire \/ UNCHANGED vars
  BY <1>6 DEF Rotate, Expire, vars
<1> QED
  BY <1>1, <1>2, <1>3, <1>4, <1>5, <1>6 DEF Next, Serve

LEMMA InvHolds == Inv /\ [Next]_vars => Inv'
BY TypesHold, HolderHolds, AgesHold, DebtsHold DEF Inv

\* At most one caller is fetching, whatever the others do.
THEOREM FetchesAreExclusive == Spec => []OneFetchAtATime
<1>1. Inv => OneFetchAtATime
  BY DEF Inv, HolderIsLocked, Locked, OneFetchAtATime
<1> QED
  BY <1>1, InitHolds, InvHolds, PTL DEF Spec

\* The cache moves only forward through the issuer's rotations.
THEOREM RotationsStick == Spec => CacheNeverRegresses
<1>1. Inv /\ [Next]_vars => [keys' >= keys]_vars
  BY AgesHold
<1> QED
  BY <1>1, InitHolds, InvHolds, PTL DEF Spec, CacheNeverRegresses

\* A caller gets keys that had expired only after a failure of its own fetch.
THEOREM FailuresAreBridged == Spec => []StaleOnlyAfterFailure
<1>1. Inv => StaleOnlyAfterFailure
  BY DEF Inv
<1> QED
  BY <1>1, InitHolds, InvHolds, PTL DEF Spec

\* And an error only if there never were any keys (keysCached's fallback).
THEOREM KeysStayAvailable == Spec => []AvailableOnceCached
<1>1. Inv => AvailableOnceCached
  BY DEF Inv
<1> QED
  BY <1>1, InitHolds, InvHolds, PTL DEF Spec

\* The type invariant of the cache and its callers.
THEOREM CacheIsTyped == Spec => []TypeOK
<1>1. Inv => TypeOK
  BY DEF Inv
<1> QED
  BY <1>1, InitHolds, InvHolds, PTL DEF Spec

=============================================================================
