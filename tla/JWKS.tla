-------------------------------- MODULE JWKS --------------------------------
(***************************************************************************)
(* jwt.JWKS: the cache of an issuer's keys, shared by every request that   *)
(* carries a token.  mu is held only for single reads and writes, each a   *)
(* step here; refreshMu is held across the HTTP exchange.  Meanwhile the   *)
(* issuer rotates its keys, the cache grows old, and fetches fail.         *)
(*                                                                         *)
(* A set of keys is the number of the rotation that published it.          *)
(***************************************************************************)
EXTENDS Naturals, FiniteSets

CONSTANTS
  Caller,
  MaxRotations,   \* bound on the rotations
  Nobody          \* the holder of a free mutex

NoKeys == 0

VARIABLES
  keys, fresh,     \* JWKS.keys; whether fetchedAt is within RefreshInterval
  refreshMu,       \* its holder
  pc,              \* where each caller stands in keysCached
  got,             \* the keys in its hands; NoKeys stands for an error
  published,       \* the issuer's current keys
  owed,            \* history: no refresh since the caller found the cache old
  failed,          \* history: the fetch of the caller itself failed
  had              \* history: there were keys when the caller came

callerVars == <<pc, got>>
history == <<owed, failed, had>>
vars == <<keys, fresh, refreshMu, callerVars, published, history>>

ASSUME JWKSAssumption == MaxRotations \in Nat /\ Nobody \notin Caller

Locked == {"recheck", "fetch", "fetched", "fallback", "return"}

-----------------------------------------------------------------------------

Init ==
  /\ keys = NoKeys /\ fresh = FALSE /\ refreshMu = Nobody
  /\ pc = [c \in Caller |-> "idle"] /\ got = [c \in Caller |-> NoKeys]
  /\ published = 1
  /\ owed = [c \in Caller |-> FALSE] /\ failed = owed /\ had = owed

Step(c, to) == pc' = [pc EXCEPT ![c] = to]

\* A token has arrived whose key is asked for.
KeyFunc(c) ==
  /\ pc[c] = "idle"
  /\ Step(c, "check")
  /\ got' = [got EXCEPT ![c] = NoKeys]
  /\ owed' = [owed EXCEPT ![c] = ~fresh]
  /\ failed' = [failed EXCEPT ![c] = FALSE]
  /\ had' = [had EXCEPT ![c] = keys # NoKeys]
  /\ UNCHANGED <<keys, fresh, refreshMu, published>>

\* freshKeys, before and after taking refreshMu.
Check(c) ==
  /\ pc[c] = "check"
  /\ \/ fresh /\ Step(c, "idle") /\ got' = [got EXCEPT ![c] = keys]
     \/ ~fresh /\ Step(c, "wait") /\ UNCHANGED got
  /\ UNCHANGED <<keys, fresh, refreshMu, published, history>>

\* A slip: refreshMu is forgotten.
LockForgotten(c) ==
  /\ pc[c] = "wait"
  /\ refreshMu' = c
  /\ Step(c, "recheck")
  /\ UNCHANGED <<keys, fresh, got, published, history>>

Lock(c) ==
  /\ pc[c] = "wait" /\ refreshMu = Nobody
  /\ refreshMu' = c
  /\ Step(c, "recheck")
  /\ UNCHANGED <<keys, fresh, got, published, history>>

\* A slip: any cached keys satisfy the second check.
RecheckAnyAge(c) ==
  /\ pc[c] = "recheck"
  /\ \/ keys # NoKeys /\ Step(c, "return") /\ got' = [got EXCEPT ![c] = keys]
     \/ keys = NoKeys /\ Step(c, "fetch") /\ UNCHANGED got
  /\ UNCHANGED <<keys, fresh, refreshMu, published, history>>

Recheck(c) ==
  /\ pc[c] = "recheck"
  /\ \/ fresh /\ Step(c, "return") /\ got' = [got EXCEPT ![c] = keys]
     \/ ~fresh /\ Step(c, "fetch") /\ UNCHANGED got
  /\ UNCHANGED <<keys, fresh, refreshMu, published, history>>

\* A slip: refreshMu covers the exchange but not the write of its result.
FetchedUnlocked(c) ==
  /\ pc[c] = "fetch"
  /\ Step(c, "fetched")
  /\ got' = [got EXCEPT ![c] = published]
  /\ refreshMu' = Nobody
  /\ UNCHANGED <<keys, fresh, published, history>>

\* The issuer answers with the keys it has at that moment, or the request
\* fails, which it does in the end (fetch's timeout).
Fetched(c) ==
  /\ pc[c] = "fetch"
  /\ Step(c, "fetched")
  /\ got' = [got EXCEPT ![c] = published]
  /\ UNCHANGED <<keys, fresh, refreshMu, published, history>>

\* A slip: a failed attempt counts as a refresh.
FetchFailsFresh(c) ==
  /\ pc[c] = "fetch"
  /\ Step(c, "fallback")
  /\ fresh' = TRUE
  /\ failed' = [failed EXCEPT ![c] = TRUE]
  /\ UNCHANGED <<keys, refreshMu, got, published, owed, had>>

FetchFails(c) ==
  /\ pc[c] = "fetch"
  /\ Step(c, "fallback")
  /\ failed' = [failed EXCEPT ![c] = TRUE]
  /\ UNCHANGED <<keys, fresh, refreshMu, got, published, owed, had>>

Store(c) ==
  /\ pc[c] = "fetched"
  /\ keys' = got[c] /\ fresh' = TRUE
  /\ Step(c, "return")
  /\ owed' = [d \in Caller |-> FALSE]
  /\ UNCHANGED <<refreshMu, got, published, failed, had>>

\* Slips: the error is returned though there are keys; the fetch is repeated
\* until it succeeds.
FallbackNone(c) ==
  /\ pc[c] = "fallback"
  /\ Step(c, "return")
  /\ UNCHANGED <<keys, fresh, refreshMu, got, published, history>>

FallbackRetries(c) ==
  /\ pc[c] = "fallback"
  /\ Step(c, "fetch")
  /\ UNCHANGED <<keys, fresh, refreshMu, got, published, history>>

\* cachedKeys: the old keys, whatever their age, or the error of the fetch.
Fallback(c) ==
  /\ pc[c] = "fallback"
  /\ got' = [got EXCEPT ![c] = keys]
  /\ Step(c, "return")
  /\ UNCHANGED <<keys, fresh, refreshMu, published, history>>

Return(c) ==
  /\ pc[c] = "return"
  /\ refreshMu' = Nobody
  /\ Step(c, "idle")
  /\ UNCHANGED <<keys, fresh, got, published, history>>

-----------------------------------------------------------------------------

Rotate ==
  /\ published < MaxRotations + 1
  /\ published' = published + 1
  /\ UNCHANGED <<keys, fresh, refreshMu, callerVars, history>>

\* RefreshInterval has passed since the cache was written: a refresh is due.
Expire ==
  /\ fresh
  /\ fresh' = FALSE
  /\ UNCHANGED <<keys, refreshMu, callerVars, published, history>>

Serve(c) ==
  Check(c) \/ Recheck(c) \/ Fetched(c) \/ FetchFails(c) \/ Store(c) \/ Fallback(c) \/ Return(c)

Next ==
  \/ \E c \in Caller : KeyFunc(c) \/ Lock(c) \/ Serve(c)
  \/ Rotate \/ Expire

Spec == Init /\ [][Next]_vars

\* Goroutines are scheduled, every fetch ends, and a mutex does not pass over a
\* waiter for ever (sync.Mutex turns to its starvation mode).
FairSpec == Spec /\ \A c \in Caller : WF_vars(Serve(c)) /\ SF_vars(Lock(c))

-----------------------------------------------------------------------------

TypeOK ==
  /\ keys \in Nat /\ published \in Nat \ {NoKeys} /\ fresh \in BOOLEAN
  /\ fresh => keys # NoKeys
  /\ refreshMu \in Caller \cup {Nobody}
  /\ pc \in [Caller -> {"idle", "check", "wait"} \cup Locked]
  /\ got \in [Caller -> Nat]
  /\ owed \in [Caller -> BOOLEAN] /\ failed \in [Caller -> BOOLEAN]
  /\ had \in [Caller -> BOOLEAN]

\* The issuer sees one request of this server at a time.
OneFetchAtATime ==
  \A c, d \in Caller : pc[c] \in {"fetch", "fetched"} /\ pc[d] \in {"fetch", "fetched"} => c = d

\* A slow fetch never puts keys back that a rotation had already replaced in
\* the cache.
CacheNeverRegresses == [][keys' >= keys]_vars

\* Keys that had expired when the caller came are served only to a caller whose
\* own attempt to renew them failed.
StaleOnlyAfterFailure ==
  \A c \in Caller : pc[c] = "return" /\ owed[c] => failed[c]

\* Once there are keys, no failure of the issuer turns a caller away.
AvailableOnceCached ==
  \A c \in Caller : pc[c] = "return" /\ had[c] => got[c] # NoKeys

\* Every token gets its answer, however many callers queue behind failing
\* fetches.
EveryCallerIsServed == \A c \in Caller : pc[c] = "check" ~> pc[c] = "idle"

=============================================================================
