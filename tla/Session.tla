------------------------------ MODULE Session ------------------------------
(***************************************************************************)
(* authn/session/session.go: sessions kept in a store, found by a signed   *)
(* cookie.  A request that presents the cookie reads the session, checks   *)
(* its end against the clock and touches it, three calls between which     *)
(* other requests, a logout and the clock go on.  The store is external;   *)
(* its contract is what session.go relies on: it keeps expired rows, and   *)
(* Touch neither creates a row nor shortens one.                           *)
(***************************************************************************)
EXTENDS Integers, FiniteSets

CONSTANTS
  Request,       \* the callers of Authenticate
  Sid,           \* the session ids newID may return
  TTL,           \* how long a session lasts
  MaxTime        \* bound on the clock

ASSUME SessionAssumption == TTL \in Nat \ {0} /\ MaxTime \in Nat

Absent == -1           \* a row the store does not have
NoCookie == "none"
Forged == "forged"     \* a cookie whose signature does not verify
Pending == {"get", "check", "touch"}
Verdict == {"granted", "refused", "unavailable", "anonymous"}

VARIABLES
  now,           \* the clock
  store,         \* store[s]: the ExpiresAt of session s, or Absent
  issued,        \* the ids handed out in a cookie
  apc,           \* where each caller stands in Authenticate, or its verdict
  cookie,        \* the cookie it presented
  copy,          \* the ExpiresAt it read
  witnessed      \* its session was live at some moment of the call

sessionVars == <<now, store, issued, apc, cookie, copy, witnessed>>

-----------------------------------------------------------------------------

SessionInit ==
  /\ now = 0
  /\ store = [s \in Sid |-> Absent]
  /\ issued = {}
  /\ apc = [r \in Request |-> "idle"]
  /\ cookie = [r \in Request |-> NoCookie]
  /\ copy = [r \in Request |-> Absent]
  /\ witnessed = [r \in Request |-> FALSE]

Live(c) == c \in Sid /\ store[c] > now

\* History: what each call under way may claim after a step.
Witness == witnessed' = [r \in Request |-> witnessed[r] \/ (apc[r] \in Pending /\ Live(cookie[r])')]

Clock ==
  /\ now < MaxTime /\ now' = now + 1
  /\ UNCHANGED <<store, issued, apc, cookie, copy>> /\ Witness

\* Issue: a fresh id, Create and the cookie; no cookie when Create fails.
Issue(s) ==
  /\ store[s] = Absent /\ s \notin issued
  /\ issued' = issued \cup {s}
  /\ store' = [store EXCEPT ![s] = now + TTL]
  /\ UNCHANGED <<now, apc, cookie, copy>> /\ Witness

\* Authenticate is called: no cookie is no verdict, and one that does not
\* verify is refused without the store.
Present(r, c) ==
  /\ apc[r] \in {"idle"} \cup Verdict
  /\ apc' = [apc EXCEPT ![r] = CASE c = NoCookie -> "anonymous"
                                 [] c = Forged   -> "refused"
                                 [] OTHER        -> "get"]
  /\ cookie' = [cookie EXCEPT ![r] = c]
  /\ copy' = [copy EXCEPT ![r] = Absent]
  /\ witnessed' = [witnessed EXCEPT ![r] = Live(c)]
  /\ UNCHANGED <<now, store, issued>>

\* Store.Get, which may fail.
Get(r) ==
  /\ apc[r] = "get"
  /\ \/ /\ copy' = [copy EXCEPT ![r] = store[cookie[r]]]
        /\ apc' = [apc EXCEPT ![r] = IF copy'[r] = Absent THEN "refused" ELSE "check"]
     \/ apc' = [apc EXCEPT ![r] = "unavailable"] /\ UNCHANGED copy
  /\ UNCHANGED <<now, store, issued, cookie>> /\ Witness

\* A slip: the end of the session is left to the store.
CheckNot(r) ==
  /\ apc[r] = "check"
  /\ apc' = [apc EXCEPT ![r] = "touch"]
  /\ UNCHANGED <<now, store, issued, cookie, copy>> /\ Witness

\* Now is read after the row.
Check(r) ==
  /\ apc[r] = "check"
  /\ apc' = [apc EXCEPT ![r] = IF now < copy[r] THEN "touch" ELSE "refused"]
  /\ UNCHANGED <<now, store, issued, cookie, copy>> /\ Witness

\* A slip: the end of the session is moved on, wherever it was.
TouchAccumulates(r) ==
  /\ apc[r] = "touch"
  /\ apc' = [apc EXCEPT ![r] = "granted"]
  /\ \/ UNCHANGED store
     \/ store[cookie[r]] # Absent /\ store' = [store EXCEPT ![cookie[r]] = @ + TTL]
  /\ UNCHANGED <<now, issued, cookie, copy>> /\ Witness

\* Store.Touch: its error is dropped, and a row that has gone stays gone.
Touch(r) ==
  /\ apc[r] = "touch"
  /\ apc' = [apc EXCEPT ![r] = "granted"]
  /\ \/ UNCHANGED store
     \/ store[cookie[r]] # Absent /\ store' = [store EXCEPT ![cookie[r]] = now + TTL]
  /\ UNCHANGED <<now, issued, cookie, copy>> /\ Witness

\* Destroy: the cookie is cleared whatever Delete returns.
Destroy(s) ==
  /\ s \in issued /\ store[s] # Absent
  /\ store' = [store EXCEPT ![s] = Absent]
  /\ UNCHANGED <<now, issued, apc, cookie, copy>> /\ Witness

Authenticate(r) == Get(r) \/ Check(r) \/ Touch(r)

\* What happens around the callers.
SessionAround ==
  \/ Clock
  \/ \E s \in Sid : Issue(s) \/ Destroy(s)

-----------------------------------------------------------------------------

SessionTypeOK ==
  /\ now \in 0..MaxTime
  /\ store \in [Sid -> {Absent} \cup 0..(MaxTime + TTL)]
  /\ issued \subseteq Sid
  /\ apc \in [Request -> {"idle"} \cup Pending \cup Verdict]
  /\ cookie \in [Request -> Sid \cup {NoCookie, Forged}]
  /\ copy \in [Request -> {Absent} \cup 0..(MaxTime + TTL)]
  /\ witnessed \in [Request -> BOOLEAN]

=============================================================================
