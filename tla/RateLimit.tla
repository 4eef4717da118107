----------------------------- MODULE RateLimit ------------------------------
(***************************************************************************)
(* ratelimit.Limiter: fixed windows counted in memory.  A caller reads the *)
(* clock before it takes the mutex, so callers may enter the critical      *)
(* section in another order than that of the times they read; under the    *)
(* mutex the whole of Allow is one step.                                   *)
(***************************************************************************)
EXTENDS Integers, Sequences, FiniteSets

CONSTANTS
  Caller, Key,
  KeyOf,        \* the key of each caller's requests
  Limit, Window,
  MinRetry,     \* no caller is told to come back sooner (a second)
  MaxDelay,     \* bound on the time between reading the clock and the lock
  MaxTime,      \* bound on the clock
  NoRefusal

VARIABLES
  clock,
  pc, now,             \* of each caller's request
  windows, lastSweep,  \* Limiter.windows (of the keys that have one), Limiter.lastSweep
  grants,              \* history: the grants of each key
  refusal              \* history: the last refusal of each caller

callerVars == <<pc, now>>
vars == <<clock, callerVars, windows, lastSweep, grants, refusal>>

Refusals == [until : Nat, after : Nat]

ASSUME RateLimitAssumption ==
  /\ Limit \in Nat \ {0} /\ Window \in Nat \ {0}
  /\ MinRetry \in Nat /\ MaxDelay \in Nat /\ MaxTime \in Nat
  /\ KeyOf \in [Caller -> Key] /\ NoRefusal \notin Refusals

Counted(ws, k) == IF k \in DOMAIN ws THEN ws[k].count ELSE 0

\* Every budget is the count of the key's window, if it has one.
budgets == [k \in Key |-> Counted(windows, k)]

turnedAway == {t \in Caller : refusal[t] # NoRefusal}

Budget == INSTANCE Limiter WITH keyOf <- KeyOf, granted <- budgets, refused <- turnedAway

\* A slip: a window outlives its last instant.
ExpiredLate(w, time) == time - w.start > Window

Expired(w, time) == time - w.start >= Window

-----------------------------------------------------------------------------

Init ==
  /\ clock = 0 /\ lastSweep = 0 /\ windows = <<>>
  /\ pc = [t \in Caller |-> "idle"] /\ now = [t \in Caller |-> 0]
  /\ grants = [k \in Key |-> <<>>]
  /\ refusal = [t \in Caller |-> NoRefusal]

Tick ==
  /\ clock < MaxTime
  /\ \A t \in Caller : pc[t] = "lock" => clock - now[t] < MaxDelay
  /\ clock' = clock + 1
  /\ UNCHANGED <<callerVars, windows, lastSweep, grants, refusal>>

ReadClock(t) ==
  /\ pc[t] = "idle"
  /\ pc' = [pc EXCEPT ![t] = "lock"]
  /\ now' = [now EXCEPT ![t] = clock]
  /\ UNCHANGED <<clock, windows, lastSweep, grants, refusal>>

SweepDue(time) == time - lastSweep >= Window

\* A slip: windows are only ever renewed.
sweepLockedNever(time) == windows

\* What sweepLocked leaves of the windows.
sweepLocked(time) ==
  [k \in {k \in DOMAIN windows : SweepDue(time) => ~Expired(windows[k], time)} |-> windows[k]]

\* A slip: one request more than the limit.
HasRoomForOneMore(w) == w.count <= Limit

HasRoom(w) == w.count < Limit

With(ws, k, w) == [j \in DOMAIN ws \cup {k} |-> IF j = k THEN w ELSE ws[j]]

\* The promise of an earlier refusal is kept.
Grant(t, ws) ==
  /\ windows' = ws
  /\ grants' = [grants EXCEPT ![KeyOf[t]] = Append(@, [read |-> now[t], decided |-> clock])]
  /\ refusal' = [refusal EXCEPT ![t] = NoRefusal]

\* A slip: everybody is told to come back at once.
RefuseBriefly(t, ws, retryAfter) ==
  /\ windows' = ws
  /\ refusal' = [refusal EXCEPT ![t] = [until |-> now[t] + MinRetry, after |-> Len(grants[KeyOf[t]])]]
  /\ UNCHANGED grants

\* check tells the caller when to come back.
Refuse(t, ws, retryAfter) ==
  /\ windows' = ws
  /\ refusal' = [refusal EXCEPT ![t] =
                   [until |-> now[t] + (IF retryAfter < MinRetry THEN MinRetry ELSE retryAfter),
                    after |-> Len(grants[KeyOf[t]])]]
  /\ UNCHANGED grants

Allow(t) ==
  LET k  == KeyOf[t]
      ws == sweepLocked(now[t])
  IN  /\ pc[t] = "lock"
      /\ pc' = [pc EXCEPT ![t] = "idle"] /\ now' = [now EXCEPT ![t] = 0]
      /\ lastSweep' = IF SweepDue(now[t]) THEN now[t] ELSE lastSweep
      /\ \/ /\ k \in DOMAIN ws => Expired(ws[k], now[t])
            /\ Grant(t, With(ws, k, [start |-> now[t], count |-> 1]))
         \/ /\ k \in DOMAIN ws /\ ~Expired(ws[k], now[t])
            /\ ~HasRoom(ws[k])
            /\ Refuse(t, ws, Window - (now[t] - ws[k].start))
         \/ /\ k \in DOMAIN ws /\ ~Expired(ws[k], now[t])
            /\ HasRoom(ws[k])
            /\ Grant(t, With(ws, k, [ws[k] EXCEPT !.count = @ + 1]))
      /\ UNCHANGED clock

Next ==
  \/ Tick
  \/ \E t \in Caller : ReadClock(t) \/ Allow(t)

Spec == Init /\ [][Next]_vars

-----------------------------------------------------------------------------

TypeOK ==
  /\ clock \in Nat /\ lastSweep \in Nat
  /\ pc \in [Caller -> {"idle", "lock"}]
  /\ now \in [Caller -> Nat]
  /\ DOMAIN windows \subseteq Key
  /\ windows \in [DOMAIN windows -> [start : Nat, count : 1 .. Limit]]
  /\ grants \in [Key -> Seq([read : Nat, decided : Nat])]
  /\ refusal \in [Caller -> Refusals \cup {NoRefusal}]

\* What the limiter promises the pipeline (module Limiter), whatever the order
\* in which the callers take the mutex.
ImplementsBudget == Budget!LimiterSpec

Refused(t) == pc[t] = "lock" /\ pc'[t] = "idle" /\ grants' = grants

\* A caller is refused only because Limit grants to its key were decided within
\* a Window before the time it read: neither an old window nor another key's
\* grants count against it.
RefusalIsEarned ==
  [][\A t \in Caller : Refused(t) =>
       LET gs == grants[KeyOf[t]]
       IN  Cardinality({i \in DOMAIN gs : gs[i].decided > now[t] - Window}) >= Limit]_vars

\* A caller that comes back when it was told to is refused again only if the
\* whole budget of its key has been granted anew since it was refused.
RetryAfterSuffices ==
  [][\A t \in Caller :
       Refused(t) /\ refusal[t] # NoRefusal /\ now[t] >= refusal[t].until
       => Len(grants[KeyOf[t]]) - refusal[t].after >= Limit]_vars

\* The keys do not pile up: every window that is kept began less than a Window
\* before the last sweep, or since.  It takes MaxDelay < Window.
SweptWindowsAreGone ==
  \A k \in DOMAIN windows :
    /\ windows[k].start > lastSweep - Window
    /\ windows[k].start < lastSweep + Window

=============================================================================
