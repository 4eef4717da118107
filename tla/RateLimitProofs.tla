-------------------------- MODULE RateLimitProofs ---------------------------
(***************************************************************************)
(* The rate limiter, for any number of callers and keys, any limit and     *)
(* window, and callers that reach the mutex late.                          *)
(***************************************************************************)
EXTENDS RateLimit, FiniteSetTheorems, TLAPS

Since(gs, time) == {i \in DOMAIN gs : gs[i].decided >= time}

\* The times that are on record have passed.
Clocks ==
  /\ lastSweep <= clock
  /\ \A t \in Caller : now[t] <= clock /\ (pc[t] = "lock" => clock - now[t] <= MaxDelay)
  /\ \A k \in DOMAIN windows : windows[k].start <= clock

\* Every count stands for grants decided since its window began.
Backed ==
  \A k \in DOMAIN windows : Cardinality(Since(grants[k], windows[k].start)) >= windows[k].count

\* A window that outlives the time a refused caller was told to wait for was
\* filled after that caller was refused.
Renewing ==
  \A t \in Caller : refusal[t] # NoRefusal =>
    LET k == KeyOf[t]
    IN  /\ refusal[t].after <= Len(grants[k])
        /\ k \in DOMAIN windows /\ windows[k].start > refusal[t].until - Window =>
             Len(grants[k]) - refusal[t].after >= windows[k].count

Inv == TypeOK /\ Clocks /\ Backed /\ Renewing

(***************************************************************************)
(* Adding a grant                                                          *)
(***************************************************************************)

LEMMA SinceIsFinite ==
  ASSUME NEW gs \in Seq([read : Nat, decided : Nat]), NEW time \in Nat
  PROVE  IsFiniteSet(Since(gs, time)) /\ Cardinality(Since(gs, time)) \in Nat
<1>1. Since(gs, time) \subseteq 1 .. Len(gs) /\ Len(gs) \in Nat
  BY DEF Since
<1>2. IsFiniteSet(1 .. Len(gs))
  BY <1>1, FS_Interval
<1> QED
  BY <1>1, <1>2, FS_Subset, FS_CardinalityType

LEMMA GrantTimes ==
  ASSUME NEW gs \in Seq([read : Nat, decided : Nat])
  PROVE  /\ Len(gs) \in Nat /\ DOMAIN gs = 1 .. Len(gs)
         /\ \A i \in DOMAIN gs : gs[i].decided \in Nat
<1> DEFINE S == [read : Nat, decided : Nat]
<1>1. gs \in Seq(S) /\ \A g \in S : g.decided \in Nat
  OBVIOUS
<1> HIDE DEF S
<1> QED
  BY <1>1

LEMMA GrantCounts ==
  ASSUME NEW gs \in Seq([read : Nat, decided : Nat]), NEW time \in Nat,
         NEW g \in [read : Nat, decided : Nat], g.decided >= time
  PROVE  Cardinality(Since(Append(gs, g), time)) = Cardinality(Since(gs, time)) + 1
<1>1. Since(Append(gs, g), time) = Since(gs, time) \cup {Len(gs) + 1}
  BY DEF Since
<1>2. Len(gs) + 1 \notin Since(gs, time)
  BY DEF Since
<1> QED
  BY <1>1, <1>2, SinceIsFinite, FS_AddElement

(***************************************************************************)
(* What one call of Allow does to the windows                              *)
(***************************************************************************)

Appended(t) ==
  grants' = [grants EXCEPT ![KeyOf[t]] = Append(@, [read |-> now[t], decided |-> clock])]

Opens(t) ==
  /\ windows'[KeyOf[t]] = [start |-> now[t], count |-> 1]
  /\ Appended(t) /\ refusal' = [refusal EXCEPT ![t] = NoRefusal]

Fills(t) ==
  LET w == windows[KeyOf[t]]
  IN  /\ KeyOf[t] \in DOMAIN windows
      /\ w.count < Limit /\ ~Expired(w, now[t])
      /\ windows'[KeyOf[t]] = [w EXCEPT !.count = @ + 1]
      /\ Appended(t) /\ refusal' = [refusal EXCEPT ![t] = NoRefusal]

Refuses(t) ==
  LET w == windows[KeyOf[t]]
  IN  /\ KeyOf[t] \in DOMAIN windows
      /\ w.count >= Limit /\ ~Expired(w, now[t]) /\ windows'[KeyOf[t]] = w
      /\ grants' = grants
      /\ \E until \in Nat : /\ until >= w.start + Window
                            /\ refusal' = [refusal EXCEPT ![t] =
                                 [until |-> until, after |-> Len(grants[KeyOf[t]])]]

LEMMA AllowCases ==
  ASSUME TypeOK, NEW t \in Caller, Allow(t)
  PROVE  /\ KeyOf[t] \in DOMAIN windows' /\ DOMAIN windows' \subseteq DOMAIN windows \cup {KeyOf[t]}
         /\ \A j \in DOMAIN windows' \ {KeyOf[t]} :
              windows'[j] = windows[j] /\ (SweepDue(now[t]) => ~Expired(windows[j], now[t]))
         /\ Opens(t) \/ Fills(t) \/ Refuses(t)
         /\ windows' = [j \in DOMAIN windows' |-> windows'[j]]
<1> DEFINE k == KeyOf[t]
           ws == sweepLocked(now[t])
<1>1. /\ DOMAIN ws \subseteq DOMAIN windows
      /\ \A j \in DOMAIN ws : ws[j] = windows[j] /\ (SweepDue(now[t]) => ~Expired(windows[j], now[t]))
      /\ ws = [j \in DOMAIN ws |-> ws[j]]
  BY DEF sweepLocked
<1> HIDE DEF ws
<1>2. CASE /\ Grant(t, With(ws, k, [start |-> now[t], count |-> 1]))
  BY <1>1, <1>2 DEF Grant, With, Opens, Appended
<1>3. CASE /\ k \in DOMAIN ws /\ ~Expired(ws[k], now[t]) /\ HasRoom(ws[k])
           /\ Grant(t, With(ws, k, [ws[k] EXCEPT !.count = @ + 1]))
  BY <1>1, <1>3 DEF HasRoom, Grant, With, Fills, Appended
<1>4. CASE /\ k \in DOMAIN ws /\ ~Expired(ws[k], now[t]) /\ ~HasRoom(ws[k])
           /\ Refuse(t, ws, Window - (now[t] - ws[k].start))
  <2>1. windows[k].start \in Nat /\ now[t] \in Nat /\ Window \in Nat /\ MinRetry \in Nat
    BY <1>1, <1>4, RateLimitAssumption DEF TypeOK
  <2>2. PICK until : /\ until = now[t] + (IF Window - (now[t] - ws[k].start) < MinRetry THEN MinRetry
                                          ELSE Window - (now[t] - ws[k].start))
                     /\ refusal' = [refusal EXCEPT ![t] =
                           [until |-> until, after |-> Len(grants[k])]]
    BY <1>4 DEF Refuse
  <2>3. until \in Nat /\ until >= windows[k].start + Window
    BY <1>1, <1>4, <2>1, <2>2
  <2>4. windows[k].count >= Limit
    BY <1>1, <1>4, RateLimitAssumption DEF HasRoom, TypeOK
  <2>5. Refuses(t)
    BY <1>1, <1>4, <2>2, <2>3, <2>4 DEF Refuse, Refuses
  <2> QED
    BY <1>1, <1>4, <2>5 DEF Refuse
<1> QED
  BY <1>2, <1>3, <1>4 DEF Allow, ws

(***************************************************************************)
(* The inductive invariant                                                 *)
(***************************************************************************)

LEMMA AllowTypes ==
  ASSUME Inv, NEW t \in Caller, Allow(t)
  PROVE  TypeOK'
<1> USE DEF Inv
<1>1. /\ TypeOK /\ KeyOf[t] \in Key /\ now[t] \in Nat /\ clock \in Nat
      /\ Limit \in Nat \ {0}
  BY RateLimitAssumption DEF TypeOK
<1>2. clock' \in Nat /\ lastSweep' \in Nat /\ pc' \in [Caller -> {"idle", "lock"}]
      /\ now' \in [Caller -> Nat]
  BY <1>1 DEF Allow, TypeOK
<1>3. DOMAIN windows' \subseteq Key /\ windows' \in [DOMAIN windows' -> [start : Nat, count : 1 .. Limit]]
  <2>1. \A j \in DOMAIN windows' \ {KeyOf[t]} : windows'[j] \in [start : Nat, count : 1 .. Limit]
    BY <1>1, AllowCases DEF TypeOK
  <2>2. windows'[KeyOf[t]] \in [start : Nat, count : 1 .. Limit]
    <3>1. CASE Opens(t)
      BY <1>1, <3>1 DEF Opens
    <3>2. CASE Fills(t)
      <4>1. windows[KeyOf[t]] \in [start : Nat, count : 1 .. Limit]
        BY <3>2 DEF Fills, TypeOK
      <4>2. windows[KeyOf[t]].count + 1 \in 1 .. Limit
        BY <1>1, <3>2, <4>1 DEF Fills
      <4> QED
        BY <3>2, <4>1, <4>2 DEF Fills
    <3>3. CASE Refuses(t)
      BY <1>1, <3>3 DEF Refuses, TypeOK
    <3> QED
      BY <3>1, <3>2, <3>3, AllowCases
  <2> QED
    BY <1>1, <2>1, <2>2, AllowCases DEF TypeOK
<1>4. grants' \in [Key -> Seq([read : Nat, decided : Nat])]
  <2>1. CASE grants' = grants
    BY <2>1 DEF TypeOK
  <2>2. CASE Appended(t)
    BY <1>1, <2>2 DEF Appended, TypeOK
  <2> QED
    BY <2>1, <2>2, AllowCases DEF Opens, Fills, Refuses
<1>5. refusal' \in [Caller -> Refusals \cup {NoRefusal}]
  <2>1. CASE refusal' = [refusal EXCEPT ![t] = NoRefusal]
    BY <2>1 DEF TypeOK
  <2>2. CASE Refuses(t)
    <3>1. Len(grants[KeyOf[t]]) \in Nat
      BY <1>1 DEF TypeOK
    <3> QED
      BY <2>2, <3>1 DEF Refuses, TypeOK, Refusals
  <2> QED
    BY <2>1, <2>2, AllowCases DEF Opens, Fills
<1> QED
  BY <1>2, <1>3, <1>4, <1>5 DEF TypeOK

LEMMA AllowKeepsClocks ==
  ASSUME Inv, NEW t \in Caller, Allow(t)
  PROVE  Clocks'
<1>1. TypeOK /\ clock' = clock /\ now[t] <= clock /\ clock \in Nat /\ now[t] \in Nat
  BY DEF Inv, TypeOK, Clocks, Allow
<1>2. lastSweep' <= clock'
  BY <1>1 DEF Inv, Clocks, Allow
<1>3. \A d \in Caller : now'[d] <= clock' /\ (pc'[d] = "lock" => clock' - now'[d] <= MaxDelay)
  BY <1>1 DEF Inv, Clocks, Allow, TypeOK
<1>4. \A k \in DOMAIN windows' : windows'[k].start <= clock'
  <2>1. windows'[KeyOf[t]].start <= clock
    <3>1. CASE Opens(t)
      BY <1>1, <3>1 DEF Opens
    <3>2. CASE Fills(t) \/ Refuses(t)
      BY <1>1, <3>2 DEF Inv, Clocks, Fills, Refuses, TypeOK
    <3> QED
      BY <1>1, <3>1, <3>2, AllowCases
  <2> QED
    BY <1>1, <2>1, AllowCases DEF Inv, Clocks
<1> QED
  BY <1>2, <1>3, <1>4 DEF Clocks

LEMMA AllowKeepsBacked ==
  ASSUME Inv, NEW t \in Caller, Allow(t)
  PROVE  Backed'
<1> DEFINE k == KeyOf[t]
           g == [read |-> now[t], decided |-> clock]
<1>1. /\ TypeOK /\ k \in Key /\ now[t] \in Nat /\ clock \in Nat /\ now[t] <= clock
      /\ g \in [read : Nat, decided : Nat] /\ Limit \in Nat
      /\ grants[k] \in Seq([read : Nat, decided : Nat])
  BY RateLimitAssumption DEF Inv, TypeOK, Clocks
<1>2. ASSUME NEW j \in DOMAIN windows' \ {k}
      PROVE  Cardinality(Since(grants'[j], windows'[j].start)) >= windows'[j].count
  <2>1. windows'[j] = windows[j] /\ j \in DOMAIN windows
    BY <1>1, <1>2, AllowCases
  <2>2. grants'[j] = grants[j]
    <3>1. Appended(t) \/ grants' = grants
      BY AllowCases DEF Inv, Opens, Fills, Refuses
    <3> QED
      BY <1>1, <1>2, <2>1, <3>1 DEF Appended, TypeOK
  <2> QED
    BY <2>1, <2>2 DEF Inv, Backed
<1>3. CASE Opens(t)
  <2>1. grants'[k] = Append(grants[k], g) /\ windows'[k] = [start |-> now[t], count |-> 1]
    BY <1>1, <1>3 DEF Opens, Appended, TypeOK
  <2>2. Cardinality(Since(grants'[k], now[t])) = Cardinality(Since(grants[k], now[t])) + 1
    BY <1>1, <2>1, GrantCounts
  <2>3. Cardinality(Since(grants[k], now[t])) \in Nat
    BY <1>1, SinceIsFinite
  <2>4. Cardinality(Since(grants'[k], windows'[k].start)) >= windows'[k].count
    BY <2>1, <2>2, <2>3
  <2> QED
    BY <1>2, <2>4 DEF Backed
<1>4. CASE Fills(t)
  <2> DEFINE s == windows[k].start
  <2>1. grants'[k] = Append(grants[k], g) /\ windows'[k] = [windows[k] EXCEPT !.count = @ + 1]
        /\ k \in DOMAIN windows
    BY <1>1, <1>4 DEF Fills, Appended, TypeOK
  <2>2. /\ s \in Nat /\ s <= clock /\ windows[k].count \in Nat
        /\ windows'[k].start = s /\ windows'[k].count = windows[k].count + 1
    BY <1>1, <2>1 DEF Inv, Clocks, TypeOK
  <2>3. Cardinality(Since(grants[k], s)) >= windows[k].count
    BY <2>1 DEF Inv, Backed
  <2>4. Cardinality(Since(grants'[k], s)) = Cardinality(Since(grants[k], s)) + 1
    BY <1>1, <2>1, <2>2, GrantCounts
  <2>5. Cardinality(Since(grants[k], s)) \in Nat
    BY <1>1, <2>2, SinceIsFinite
  <2>6. Cardinality(Since(grants'[k], windows'[k].start)) >= windows'[k].count
    BY <2>2, <2>3, <2>4, <2>5
  <2> QED
    BY <1>2, <2>6 DEF Backed
<1>5. CASE Refuses(t)
  BY <1>1, <1>2, <1>5, AllowCases DEF Refuses, Inv, Backed
<1> QED
  BY <1>1, <1>3, <1>4, <1>5, AllowCases

LEMMA AllowKeepsRenewing ==
  ASSUME Inv, NEW t \in Caller, Allow(t)
  PROVE  Renewing'
<1> SUFFICES ASSUME NEW c \in Caller, refusal'[c] # NoRefusal
             PROVE  LET k == KeyOf[c]
                    IN  /\ refusal'[c].after <= Len(grants'[k])
                        /\ k \in DOMAIN windows' /\ windows'[k].start > refusal'[c].until - Window =>
                             Len(grants'[k]) - refusal'[c].after >= windows'[k].count
  BY DEF Renewing
<1> DEFINE k == KeyOf[c]
           j == KeyOf[t]
<1>1. /\ TypeOK /\ k \in Key /\ j \in Key /\ Len(grants[k]) \in Nat
      /\ Window \in Nat /\ now[t] \in Nat
  BY RateLimitAssumption DEF Inv, TypeOK
<1>2. CASE refusal' = [refusal EXCEPT ![t] = NoRefusal] /\ Appended(t)
  <2>1. /\ refusal[c].after \in Nat /\ refusal[c].after <= Len(grants[k])
        /\ refusal'[c] = refusal[c]
        /\ k \in DOMAIN windows /\ windows[k].start > refusal[c].until - Window =>
             Len(grants[k]) - refusal[c].after >= windows[k].count
    BY <1>2 DEF Inv, Renewing, TypeOK, Refusals
  <2>2. Len(grants'[k]) = IF k = j THEN Len(grants[k]) + 1 ELSE Len(grants[k])
    BY <1>1, <1>2 DEF Appended, TypeOK
  <2>3. CASE k # j
    BY <1>1, <2>1, <2>2, <2>3, AllowCases
  <2>4. CASE k = j /\ Opens(t)
    BY <1>1, <2>1, <2>2, <2>4 DEF Opens
  <2>5. CASE k = j /\ Fills(t)
    <3>1. windows[k] \in [start : Nat, count : 1 .. Limit] /\ k \in DOMAIN windows
      BY <2>5 DEF Fills, Inv, TypeOK
    <3>2. windows'[k].start = windows[k].start /\ windows'[k].count = windows[k].count + 1
      BY <2>5, <3>1 DEF Fills
    <3>3. windows[k].count \in Nat
      BY <3>1, RateLimitAssumption
    <3>4. Len(grants'[k]) = Len(grants[k]) + 1
      BY <2>2, <2>5
    <3>5. refusal'[c].after \in Nat /\ refusal'[c].after <= Len(grants'[k])
      BY <1>1, <2>1, <3>4
    <3>6. windows'[k].start > refusal'[c].until - Window =>
            Len(grants[k]) - refusal[c].after >= windows[k].count
      BY <2>1, <3>1, <3>2
    <3>7. refusal'[c].after = refusal[c].after
      BY <2>1
    <3> DEFINE length == Len(grants[k])
               after  == refusal[c].after
               count  == windows[k].count
    <3>8. length \in Nat /\ after \in Nat /\ count \in Nat
          /\ Len(grants'[k]) = length + 1 /\ windows'[k].count = count + 1
      BY <1>1, <2>1, <3>2, <3>3, <3>4
    <3>9. windows'[k].start > refusal'[c].until - Window => length - after >= count
      BY <3>6
    <3> HIDE DEF length, after, count
    <3>10. windows'[k].start > refusal'[c].until - Window =>
             Len(grants'[k]) - after >= windows'[k].count
      BY <3>8, <3>9
    <3> QED
      BY <3>5, <3>7, <3>10 DEF after
  <2>6. ~Refuses(t)
    <3>1. Len(grants'[j]) # Len(grants[j])
      BY <1>1, <1>2 DEF Appended, TypeOK
    <3> QED
      BY <3>1 DEF Refuses
  <2> QED
    BY <1>1, <2>3, <2>4, <2>5, <2>6, AllowCases
<1>3. CASE Refuses(t)
  <2>1. CASE c = t
    <3>1. PICK until \in Nat : /\ until >= windows[j].start + Window
                               /\ refusal'[t] = [until |-> until, after |-> Len(grants[j])]
      BY <1>1, <1>3 DEF Refuses, TypeOK
    <3>2. /\ grants' = grants /\ windows'[j] = windows[j] /\ j \in DOMAIN windows
          /\ windows[j].start \in Nat
      BY <1>1, <1>3 DEF Refuses, TypeOK
    <3> QED
      BY <1>1, <2>1, <3>1, <3>2
  <2>2. CASE c # t
    <3>1. refusal'[c] = refusal[c] /\ grants' = grants
      BY <1>3, <2>2 DEF Refuses, Inv, TypeOK
    <3>2. k \in DOMAIN windows' => k \in DOMAIN windows /\ windows'[k] = windows[k]
      BY <1>3, AllowCases DEF Refuses, Inv
    <3> QED
      BY <3>1, <3>2 DEF Inv, Renewing
  <2> QED
    BY <2>1, <2>2
<1> QED
  BY <1>2, <1>3, AllowCases DEF Opens, Fills, Inv

LEMMA InitHolds ==
  ASSUME Init
  PROVE  Inv
<1>1. TypeOK
  BY DEF Init, TypeOK
<1>2. Clocks /\ Backed /\ Renewing
  BY RateLimitAssumption DEF Init, Clocks, Backed, Renewing
<1> QED
  BY <1>1, <1>2 DEF Inv

LEMMA NextKeeps ==
  ASSUME Inv, [Next]_vars
  PROVE  Inv'
<1>1. ASSUME NEW t \in Caller, Allow(t)
      PROVE  Inv'
  BY <1>1, AllowTypes, AllowKeepsClocks, AllowKeepsBacked, AllowKeepsRenewing DEF Inv
<1>2. ASSUME UNCHANGED <<windows, lastSweep, grants, refusal>>, TypeOK', Clocks'
      PROVE  Inv'
  BY <1>2 DEF Inv, Backed, Renewing
<1>3. ASSUME NEW t \in Caller, ReadClock(t)
      PROVE  Inv'
  <2>1. TypeOK'
    BY <1>3 DEF Inv, TypeOK, ReadClock
  <2>2. Clocks'
    BY <1>3, RateLimitAssumption DEF Inv, TypeOK, Clocks, ReadClock
  <2> QED
    BY <1>2, <1>3, <2>1, <2>2 DEF ReadClock
<1>4. CASE Tick
  <2>1. TypeOK'
    BY <1>4 DEF Inv, TypeOK, Tick, callerVars
  <2>2. Clocks'
    BY <1>4, RateLimitAssumption DEF Inv, TypeOK, Clocks, Tick, callerVars
  <2> QED
    BY <1>2, <1>4, <2>1, <2>2 DEF Tick
<1>5. CASE UNCHANGED vars
  BY <1>5 DEF Inv, TypeOK, Clocks, Backed, Renewing, vars, callerVars
<1> QED
  BY <1>1, <1>3, <1>4, <1>5 DEF Next

(***************************************************************************)
(* The properties                                                          *)
(***************************************************************************)

\* Whoever is refused is refused by a full window that has not run out.
LEMMA RefusedMeans ==
  ASSUME Inv, Next, NEW t \in Caller, Refused(t)
  PROVE  LET k == KeyOf[t]
         IN  /\ k \in Key /\ k \in DOMAIN windows
             /\ windows[k].start \in Nat /\ windows[k].start > now[t] - Window
             /\ windows[k].count \in Nat /\ windows[k].count >= Limit
<1> DEFINE k == KeyOf[t]
<1>1. Allow(t)
  BY DEF Next, Tick, ReadClock, Allow, Refused, Inv, TypeOK, callerVars
<1>2. TypeOK /\ k \in Key /\ now[t] \in Nat /\ Limit \in Nat /\ Window \in Nat
  BY RateLimitAssumption DEF Inv, TypeOK
<1>3. ~Appended(t)
  <2>1. Appended(t) => Len(grants'[k]) # Len(grants[k])
    BY <1>2 DEF Appended, TypeOK
  <2> QED
    BY <2>1 DEF Refused
<1>4. Refuses(t)
  BY <1>1, <1>2, <1>3, AllowCases DEF Opens, Fills
<1> QED
  BY <1>2, <1>4 DEF Refuses, Expired, TypeOK

\* No caller is refused but for Limit grants to its own key, decided less than
\* a Window before it read the clock, however late callers take the mutex.
THEOREM RefusalsAreEarned == Spec => RefusalIsEarned
<1>1. ASSUME Inv, Next, NEW t \in Caller, Refused(t)
      PROVE  LET gs == grants[KeyOf[t]]
             IN  Cardinality({i \in DOMAIN gs : gs[i].decided > now[t] - Window}) >= Limit
  <2> DEFINE k == KeyOf[t]
             start == windows[k].start
             recent == {i \in DOMAIN grants[k] : grants[k][i].decided > now[t] - Window}
  <2>1. /\ k \in DOMAIN windows /\ start \in Nat /\ start > now[t] - Window
        /\ windows[k].count \in Nat /\ windows[k].count >= Limit
    BY <1>1, RefusedMeans
  <2>2. /\ Len(grants[k]) \in Nat /\ DOMAIN grants[k] = 1 .. Len(grants[k])
        /\ \A i \in DOMAIN grants[k] : grants[k][i].decided \in Nat
        /\ now[t] \in Nat /\ Limit \in Nat /\ Window \in Nat
    <3>1. grants[k] \in Seq([read : Nat, decided : Nat]) /\ now[t] \in Nat
      BY <1>1, RefusedMeans DEF Inv, TypeOK
    <3> QED
      BY <3>1, GrantTimes, RateLimitAssumption
  <2>3. Cardinality(Since(grants[k], start)) >= windows[k].count
    BY <1>1, <2>1 DEF Inv, Backed
  <2>4. Since(grants[k], start) \subseteq recent
    <3> SUFFICES ASSUME NEW i \in DOMAIN grants[k], grants[k][i].decided >= start
                 PROVE  grants[k][i].decided > now[t] - Window
      BY DEF Since
    <3> HIDE DEF start, k
    <3>1. grants[k][i].decided \in Nat
      BY <2>2
    <3> QED
      BY <2>1, <2>2, <3>1
  <2>5. IsFiniteSet(recent)
    <3>1. recent \subseteq 1 .. Len(grants[k]) /\ Len(grants[k]) \in Nat
      BY <2>2
    <3> QED
      BY <3>1, FS_Interval, FS_Subset
  <2>6. /\ Cardinality(Since(grants[k], start)) <= Cardinality(recent)
        /\ Cardinality(Since(grants[k], start)) \in Nat /\ Cardinality(recent) \in Nat
    BY <2>4, <2>5, FS_Subset, FS_CardinalityType
  <2> QED
    BY <2>1, <2>2, <2>3, <2>6
<1>2. Inv /\ [Next]_vars =>
        [\A t \in Caller : Refused(t) =>
           LET gs == grants[KeyOf[t]]
           IN  Cardinality({i \in DOMAIN gs : gs[i].decided > now[t] - Window}) >= Limit]_vars
  BY <1>1
<1> QED
  BY <1>2, InitHolds, NextKeeps, PTL DEF Spec, RefusalIsEarned

\* A caller that waited as long as it was told to is refused again only after
\* Limit more grants to its key.
THEOREM WaitingSuffices == Spec => RetryAfterSuffices
<1>1. ASSUME Inv, Next, NEW t \in Caller, Refused(t), refusal[t] # NoRefusal,
             now[t] >= refusal[t].until
      PROVE  Len(grants[KeyOf[t]]) - refusal[t].after >= Limit
  <2> DEFINE k == KeyOf[t]
  <2>1. /\ k \in DOMAIN windows /\ windows[k].start \in Nat /\ windows[k].start > now[t] - Window
        /\ windows[k].count \in Nat /\ windows[k].count >= Limit
    BY <1>1, RefusedMeans
  <2>2. /\ Len(grants[k]) \in Nat /\ now[t] \in Nat /\ Limit \in Nat /\ Window \in Nat
        /\ refusal[t].until \in Nat /\ refusal[t].after \in Nat
    <3>1. k \in Key
      BY <1>1, RefusedMeans
    <3> HIDE DEF k
    <3> QED
      BY <1>1, <3>1, RateLimitAssumption DEF Inv, TypeOK, Refusals
  <2>3. windows[k].start > refusal[t].until - Window
    BY <1>1, <2>1, <2>2
  <2>4. Len(grants[k]) - refusal[t].after >= windows[k].count
    BY <1>1, <2>1, <2>3 DEF Inv, Renewing
  <2> QED
    BY <2>1, <2>2, <2>4
<1>2. Inv /\ [Next]_vars =>
        [\A t \in Caller :
           Refused(t) /\ refusal[t] # NoRefusal /\ now[t] >= refusal[t].until
           => Len(grants[KeyOf[t]]) - refusal[t].after >= Limit]_vars
  BY <1>1
<1> QED
  BY <1>2, InitHolds, NextKeeps, PTL DEF Spec, RetryAfterSuffices

\* Provided that no caller is held up for a whole Window between reading the
\* clock and taking the mutex, the limiter keeps only windows that began
\* within a Window of its last sweep.
THEOREM OldWindowsAreSwept ==
  ASSUME MaxDelay < Window
  PROVE  Spec => []SweptWindowsAreGone
<1>1. Init => SweptWindowsAreGone
  BY DEF Init, SweptWindowsAreGone
<1>2. ASSUME Inv, SweptWindowsAreGone, NEW t \in Caller, Allow(t)
      PROVE  SweptWindowsAreGone'
  <2> DEFINE k == KeyOf[t]
  <2>1. /\ TypeOK /\ clock \in Nat /\ now[t] \in Nat /\ lastSweep \in Nat /\ lastSweep <= clock
        /\ Window \in Nat /\ MaxDelay \in Nat /\ clock - now[t] <= MaxDelay
        /\ lastSweep' = IF now[t] - lastSweep >= Window THEN now[t] ELSE lastSweep
    BY <1>2, RateLimitAssumption DEF Inv, TypeOK, Clocks, Allow, SweepDue
  <2>2. ASSUME NEW j \in DOMAIN windows, SweepDue(now[t]) => ~Expired(windows[j], now[t])
        PROVE  /\ windows[j].start > lastSweep' - Window
               /\ windows[j].start < lastSweep' + Window
    <3>1. windows[j].start \in Nat /\ windows[j].start <= clock
      BY <1>2, <2>2 DEF Inv, TypeOK, Clocks
    <3>2. windows[j].start > lastSweep - Window /\ windows[j].start < lastSweep + Window
      BY <1>2, <2>2 DEF SweptWindowsAreGone
    <3> QED
      BY <2>1, <2>2, <3>1, <3>2 DEF SweepDue, Expired
  <2>3. now[t] > lastSweep' - Window /\ now[t] < lastSweep' + Window
    BY <2>1, RateLimitAssumption
  <2>4. CASE Opens(t)
    <3>1. windows'[k].start = now[t]
      BY <2>4 DEF Opens
    <3> QED
      BY <1>2, <2>1, <2>2, <2>3, <3>1, AllowCases DEF SweptWindowsAreGone
  <2>5. CASE Fills(t)
    <3>1. windows'[k].start = windows[k].start /\ k \in DOMAIN windows
      BY <1>2, <2>1, <2>5 DEF Fills, TypeOK
    <3>2. SweepDue(now[t]) => ~Expired(windows[k], now[t])
      BY <2>5 DEF Fills
    <3> QED
      BY <1>2, <2>1, <2>2, <3>1, <3>2, AllowCases DEF SweptWindowsAreGone
  <2>6. CASE Refuses(t)
    BY <1>2, <2>1, <2>2, <2>6, AllowCases DEF Refuses, SweptWindowsAreGone
  <2> QED
    BY <1>2, <2>1, <2>4, <2>5, <2>6, AllowCases
<1>3. Inv /\ SweptWindowsAreGone /\ [Next]_vars => SweptWindowsAreGone'
  <2>1. ASSUME SweptWindowsAreGone, UNCHANGED <<windows, lastSweep>>
        PROVE  SweptWindowsAreGone'
    BY <2>1 DEF SweptWindowsAreGone
  <2> QED
    BY <1>2, <2>1 DEF Next, Tick, ReadClock, vars
<1> QED
  BY <1>1, <1>3, InitHolds, NextKeeps, PTL DEF Spec

\* The type invariant of the windows, in which no count exceeds Limit.
THEOREM WindowsAreTyped == Spec => []TypeOK
<1>1. Inv => TypeOK
  BY DEF Inv
<1> QED
  BY <1>1, InitHolds, NextKeeps, PTL DEF Spec

\* The limiter is an implementation of the budget that the pipeline is modelled
\* with: at most Limit grants of a key before its budget is renewed, and no
\* caller turned away before they are used up.
THEOREM LimiterIsImplemented == Spec => ImplementsBudget
<1>1. Init => Budget!LimiterInit
  BY DEF Init, Budget!LimiterInit, Counted, budgets, turnedAway
<1>2. ASSUME Inv, NEW t \in Caller, Allow(t)
      PROVE  Budget!LimiterNext
  <2> DEFINE k == KeyOf[t]
             gone == {j \in Key : j \notin DOMAIN windows'}
  <2>1. /\ TypeOK /\ k \in Key /\ Limit \in Nat \ {0} /\ k \in DOMAIN windows'
        /\ \A j \in Key \ {k} : Counted(windows', j) = IF j \in gone THEN 0 ELSE Counted(windows, j)
    BY <1>2, RateLimitAssumption, AllowCases DEF Inv, TypeOK, Counted
  <2>2. CASE Opens(t)
    <3>1. Counted(windows', k) = 1
      BY <2>1, <2>2 DEF Opens, Counted
    <3>2. turnedAway' = turnedAway \ {t}
      BY <2>1, <2>2 DEF Opens, TypeOK, turnedAway
    <3>3. Budget!Grant(t, gone \cup {k})
      BY <2>1, <3>1, <3>2 DEF Budget!Grant, Budget!Renewed, budgets
    <3> QED
      BY <2>1, <3>3 DEF Budget!LimiterNext
  <2>3. CASE Fills(t)
    <3>1. /\ Counted(windows, k) < Limit /\ Counted(windows, k) \in Nat
          /\ Counted(windows', k) = Counted(windows, k) + 1
      BY <2>1, <2>3 DEF Fills, Counted, TypeOK
    <3>2. turnedAway' = turnedAway \ {t}
      BY <2>1, <2>3 DEF Fills, TypeOK, turnedAway
    <3>3. Budget!Grant(t, gone)
      BY <2>1, <3>1, <3>2 DEF Budget!Grant, Budget!Renewed, budgets
    <3> QED
      BY <2>1, <3>3 DEF Budget!LimiterNext
  <2>4. CASE Refuses(t)
    <3>1. Counted(windows, k) = Limit /\ Counted(windows', k) = Limit
      BY <2>1, <2>4 DEF Refuses, Counted, TypeOK
    <3>2. turnedAway' = turnedAway \cup {t}
      <4>1. PICK r : r \in Refusals /\ refusal' = [refusal EXCEPT ![t] = r]
        <5>1. Len(grants[k]) \in Nat
          BY <2>1 DEF TypeOK
        <5> QED
          BY <2>4, <5>1 DEF Refuses, Refusals
      <4> QED
        BY <2>1, <4>1, RateLimitAssumption DEF TypeOK, turnedAway
    <3>3. Budget!Deny(t, gone)
      BY <2>1, <3>1, <3>2 DEF Budget!Deny, Budget!Renewed, budgets
    <3> QED
      BY <2>1, <3>3 DEF Budget!LimiterNext
  <2> QED
    BY <1>2, <2>1, <2>2, <2>3, <2>4, AllowCases
<1>3. Inv /\ [Next]_vars => [Budget!LimiterNext]_<<budgets, turnedAway>>
  BY <1>2 DEF Next, Tick, ReadClock, vars, budgets, turnedAway
<1> QED
  BY <1>1, <1>3, InitHolds, NextKeeps, PTL DEF Spec, ImplementsBudget, Budget!LimiterSpec

=============================================================================
