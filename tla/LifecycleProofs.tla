--------------------------- MODULE LifecycleProofs ---------------------------
(***************************************************************************)
(* Shutdown, for any set of calls and configurations.  The argument        *)
(* follows a Shutdown through Order: what it has behind it is closed, and, *)
(* unless it met its deadline, empty; nobody opens it again.  Two that run *)
(* at once may overtake each other, so the invariant speaks of each.       *)
(***************************************************************************)
EXTENDS Lifecycle, SequenceTheorems, TLAPS

Place == {"http", "external", "internal", "done"}

\* The places that a configuration's Order has.
Mounted(s) ==
  CASE s = "http"     -> ~cfg.DisableHTTP
    [] s = "external" -> ~cfg.DisableGRPC
    [] s = "internal" -> ~cfg.DisableHTTP /\ (cfg.Separate \/ cfg.DisableGRPC)
    [] s = "done"     -> TRUE

\* Order, spelt out for each kind of configuration.
LEMMA OrderIs ==
  /\ DOMAIN Order = 1 .. Len(Order)
  /\ cfg.DisableHTTP /\ cfg.DisableGRPC => Len(Order) = 1 /\ Order[1] = "done"
  /\ cfg.DisableHTTP /\ ~cfg.DisableGRPC =>
       Len(Order) = 2 /\ Order[1] = "external" /\ Order[2] = "done"
  /\ ~cfg.DisableHTTP /\ cfg.DisableGRPC =>
       Len(Order) = 3 /\ Order[1] = "http" /\ Order[2] = "internal" /\ Order[3] = "done"
  /\ ~cfg.DisableHTTP /\ ~cfg.DisableGRPC /\ cfg.Separate =>
       Len(Order) = 4 /\ Order[1] = "http" /\ Order[2] = "external" /\ Order[3] = "internal" /\ Order[4] = "done"
  /\ ~cfg.DisableHTTP /\ ~cfg.DisableGRPC /\ ~cfg.Separate =>
       Len(Order) = 3 /\ Order[1] = "http" /\ Order[2] = "external" /\ Order[3] = "done"
<1> DEFINE h == IF cfg.DisableHTTP THEN <<>> ELSE <<"http">>
           e == IF cfg.DisableGRPC THEN <<>> ELSE <<"external">>
           i == IF ~cfg.DisableHTTP /\ Backend = "internal" THEN <<"internal">> ELSE <<>>
<1>1. Order = ((h \o e) \o i) \o <<"done">>
  BY DEF Order
<1>2. h \in Seq(Place) /\ e \in Seq(Place) /\ i \in Seq(Place) /\ <<"done">> \in Seq(Place)
  <2>1. /\ <<>> \in Seq(Place) /\ <<"http">> \in Seq(Place) /\ <<"external">> \in Seq(Place)
        /\ <<"internal">> \in Seq(Place) /\ <<"done">> \in Seq(Place)
    BY DEF Place
  <2> QED BY <2>1
<1>3. /\ Len(h) = IF cfg.DisableHTTP THEN 0 ELSE 1
      /\ Len(e) = IF cfg.DisableGRPC THEN 0 ELSE 1
      /\ Len(i) = IF ~cfg.DisableHTTP /\ (cfg.Separate \/ cfg.DisableGRPC) THEN 1 ELSE 0
      /\ ~cfg.DisableHTTP => h[1] = "http"
      /\ ~cfg.DisableGRPC => e[1] = "external"
      /\ ~cfg.DisableHTTP /\ (cfg.Separate \/ cfg.DisableGRPC) => i[1] = "internal"
  BY DEF Backend
<1> HIDE DEF h, e, i
<1>4. /\ h \o e \in Seq(Place) /\ Len(h \o e) = Len(h) + Len(e)
      /\ \A k \in 1 .. Len(h) + Len(e) : (h \o e)[k] = IF k <= Len(h) THEN h[k] ELSE e[k - Len(h)]
  BY <1>2, ConcatProperties
<1>5. /\ (h \o e) \o i \in Seq(Place) /\ Len((h \o e) \o i) = Len(h \o e) + Len(i)
      /\ \A k \in 1 .. Len(h \o e) + Len(i) :
           ((h \o e) \o i)[k] = IF k <= Len(h \o e) THEN (h \o e)[k] ELSE i[k - Len(h \o e)]
  BY <1>2, <1>4, ConcatProperties
<1>6. /\ Order \in Seq(Place) /\ Len(Order) = Len((h \o e) \o i) + 1
      /\ \A k \in 1 .. Len((h \o e) \o i) + 1 :
           Order[k] = IF k <= Len((h \o e) \o i) THEN ((h \o e) \o i)[k] ELSE "done"
  <2>1. <<"done">> \in Seq(Place) /\ Len(<<"done">>) = 1 /\ <<"done">>[1] = "done"
    BY DEF Place
  <2>2. /\ Order \in Seq(Place) /\ Len(Order) = Len((h \o e) \o i) + 1
        /\ \A k \in 1 .. Len((h \o e) \o i) + 1 :
             Order[k] = IF k <= Len((h \o e) \o i) THEN ((h \o e) \o i)[k] 
                        ELSE <<"done">>[k - Len((h \o e) \o i)]
    BY <1>1, <1>5, <2>1, ConcatProperties
  <2>3. Len((h \o e) \o i) \in Nat
    BY <1>5, LenProperties
  <2> QED BY <2>1, <2>2, <2>3
<1>7. DOMAIN Order = 1 .. Len(Order)
  BY <1>6, LenProperties
<1> DEFINE n == Len((h \o e) \o i)
<1>8. /\ Len(h) \in {0, 1} /\ Len(e) \in {0, 1} /\ Len(i) \in {0, 1}
      /\ n = Len(h) + Len(e) + Len(i) /\ Len(Order) = n + 1
      /\ \A k \in 1 .. n + 1 : Order[k] = IF k <= Len(h) THEN h[k]
                                       ELSE IF k <= Len(h) + Len(e) THEN e[k - Len(h)]
                                       ELSE IF k <= n THEN i[k - Len(h) - Len(e)]
                                       ELSE "done"
  <2>1. Len(h) \in {0, 1} /\ Len(e) \in {0, 1} /\ Len(i) \in {0, 1}
    BY <1>3
  <2> QED BY <2>1, <1>4, <1>5, <1>6
<1> HIDE DEF n
<1>9. CASE cfg.DisableHTTP
  BY <1>3, <1>7, <1>8, <1>9
<1>10. CASE ~cfg.DisableHTTP /\ cfg.DisableGRPC
  BY <1>3, <1>7, <1>8, <1>10
<1>11. CASE ~cfg.DisableHTTP /\ ~cfg.DisableGRPC
  BY <1>3, <1>7, <1>8, <1>11
<1> QED BY <1>9, <1>10, <1>11

\* The next place exists when this one does.
LEMMA AfterIs ==
  ASSUME NEW s \in {"http", "external", "internal"}, Mounted(s)
  PROVE  /\ After(s) = IF s = "http" THEN IF cfg.DisableGRPC THEN "internal" ELSE "external"
                       ELSE IF s = "external" /\ ~cfg.DisableHTTP /\ cfg.Separate THEN "internal"
                       ELSE "done"
         /\ Mounted(After(s))
<1> DEFINE i == CHOOSE j \in DOMAIN Order : Order[j] = s
<1>1. \E j \in DOMAIN Order : Order[j] = s
  <2>1. CASE s = "http"
    BY <2>1, OrderIs DEF Mounted
  <2>2. CASE s = "external"
    BY <2>2, OrderIs DEF Mounted
  <2>3. CASE s = "internal"
    BY <2>3, OrderIs DEF Mounted
  <2> QED BY <2>1, <2>2, <2>3
<1>2. i \in DOMAIN Order /\ Order[i] = s
  BY <1>1
<1>3. After(s) = Order[1 + i]
  BY DEF After
<1> HIDE DEF i
<1>4. CASE s = "http"
  <2>1. i = 1 /\ After(s) = IF cfg.DisableGRPC THEN "internal" ELSE "external"
    BY <1>2, <1>3, <1>4, OrderIs DEF Mounted
  <2> QED BY <2>1, <1>4 DEF Mounted
<1>5. CASE s = "external"
  <2>1. After(s) = IF ~cfg.DisableHTTP /\ cfg.Separate THEN "internal" ELSE "done"
    BY <1>2, <1>3, <1>5, OrderIs DEF Mounted
  <2> QED BY <2>1, <1>5 DEF Mounted
<1>6. CASE s = "internal"
  <2>1. After(s) = "done"
    BY <1>2, <1>3, <1>6, OrderIs DEF Mounted
  <2> QED BY <2>1, <1>6 DEF Mounted
<1> QED BY <1>4, <1>5, <1>6

LEMMA FirstIs ==
  ASSUME cfg \in Config
  PROVE  /\ Order[1] = IF cfg.DisableHTTP THEN "external" ELSE "http"
         /\ Mounted(Order[1])
BY OrderIs, LifecycleAssumption DEF Mounted

-----------------------------------------------------------------------------

Begun(x) == stage[x] \notin {"none", "begin"}

Past(x, s) ==
  CASE s = "http"     -> stage[x] \in {"external", "internal", "done"}
    [] s = "external" -> stage[x] \in {"internal", "done"}
    [] s = "internal" -> stage[x] = "done"

\* A Shutdown goes through what there is to stop.
Places == \A x \in Caller : Begun(x) => Mounted(stage[x])

\* Run's own Shutdown is the last thing it does, and the only one whose
\* deadline Run sets.
Progress ==
  /\ stage["run"] # "none" <=> run = "stopping" \/ (run = "returned" /\ stage["run"] = "done")
  /\ Begun("run") => ~health
  /\ \A x \in Caller : stage[x] = "none" => deadline[x] = "none"

\* What calls there are depends on what listens.
Kinds ==
  /\ cfg.DisableGRPC => serve["grpc"] = "none"
  /\ cfg.DisableHTTP => serve["http"] = "none"
  /\ \A c \in Direct : call[c] # "http" /\ (cfg.DisableGRPC => call[c] = "none")
  /\ \A c \in Gateway \cup Route : cfg.DisableHTTP => call[c] = "none"
  /\ \A c \in Route : call[c] \notin {"rpc", "cut"}

\* A server that takes no more calls was closed by a Shutdown on its way.
Closed ==
  /\ \A x \in Caller : Begun(x) => http = "closed"
  /\ \A s \in Server : grpc[s] # "open" => \E x \in Caller : Past(x, "http")

\* A Shutdown leaves a stage behind it stopped, and empty unless it is late.
Drained ==
  /\ \A x \in Caller : Past(x, "http") /\ ~late[x] => \A c \in Call : ~InHTTP(c)
  /\ \A x \in Caller, s \in Server :
       Past(x, s) /\ Mounted(s) =>
         /\ grpc[s] = "stopped"
         /\ ~late[x] => \A c \in Call : ~InRPC(c, s)

LifecycleInv == TypeOK /\ Places /\ Progress /\ Kinds /\ Closed /\ Drained /\ CutOnlyAfterDeadline

\* Nothing has begun.
LEMMA LifecycleStarts == Init => LifecycleInv
<1> SUFFICES ASSUME Init PROVE LifecycleInv
  OBVIOUS
<1>1. /\ deadline = [x \in Caller |-> "none"] /\ late = [x \in Caller |-> FALSE]
      /\ stage = [x \in Caller |-> "none"]
  BY DEF Init
<1>2. TypeOK
  BY <1>1 DEF Init, TypeOK, Caller
<1>3. Places /\ Progress /\ Closed
  BY <1>1 DEF Init, Places, Progress, Closed, Begun, Caller
<1>4. Drained
  BY <1>1 DEF Init, Drained, Past, Caller, Server
<1>5. Kinds /\ CutOnlyAfterDeadline
  BY DEF Init, Kinds, CutOnlyAfterDeadline, Listener, Call
<1> QED BY <1>2, <1>3, <1>4, <1>5 DEF LifecycleInv

\* What touches neither calls, servers nor Shutdowns.
LEMMA CallsStay ==
  ASSUME LifecycleInv, UNCHANGED <<cfg, grpc, http, stage, late, call>>, deadline' = deadline,
         TypeOK', Progress', Kinds'
  PROVE  LifecycleInv'
<1>1. Places' /\ Closed'
  BY DEF LifecycleInv, Places, Closed, Begun, Past, Mounted
<1>2. Drained'
  <2>1. \A y \in Caller, s \in {"http"} \cup Server :
          (Past(y, s)' <=> Past(y, s)) /\ (Mounted(s)' <=> Mounted(s))
    BY DEF Past, Mounted
  <2>2. \A c \in Call : (InHTTP(c)' <=> InHTTP(c)) /\ \A s \in Server : (InRPC(c, s)' <=> InRPC(c, s))
    BY DEF InHTTP, InRPC, ServerOf, Backend
  <2> QED BY <2>1, <2>2 DEF LifecycleInv, Drained
<1>3. CutOnlyAfterDeadline'
  BY DEF LifecycleInv, CutOnlyAfterDeadline
<1> QED BY <1>1, <1>2, <1>3 DEF LifecycleInv

LEMMA RunKeeps ==
  ASSUME LifecycleInv, Cancel \/ ListenGRPC \/ Announce \/ Return
  PROVE  LifecycleInv'
<1>1. UNCHANGED <<cfg, grpc, http, stage, late, call>> /\ deadline' = deadline
  BY DEF Cancel, ListenGRPC, Announce, Return, shutdownVars, runVars
<1>2. TypeOK'
  <2>1. /\ run' \in {run, "listening", "waiting", "returned"} /\ cancelled' \in {cancelled, TRUE}
        /\ health' \in {health, TRUE} /\ errCh' = errCh
    BY DEF Cancel, ListenGRPC, Announce, Return, runVars
  <2>2. serve' = serve \/ serve' = [serve EXCEPT !["grpc"] = "started"]
    BY DEF Cancel, ListenGRPC, Announce, Return
  <2>3. serve' \in [Listener -> {"none", "started", "serving", "ended"}]
    BY <2>2 DEF LifecycleInv, TypeOK
  <2> QED BY <1>1, <2>1, <2>3 DEF LifecycleInv, TypeOK
<1>3. Progress'
  BY DEF LifecycleInv, TypeOK, Progress, Cancel, ListenGRPC, Announce, Return, shutdownVars, runVars, Caller, Begun
<1>4. Kinds'
  BY DEF LifecycleInv, TypeOK, Kinds, Cancel, ListenGRPC, Announce, Return, shutdownVars, runVars, Listener
<1> QED BY <1>1, <1>2, <1>3, <1>4, CallsStay

LEMMA ServeKeeps ==
  ASSUME LifecycleInv, NEW l \in Listener, ServeBegins(l) \/ ServeEnds(l)
  PROVE  LifecycleInv'
<1>1. UNCHANGED <<cfg, grpc, http, stage, late, call>> /\ deadline' = deadline
  BY DEF ServeBegins, ServeEnds, shutdownVars
<1>2. TypeOK'
  <2>1. UNCHANGED <<run, cancelled, health>> /\ errCh' \in BOOLEAN
    BY DEF ServeBegins, ServeEnds, LifecycleInv, TypeOK
  <2>2. serve' \in [Listener -> {"none", "started", "serving", "ended"}]
    BY DEF ServeBegins, ServeEnds, LifecycleInv, TypeOK
  <2> QED BY <1>1, <2>1, <2>2 DEF LifecycleInv, TypeOK
<1>3. Progress'
  BY DEF LifecycleInv, Progress, ServeBegins, ServeEnds, shutdownVars, Caller, Begun
<1>4. Kinds'
  BY DEF LifecycleInv, TypeOK, Kinds, ServeBegins, ServeEnds, Listener
<1> QED BY <1>1, <1>2, <1>3, <1>4, CallsStay

\* A Shutdown that begins has nothing behind it yet.
LEMMA BeginningKeeps ==
  ASSUME LifecycleInv, ListenHTTP \/ Select \/ CallShutdown \/ (\E x \in Caller : DeadlinePasses(x))
  PROVE  LifecycleInv'
<1>1. UNCHANGED <<cfg, grpc, http, late, call>>
  BY DEF ListenHTTP, Select, CallShutdown, DeadlinePasses, runVars
<1>2. TypeOK'
  <2>1. CASE ListenHTTP
    <3>1. /\ stage' = stage \/ stage' = [stage EXCEPT !["run"] = "begin"]
          /\ run' \in {"listened", "stopping"} /\ health' \in {health, TRUE}
          /\ UNCHANGED <<cfg, cancelled, errCh, grpc, http, deadline, late, call>>
      BY <2>1 DEF ListenHTTP
    <3>2. serve' \in [Listener -> {"none", "started", "serving", "ended"}]
      BY <2>1 DEF LifecycleInv, TypeOK, ListenHTTP, Listener
    <3>3. stage' \in [Caller -> {"none", "begin", "http", "done"} \cup Server]
      BY <3>1 DEF LifecycleInv, TypeOK
    <3> QED BY <3>1, <3>2, <3>3 DEF LifecycleInv, TypeOK
  <2>2. CASE Select
    <3>1. /\ run' = "stopping" /\ errCh' \in {errCh, FALSE}
          /\ stage' = [stage EXCEPT !["run"] = "begin"]
          /\ deadline' = deadline \/ deadline' = [deadline EXCEPT !["run"] = "armed"]
               \/ deadline' = [deadline EXCEPT !["run"] = "none"]
          /\ UNCHANGED <<cfg, cancelled, health, serve, grpc, http, late, call>>
      BY <2>2 DEF Select
    <3>2. deadline["run"] = "none"
      BY <2>2 DEF Select, LifecycleInv, Progress, Caller
    <3>3. /\ stage' \in [Caller -> {"none", "begin", "http", "done"} \cup Server]
          /\ deadline' \in [Caller -> {"none", "armed", "passed"}]
      BY <3>1 DEF LifecycleInv, TypeOK
    <3>4. \A y \in Caller : deadline[y] = "passed" => deadline'[y] = "passed"
      BY <3>1, <3>2 DEF LifecycleInv, TypeOK
    <3> QED BY <3>1, <3>3, <3>4 DEF LifecycleInv, TypeOK
  <2>3. CASE CallShutdown
    BY <2>3 DEF LifecycleInv, TypeOK, Progress, CallShutdown, runVars, Caller
  <2>4. CASE \E x \in Caller : DeadlinePasses(x)
    BY <2>4 DEF LifecycleInv, TypeOK, DeadlinePasses, runVars, Caller
  <2> QED BY <2>1, <2>2, <2>3, <2>4
<1>3. Progress'
  BY DEF LifecycleInv, TypeOK, Progress, ListenHTTP, Select, CallShutdown, DeadlinePasses, runVars, shutdownVars,
     Caller, Begun
<1>4. Kinds'
  BY <1>1 DEF LifecycleInv, TypeOK, Kinds, ListenHTTP, Select, CallShutdown, DeadlinePasses, runVars, Listener
<1>5. \A x \in Caller : stage'[x] = stage[x] \/ (stage[x] = "none" /\ stage'[x] = "begin")
  BY DEF LifecycleInv, TypeOK, Progress, ListenHTTP, Select, CallShutdown, DeadlinePasses, shutdownVars, Caller
<1>6. \A x \in Caller : deadline[x] = "passed" => deadline'[x] = "passed"
  BY DEF LifecycleInv, TypeOK, Progress, ListenHTTP, Select, CallShutdown, DeadlinePasses, shutdownVars, Caller
<1>7. Places' /\ Closed' /\ Drained'
  <2>1. \A x \in Caller : Begun(x)' => Begun(x) /\ stage'[x] = stage[x]
    BY <1>5 DEF Begun
  <2>2. \A x \in Caller, s \in {"http"} \cup Server : Past(x, s)' <=> Past(x, s)
    BY <1>5 DEF Past, Server
  <2>3. Places'
    BY <1>1, <2>1 DEF LifecycleInv, Places, Mounted
  <2>4. Closed'
    BY <1>1, <2>1, <2>2 DEF LifecycleInv, Closed
  <2>5. Drained'
    BY <1>1, <2>2 DEF LifecycleInv, Drained, InHTTP, InRPC, Mounted, ServerOf, Backend
  <2> QED BY <2>3, <2>4, <2>5
<1>8. CutOnlyAfterDeadline'
  BY <1>1, <1>6 DEF LifecycleInv, CutOnlyAfterDeadline
<1> QED BY <1>2, <1>3, <1>4, <1>7, <1>8 DEF LifecycleInv

\* Whoever is past the HTTP server has closed it, and waited for it unless late.
LEMMA BeginKeeps ==
  ASSUME LifecycleInv, NEW x \in Caller, Begin(x)
  PROVE  LifecycleInv'
<1>0. /\ stage' = [stage EXCEPT ![x] = Order[1]] /\ stage[x] = "begin" /\ http' = "closed" /\ ~health'
      /\ UNCHANGED <<cfg, run, cancelled, errCh, serve, grpc, deadline, late, call>>
  BY DEF Begin, runVars
<1>1. /\ Order[1] = IF cfg.DisableHTTP THEN "external" ELSE "http"
      /\ Mounted(Order[1])
  BY FirstIs DEF LifecycleInv, TypeOK
<1>2. TypeOK'
  <2>1. Order[1] \in {"http"} \cup Server
    BY <1>1 DEF Server
  <2>2. stage' \in [Caller -> {"none", "begin", "http", "done"} \cup Server]
    BY <1>0, <2>1 DEF LifecycleInv, TypeOK
  <2>3. health' \in BOOLEAN
    BY DEF Begin
  <2> QED BY <1>0, <2>2, <2>3 DEF LifecycleInv, TypeOK
<1>3. \A y \in Caller, s \in Server : Past(y, s)' <=> Past(y, s)
  BY <1>0, <1>1 DEF LifecycleInv, TypeOK, Past, Server
<1>4. \A y \in Caller : Past(y, "http") => Past(y, "http")'
  BY <1>0, <1>1 DEF LifecycleInv, TypeOK, Past
<1>5. \A y \in Caller : Past(y, "http")' => Past(y, "http") \/ (y = x /\ cfg.DisableHTTP)
  BY <1>0, <1>1 DEF LifecycleInv, TypeOK, Past
<1>6. Places'
  <2>1. \A y \in Caller : Begun(y)' => (y = x /\ stage'[y] = Order[1]) \/ (Begun(y) /\ stage'[y] = stage[y])
    BY <1>0 DEF LifecycleInv, TypeOK, Begun
  <2>2. \A p : Mounted(p)' <=> Mounted(p)
    BY <1>0 DEF Mounted
  <2> QED BY <1>1, <2>1, <2>2 DEF LifecycleInv, Places
<1>7. Progress'
  BY <1>0, <1>1 DEF LifecycleInv, TypeOK, Progress, Begun, Caller
<1>8. Kinds' /\ CutOnlyAfterDeadline'
  BY <1>0 DEF LifecycleInv, Kinds, CutOnlyAfterDeadline
<1>9. Closed'
  BY <1>0, <1>4 DEF LifecycleInv, Closed
<1>10. Drained'
  <2>1. cfg.DisableHTTP => \A c \in Call : ~InHTTP(c)
    BY DEF LifecycleInv, Kinds, InHTTP
  <2>2. \A c \in Call, s \in Server : (InHTTP(c)' <=> InHTTP(c)) /\ (InRPC(c, s)' <=> InRPC(c, s))
    BY <1>0 DEF InHTTP, InRPC, ServerOf, Backend
  <2>3. \A s \in Server : Mounted(s)' <=> Mounted(s)
    BY <1>0 DEF Mounted
  <2>4. ASSUME NEW y \in Caller, Past(y, "http")', ~late'[y], NEW c \in Call
        PROVE  ~InHTTP(c)'
    BY <1>0, <1>5, <2>1, <2>2, <2>4 DEF LifecycleInv, Drained, Server
  <2>5. ASSUME NEW y \in Caller, NEW s \in Server, Past(y, s)', Mounted(s)'
        PROVE  grpc'[s] = "stopped" /\ (~late'[y] => \A c \in Call : ~InRPC(c, s)')
    <3>1. Past(y, s) /\ Mounted(s)
      BY <1>3, <2>3, <2>5
    <3> QED BY <1>0, <3>1, <2>2 DEF LifecycleInv, Drained
  <2> QED BY <2>4, <2>5 DEF Drained
<1> QED BY <1>2, <1>6, <1>7, <1>8, <1>9, <1>10 DEF LifecycleInv

\* What leaving a stage does to what is behind.
LEMMA AdvanceIs ==
  ASSUME LifecycleInv, NEW x \in Caller, stage[x] \in {"http"} \cup Server, Advance(x)
  PROVE  /\ stage' \in [Caller -> {"none", "begin", "http", "done"} \cup Server]
         /\ \A y \in Caller : y # x => stage'[y] = stage[y]
         /\ Begun(x) /\ Begun(x)' /\ Mounted(stage'[x])
         /\ \A s \in {"http"} \cup Server : Mounted(s) => (Past(x, s)' <=> Past(x, s) \/ s = stage[x])
         /\ Past(x, "http")'
<1>1. Mounted(stage[x]) /\ stage[x] \in {"http", "external", "internal"}
  BY DEF LifecycleInv, Places, Begun, Server
<1>2. stage'[x] = After(stage[x]) /\ stage' = [stage EXCEPT ![x] = After(stage[x])]
  BY DEF Advance, LifecycleInv, TypeOK
<1>3. /\ After(stage[x]) = IF stage[x] = "http" THEN IF cfg.DisableGRPC THEN "internal" ELSE "external"
                           ELSE IF stage[x] = "external" /\ ~cfg.DisableHTTP /\ cfg.Separate THEN "internal"
                           ELSE "done"
      /\ Mounted(After(stage[x]))
  BY <1>1, AfterIs
<1>4. After(stage[x]) \in {"external", "internal", "done"}
  BY <1>3
<1>5. /\ stage' \in [Caller -> {"none", "begin", "http", "done"} \cup Server]
      /\ \A y \in Caller : y # x => stage'[y] = stage[y]
  BY <1>2, <1>4 DEF LifecycleInv, TypeOK, Server
<1>6. Begun(x) /\ Begun(x)' /\ Mounted(stage'[x]) /\ Past(x, "http")'
  BY <1>1, <1>2, <1>3, <1>4 DEF Begun, Past
<1>7. ASSUME NEW s \in {"http"} \cup Server, Mounted(s)
      PROVE  Past(x, s)' <=> Past(x, s) \/ s = stage[x]
  <2>1. CASE s = "http"
    BY <2>1, <1>1, <1>2, <1>4 DEF Past, Server
  <2>2. CASE s = "external"
    BY <2>2, <1>1, <1>2, <1>3, <1>7 DEF Past, Mounted
  <2>3. CASE s = "internal"
    BY <2>3, <1>1, <1>2, <1>3, <1>7 DEF Past, Mounted
  <2> QED BY <2>1, <2>2, <2>3 DEF Server
<1> QED BY <1>5, <1>6, <1>7

\* A step from a stage to the next keeps the invariant, if it stops what the
\* stage is about, empties it unless it is late, and reopens nothing.
LEMMA AdvanceKeeps ==
  ASSUME LifecycleInv, NEW x \in Caller, stage[x] \in {"http"} \cup Server, Advance(x),
         UNCHANGED <<cfg, run, health, http, deadline>>,
         \A y \in Caller : late[y] => late'[y],
         \A s \in Server : (grpc[s] = "stopped" => grpc'[s] = "stopped") /\ (grpc[s] # "open" => grpc'[s] # "open"),
         \A c \in Call : ~InHTTP(c) => ~InHTTP(c)',
         \A c \in Call, s \in Server : ~InRPC(c, s) => ~InRPC(c, s)',
         stage[x] = "http" => late'[x] \/ \A c \in Call : ~InHTTP(c)',
         \A s \in Server :
           s = stage[x] => grpc'[s] = "stopped" /\ (late'[x] \/ \A c \in Call : ~InRPC(c, s)')
  PROVE  Places' /\ Progress' /\ Closed' /\ Drained'
<1>1. /\ \A y \in Caller : y # x => stage'[y] = stage[y]
      /\ Begun(x) /\ Begun(x)' /\ Mounted(stage'[x])
      /\ \A s \in {"http"} \cup Server : Mounted(s) => (Past(x, s)' <=> Past(x, s) \/ s = stage[x])
      /\ Past(x, "http")'
  BY AdvanceIs
<1>2. \A p \in {"http", "external", "internal", "done"} : Mounted(p)' <=> Mounted(p)
  BY DEF Mounted
<1>3. Places'
  <2>1. \A y \in Caller : y # x => (Begun(y)' <=> Begun(y))
    BY <1>1 DEF Begun
  <2> QED BY <1>1, <2>1 DEF LifecycleInv, Places, Mounted
<1>4. Progress'
  <2>1. stage[x] # "none" /\ stage'[x] # "none"
    BY <1>1 DEF Begun
  <2>2. stage["run"] = "done" => stage'["run"] = "done"
    BY <1>1 DEF Caller, Server
  <2>3. x = "run" => run = "stopping"
    BY <2>1 DEF LifecycleInv, Progress, Server
  <2> QED BY <1>1, <2>1, <2>2, <2>3 DEF LifecycleInv, Progress, Begun, Caller
<1>5. Closed'
  <2>1. \A y \in Caller : Begun(y)' => Begun(y)
    BY <1>1 DEF Begun
  <2> QED BY <1>1, <2>1 DEF LifecycleInv, Closed
<1>6. ASSUME NEW y \in Caller, Past(y, "http")', ~late'[y]
      PROVE  \A c \in Call : ~InHTTP(c)'
  <2>1. CASE y # x
    BY <1>1, <1>6, <2>1 DEF LifecycleInv, Drained, Past
  <2>2. CASE y = x /\ Mounted("http")
    <3>1. Past(x, "http") \/ stage[x] = "http"
      BY <1>1, <1>6, <2>2
    <3> QED BY <1>6, <2>2, <3>1 DEF LifecycleInv, Drained
  <2>3. CASE ~Mounted("http")
    BY <2>3 DEF LifecycleInv, Kinds, InHTTP, Mounted
  <2> QED BY <2>1, <2>2, <2>3
<1>7. ASSUME NEW y \in Caller, NEW s \in Server, Past(y, s)', Mounted(s)'
      PROVE  grpc'[s] = "stopped" /\ (~late'[y] => \A c \in Call : ~InRPC(c, s)')
  <2>1. Mounted(s)
    BY <1>2, <1>7 DEF Server
  <2>2. CASE Past(y, s)
    BY <2>1, <2>2 DEF LifecycleInv, Drained
  <2>3. CASE ~Past(y, s)
    <3>1. y = x
      BY <1>1, <1>7, <2>3 DEF Past
    <3>2. s = stage[x]
      BY <1>1, <1>7, <2>1, <2>3, <3>1
    <3> QED BY <1>7, <3>1, <3>2
  <2> QED BY <2>2, <2>3
<1> QED BY <1>3, <1>4, <1>5, <1>6, <1>7 DEF Drained

LEMMA HTTPDrainedKeeps ==
  ASSUME LifecycleInv, NEW x \in Caller, HTTPDrained(x)
  PROVE  LifecycleInv'
<1>0. /\ Advance(x) /\ stage[x] = "http" /\ \A c \in Call : ~InHTTP(c)
      /\ UNCHANGED <<cfg, run, cancelled, errCh, health, serve, grpc, http, deadline, late, call>>
  BY DEF HTTPDrained, runVars
<1>1. stage' \in [Caller -> {"none", "begin", "http", "done"} \cup Server]
  BY <1>0, AdvanceIs
<1>2. TypeOK' /\ Kinds' /\ CutOnlyAfterDeadline'
  BY <1>0, <1>1 DEF LifecycleInv, TypeOK, Kinds, CutOnlyAfterDeadline
<1>3. \A c \in Call : (InHTTP(c)' <=> InHTTP(c)) /\ \A s \in Server : (InRPC(c, s)' <=> InRPC(c, s))
  BY <1>0 DEF InHTTP, InRPC, ServerOf, Backend
<1>4. Places' /\ Progress' /\ Closed' /\ Drained'
  <2>1. stage[x] \notin Server
    BY <1>0 DEF Server
  <2> QED BY <1>0, <1>3, <2>1, AdvanceKeeps
<1> QED BY <1>2, <1>4 DEF LifecycleInv

LEMMA StoppedKeeps ==
  ASSUME LifecycleInv, NEW x \in Caller, Stopped(x)
  PROVE  LifecycleInv'
<1>0. /\ Advance(x) /\ stage[x] \in Server /\ \A c \in Call : ~InRPC(c, stage[x])
      /\ grpc' = [grpc EXCEPT ![stage[x]] = "stopped"]
      /\ UNCHANGED <<cfg, run, cancelled, errCh, health, serve, http, deadline, late, call>>
  BY DEF Stopped, runVars
<1>1. stage' \in [Caller -> {"none", "begin", "http", "done"} \cup Server]
  BY <1>0, AdvanceIs
<1>2. TypeOK' /\ Kinds' /\ CutOnlyAfterDeadline'
  BY <1>0, <1>1 DEF LifecycleInv, TypeOK, Kinds, CutOnlyAfterDeadline
<1>3. \A c \in Call : (InHTTP(c)' <=> InHTTP(c)) /\ \A s \in Server : (InRPC(c, s)' <=> InRPC(c, s))
  BY <1>0 DEF InHTTP, InRPC, ServerOf, Backend
<1>4. Places' /\ Progress' /\ Closed' /\ Drained'
  <2>1. stage[x] # "http"
    BY <1>0 DEF Server
  <2>2. /\ \A s \in Server : grpc[s] # "open" => grpc'[s] # "open"
        /\ \A s \in Server : grpc[s] = "stopped" => grpc'[s] = "stopped"
        /\ grpc'[stage[x]] = "stopped"
    BY <1>0 DEF LifecycleInv, TypeOK
  <2> QED BY <1>0, <1>3, <2>1, <2>2, AdvanceKeeps
<1> QED BY <1>2, <1>4 DEF LifecycleInv

\* The deadline cuts the calls of the server it stops, and of no other.
LEMMA GiveUpKeeps ==
  ASSUME LifecycleInv, NEW x \in Caller, GiveUp(x)
  PROVE  LifecycleInv'
<1>0. /\ Advance(x) /\ stage[x] \in {"http"} \cup Server /\ deadline[x] = "passed"
      /\ late' = [late EXCEPT ![x] = TRUE]
      /\ UNCHANGED <<cfg, run, cancelled, errCh, health, serve, http, deadline>>
      /\ stage[x] = "http" => UNCHANGED <<grpc, call>>
      /\ stage[x] # "http" =>
           /\ grpc' = [grpc EXCEPT ![stage[x]] = "stopped"]
           /\ call' = [c \in Call |-> IF InRPC(c, stage[x]) THEN "cut" ELSE call[c]]
  BY DEF GiveUp, runVars
<1>1. stage' \in [Caller -> {"none", "begin", "http", "done"} \cup Server]
  BY <1>0, AdvanceIs
<1>2. /\ call' \in [Call -> {"none", "http", "rpc", "cut", "done", "failed"}]
      /\ \A c \in Call : call'[c] # call[c] =>
           call'[c] = "cut" /\ call[c] \in {"rpc", "cut"} /\ c \in Direct \cup Gateway
  BY <1>0 DEF LifecycleInv, TypeOK, InRPC
<1>3. grpc' \in [Server -> {"open", "draining", "stopped"}]
  BY <1>0 DEF LifecycleInv, TypeOK
<1>4. late' \in [Caller -> BOOLEAN] /\ late'[x] /\ \A y \in Caller : y # x => late'[y] = late[y]
  BY <1>0 DEF LifecycleInv, TypeOK
<1>5. TypeOK'
  BY <1>0, <1>1, <1>2, <1>3, <1>4 DEF LifecycleInv, TypeOK
<1>6. Kinds'
  BY <1>0, <1>2, LifecycleAssumption DEF LifecycleInv, Kinds, Call
<1>7. CutOnlyAfterDeadline'
  BY <1>0, <1>2 DEF LifecycleInv, CutOnlyAfterDeadline
<1>8. Places' /\ Progress' /\ Closed' /\ Drained'
  <2>1. \A c \in Call : ~InHTTP(c) => ~InHTTP(c)'
    BY <1>2 DEF InHTTP
  <2>2. \A c \in Call, s \in Server : ~InRPC(c, s) => ~InRPC(c, s)'
    BY <1>0, <1>2 DEF InRPC, ServerOf, Backend
  <2>3. /\ \A s \in Server : grpc[s] # "open" => grpc'[s] # "open"
        /\ \A s \in Server : grpc[s] = "stopped" => grpc'[s] = "stopped"
        /\ \A s \in Server : s = stage[x] => grpc'[s] = "stopped"
    BY <1>0 DEF LifecycleInv, TypeOK, Server
  <2> QED BY <1>0, <1>4, <2>1, <2>2, <2>3, AdvanceKeeps
<1> QED BY <1>5, <1>6, <1>7, <1>8 DEF LifecycleInv

LEMMA GracefulStopKeeps ==
  ASSUME LifecycleInv, NEW x \in Caller, GracefulStop(x)
  PROVE  LifecycleInv'
<1>0. /\ stage[x] \in Server /\ grpc[stage[x]] = "open"
      /\ grpc' = [grpc EXCEPT ![stage[x]] = "draining"]
      /\ UNCHANGED <<cfg, run, cancelled, errCh, health, serve, http, stage, deadline, late, call>>
  BY DEF GracefulStop, runVars, shutdownVars
<1>1. TypeOK' /\ Places' /\ Progress' /\ Kinds' /\ CutOnlyAfterDeadline'
  <2>1. TypeOK'
    BY <1>0 DEF LifecycleInv, TypeOK
  <2>2. Places'
    BY <1>0 DEF LifecycleInv, Places, Begun, Mounted
  <2>3. Progress' /\ Kinds' /\ CutOnlyAfterDeadline'
    BY <1>0 DEF LifecycleInv, Progress, Kinds, CutOnlyAfterDeadline, Begun
  <2> QED BY <2>1, <2>2, <2>3
<1>2. Past(x, "http")
  BY <1>0 DEF Past, Server
<1>3. Closed'
  BY <1>0, <1>2 DEF LifecycleInv, Closed, Begun, Past
<1>4. Drained'
  <2>1. \A s \in Server : grpc[s] = "stopped" => grpc'[s] = "stopped"
    BY <1>0 DEF LifecycleInv, TypeOK
  <2>2. \A y \in Caller, s \in {"http"} \cup Server :
          (Past(y, s)' <=> Past(y, s)) /\ (Mounted(s)' <=> Mounted(s))
    BY <1>0 DEF Past, Mounted
  <2>3. \A c \in Call : (InHTTP(c)' <=> InHTTP(c)) /\ \A s \in Server : (InRPC(c, s)' <=> InRPC(c, s))
    BY <1>0 DEF InHTTP, InRPC, ServerOf, Backend
  <2> QED BY <1>0, <2>1, <2>2, <2>3 DEF LifecycleInv, Drained
<1> QED BY <1>1, <1>3, <1>4 DEF LifecycleInv

-----------------------------------------------------------------------------

\* A call arrives at, or is forwarded to, what is open, and nobody who is past
\* that has found it closed.
LEMMA CallKeeps ==
  ASSUME LifecycleInv, NEW c \in Call, Arrive(c) \/ Forward(c) \/ Finish(c)
  PROVE  LifecycleInv'
<1>0. /\ UNCHANGED <<cfg, run, cancelled, errCh, health, serve, grpc, http, stage, deadline, late>>
      /\ \A d \in Call : d # c => call'[d] = call[d]
      /\ call' \in [Call -> {"none", "http", "rpc", "cut", "done", "failed"}]
  BY DEF Arrive, Forward, Finish, runVars, shutdownVars, LifecycleInv, TypeOK
<1>1. TypeOK' /\ Places' /\ Progress' /\ Closed'
  BY <1>0 DEF LifecycleInv, TypeOK, Places, Progress, Closed, Begun, Past, Mounted
<1>2. Kinds'
  <2>1. CASE Arrive(c)
    BY <2>1, <1>0, LifecycleAssumption DEF Arrive, LifecycleInv, TypeOK, Kinds, Call
  <2>2. CASE Forward(c)
    BY <2>2, <1>0, LifecycleAssumption DEF Forward, LifecycleInv, TypeOK, Kinds, Call
  <2>3. CASE Finish(c)
    BY <2>3, <1>0, LifecycleAssumption DEF Finish, LifecycleInv, TypeOK, Kinds, Call
  <2> QED BY <2>1, <2>2, <2>3
<1>3. \A d \in Call, s \in Server : d # c => (InHTTP(d)' <=> InHTTP(d)) /\ (InRPC(d, s)' <=> InRPC(d, s))
  BY <1>0 DEF InHTTP, InRPC, ServerOf, Backend
<1>4. ASSUME NEW x \in Caller, Past(x, "http"), InHTTP(c)'
      PROVE  InHTTP(c)
  <2>1. http = "closed"
    BY <1>4 DEF LifecycleInv, Closed, Begun, Past
  <2> QED BY <1>4, <2>1, LifecycleAssumption
          DEF Arrive, Forward, Finish, InHTTP, Open, LifecycleInv, TypeOK, Call
<1>5. ASSUME NEW s \in Server, grpc[s] = "stopped", InRPC(c, s)'
      PROVE  InRPC(c, s)
  BY <1>0, <1>5, LifecycleAssumption
     DEF Arrive, Forward, Finish, InRPC, Open, ServerOf, Backend, LifecycleInv, TypeOK, Call
<1>6. Drained'
  <2>1. \A x \in Caller, s \in {"http"} \cup Server : (Past(x, s)' <=> Past(x, s)) /\ (Mounted(s)' <=> Mounted(s))
    BY <1>0 DEF Past, Mounted, Server
  <2>2. ASSUME NEW x \in Caller, Past(x, "http")', ~late'[x], NEW d \in Call
        PROVE  ~InHTTP(d)'
    <3>1. Past(x, "http") /\ ~late[x]
      BY <1>0, <2>1, <2>2
    <3>2. ~InHTTP(d)
      BY <2>2, <3>1 DEF LifecycleInv, Drained
    <3> QED BY <1>3, <1>4, <3>1, <3>2 DEF Server
  <2>3. ASSUME NEW x \in Caller, NEW s \in Server, Past(x, s)', Mounted(s)'
        PROVE  grpc'[s] = "stopped" /\ (~late'[x] => \A d \in Call : ~InRPC(d, s)')
    <3>1. grpc[s] = "stopped" /\ (~late[x] => \A d \in Call : ~InRPC(d, s))
      BY <2>1, <2>3 DEF LifecycleInv, Drained
    <3> QED BY <1>0, <1>3, <1>5, <3>1
  <2> QED BY <2>2, <2>3 DEF Drained
<1>7. CutOnlyAfterDeadline'
  <2>1. CASE call'[c] \notin {"cut", "failed"} \/ call[c] = "cut"
    BY <1>0, <2>1 DEF LifecycleInv, CutOnlyAfterDeadline
  <2>2. CASE call'[c] \in {"cut", "failed"} /\ call[c] # "cut"
    <3>1. c \in Gateway /\ call[c] = "http" /\ ~Open("bufconn")
      BY <2>2 DEF Arrive, Forward, Finish, LifecycleInv, TypeOK
    <3>2. PICK x \in Caller : Past(x, "http")
      BY <3>1 DEF Open, Backend, Server, LifecycleInv, Closed
    <3>3. late[x]
      BY <3>1, <3>2 DEF LifecycleInv, Drained, InHTTP
    <3> QED BY <1>0, <3>3 DEF LifecycleInv, TypeOK, CutOnlyAfterDeadline
  <2> QED BY <1>0, <2>1, <2>2
<1> QED BY <1>1, <1>2, <1>6, <1>7 DEF LifecycleInv

LEMMA LifecycleInvKeeps == LifecycleInv /\ [Next]_vars => LifecycleInv'
<1> SUFFICES ASSUME LifecycleInv, [Next]_vars PROVE LifecycleInv'
  OBVIOUS
<1>1. CASE Cancel \/ ListenGRPC \/ Announce \/ Return
  BY <1>1, RunKeeps
<1>2. CASE \E l \in Listener : ServeBegins(l) \/ ServeEnds(l)
  BY <1>2, ServeKeeps
<1>3. CASE ListenHTTP \/ Select \/ CallShutdown \/ (\E x \in Caller : DeadlinePasses(x))
  BY <1>3, BeginningKeeps
<1>4. CASE \E x \in Caller : ShutdownStep(x)
  BY <1>4, BeginKeeps, HTTPDrainedKeeps, GracefulStopKeeps, StoppedKeeps, GiveUpKeeps DEF ShutdownStep
<1>5. CASE \E c \in Call : Arrive(c) \/ Forward(c) \/ Finish(c)
  BY <1>5, CallKeeps
<1>6. CASE UNCHANGED vars
  <2>1. UNCHANGED <<cfg, run, cancelled, errCh, health, serve, grpc, http, stage, deadline, late, call>>
    BY <1>6 DEF vars, runVars, shutdownVars
  <2>2. TypeOK' /\ Progress' /\ Kinds'
    BY <2>1 DEF LifecycleInv, TypeOK, Progress, Kinds, Begun
  <2> QED BY <2>1, <2>2, CallsStay
<1> QED BY <1>1, <1>2, <1>3, <1>4, <1>5, <1>6 DEF Next, RunStep

LEMMA LifecycleInvHolds == Spec => []LifecycleInv
BY LifecycleStarts, LifecycleInvKeeps, PTL DEF Spec

-----------------------------------------------------------------------------

(***************************************************************************)
(* The type invariant, for any calls and configurations.                   *)
(***************************************************************************)
THEOREM LifecycleIsTyped == Spec => []TypeOK
<1>1. LifecycleInv => TypeOK
  BY DEF LifecycleInv
<1> QED BY <1>1, LifecycleInvHolds, PTL

(***************************************************************************)
(* Shutdown stops what takes requests before what they depend on           *)
(* (server.go, Shutdown): for any calls and configurations, no call is cut *)
(* and none loses its backend before a deadline has passed.                *)
(***************************************************************************)
THEOREM NobodyIsCutEarly == Spec => []CutOnlyAfterDeadline
<1>1. LifecycleInv => CutOnlyAfterDeadline
  BY DEF LifecycleInv
<1> QED BY <1>1, LifecycleInvHolds, PTL

(***************************************************************************)
(* A Shutdown that returns without an error leaves no call behind, neither *)
(* then nor later, and Run's own leaves health at NOT_SERVING.             *)
(***************************************************************************)
THEOREM CleanShutdownsAreFinal == Spec => []CleanShutdownIsFinal
<1>1. LifecycleInv => CleanShutdownIsFinal
  <2> SUFFICES ASSUME LifecycleInv PROVE CleanShutdownIsFinal
    OBVIOUS
  <2>1. stage["run"] = "done" => ~health
    BY DEF LifecycleInv, Progress, Begun
  <2>2. ASSUME NEW x \in Caller, stage[x] = "done", ~late[x], NEW c \in Call
        PROVE  call[c] \notin {"http", "rpc", "cut"}
    <3>1. ~InHTTP(c) /\ \A s \in Server : Mounted(s) => ~InRPC(c, s)
      BY <2>2 DEF LifecycleInv, Drained, Past, Server
    <3>2. CASE c \in Direct
      BY <3>1, <3>2 DEF LifecycleInv, Kinds, InRPC, ServerOf, Mounted, Server
    <3>3. CASE c \in Gateway
      BY <3>1, <3>3, LifecycleAssumption DEF LifecycleInv, Kinds, InRPC, InHTTP, ServerOf, Backend, Mounted, Server
    <3>4. CASE c \in Route
      BY <3>1, <3>4 DEF LifecycleInv, Kinds, InHTTP
    <3> QED BY <3>2, <3>3, <3>4 DEF Call
  <2> QED BY <2>1, <2>2 DEF CleanShutdownIsFinal
<1> QED BY <1>1, LifecycleInvHolds, PTL

=============================================================================
