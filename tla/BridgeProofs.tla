---------------------------- MODULE BridgeProofs ----------------------------
(***************************************************************************)
(* The endpoints, for any number of requests, sessions, events, ticks and  *)
(* messages, and any lifetime of a session.  The sessions rest on what a   *)
(* caller knows at each of its three calls; the event stream on the mutex  *)
(* and on where the handler is when an error event exists; the upload on   *)
(* the spans of the chunks, each of which begins where the one before it   *)
(* ends, and on what the last read's error says of the rest of the body.   *)
(***************************************************************************)
EXTENDS Bridge, TLAPS

(***************************************************************************)
(* Sessions and the socket                                                 *)
(***************************************************************************)

SessionTypes ==
  /\ now \in Int /\ issued \subseteq Sid
  /\ store \in [Sid -> Int] /\ copy \in [Request -> Int]
  /\ apc \in [Request -> {"idle"} \cup Pending \cup Verdict]
  /\ cookie \in [Request -> Sid \cup {NoCookie, Forged}]
  /\ witnessed \in [Request -> BOOLEAN]

\* What a caller may claim at each of its calls: after Get that the session was
\* live if the check will pass, and from then on that it was.
Claims ==
  \A r \in Request :
    /\ apc[r] \in Pending => cookie[r] \in Sid
    /\ apc[r] = "check" /\ now < copy[r] => witnessed[r]
    /\ apc[r] \in {"touch", "granted"} => witnessed[r]

HandlesOnlyGranted == wsPc = "handle" /\ reauth => apc[SocketCaller] = "granted"

SessionInv == SessionTypes /\ Claims /\ HandlesOnlyGranted

LEMMA SessionStarts ==
  ASSUME SessionInit, wsPc # "handle"
  PROVE  SessionInv
<1>1. witnessed \in [Request -> BOOLEAN]
  BY Zenon DEF SessionInit
<1>2. SessionTypes
  BY <1>1 DEF SessionInit, SessionTypes, Absent
<1> QED
  BY <1>2 DEF SessionInit, SessionInv, Claims, HandlesOnlyGranted, Pending

\* A step of anyone leaves a witness a witness, and a session that is live
\* after it is witnessed by the calls under way.
LEMMA WitnessesStay ==
  ASSUME SessionTypes, Witness
  PROVE  /\ witnessed' \in [Request -> BOOLEAN]
         /\ \A r \in Request : witnessed[r] => witnessed'[r]
         /\ \A r \in Request : apc[r] \in Pending /\ cookie'[r] \in Sid /\ store'[cookie'[r]] > now'
                                  => witnessed'[r]
<1>1. witnessed' \in [Request -> BOOLEAN]
  BY Zenon DEF Witness
<1>2. \A r \in Request : witnessed'[r] = (witnessed[r] \/ (apc[r] \in Pending /\ Live(cookie[r])'))
  BY Zenon DEF Witness
<1> QED
  BY <1>1, <1>2 DEF Live

LEMMA PresentKeeps ==
  ASSUME SessionTypes, Claims, NEW r \in Request, NEW c \in Sid \cup {NoCookie, Forged}, Present(r, c)
  PROVE  /\ SessionTypes' /\ Claims'
         /\ \A q \in Request \ {r} : apc'[q] = apc[q]
<1>1. witnessed' \in [Request -> BOOLEAN]
  <2>1. Live(c) \in BOOLEAN
    BY DEF Live
  <2> QED
    BY <2>1, Zenon DEF Present, SessionTypes
<1>2. /\ apc' \in [Request -> {"idle"} \cup Pending \cup Verdict]
      /\ \A q \in Request \ {r} : /\ apc'[q] = apc[q] /\ cookie'[q] = cookie[q] /\ copy'[q] = copy[q]
                                  /\ witnessed'[q] = witnessed[q]
      /\ apc'[r] \in {"get", "refused", "anonymous"}
      /\ apc'[r] = "get" => cookie'[r] \in Sid
  BY DEF Present, SessionTypes, Pending, Verdict
<1>3. SessionTypes'
  BY <1>1, <1>2 DEF Present, SessionTypes, Absent
<1>4. Claims'
  BY <1>2 DEF Present, Claims, Pending
<1> QED
  BY <1>2, <1>3, <1>4

LEMMA AuthenticateKeeps ==
  ASSUME SessionTypes, Claims, NEW r \in Request, Authenticate(r)
  PROVE  /\ SessionTypes' /\ Claims'
         /\ \A q \in Request : apc[q] = "granted" => apc'[q] = "granted"
<1>1. Witness
  BY DEF Authenticate, Get, Check, Touch
<1>2. /\ apc[r] \in Pending /\ cookie[r] \in Sid /\ now' = now /\ cookie' = cookie
      /\ UNCHANGED issued
      /\ \A q \in Request \ {r} : apc'[q] = apc[q] /\ copy'[q] = copy[q]
  BY DEF Authenticate, Get, Check, Touch, SessionTypes, Claims, Pending
<1>3. /\ store' \in [Sid -> Int] /\ copy' \in [Request -> Int]
      /\ apc' \in [Request -> {"idle"} \cup Pending \cup Verdict]
  BY <1>2, SessionAssumption DEF Authenticate, Get, Check, Touch, SessionTypes, Pending, Verdict, Absent
<1>4. SessionTypes'
  BY <1>1, <1>2, <1>3, WitnessesStay DEF SessionTypes
<1>5. \A q \in Request \ {r} :
        /\ apc'[q] \in Pending => cookie'[q] \in Sid
        /\ apc'[q] = "check" /\ now' < copy'[q] => witnessed'[q]
        /\ apc'[q] \in {"touch", "granted"} => witnessed'[q]
  BY <1>1, <1>2, WitnessesStay DEF Claims
<1>6. CASE Get(r)
  <2>1. apc'[r] = "check" => copy'[r] = store[cookie[r]] /\ store' = store
    BY <1>6 DEF Get, SessionTypes
  <2>2. apc'[r] \in {"refused", "check", "unavailable"}
    BY <1>6 DEF Get, SessionTypes
  <2>3. ASSUME apc'[r] = "check", now' < copy'[r]
        PROVE  witnessed'[r]
    <3>1. store'[cookie'[r]] > now' /\ cookie'[r] \in Sid
      BY <1>2, <2>1, <2>3 DEF SessionTypes
    <3> QED
      BY <1>1, <1>2, <3>1, WitnessesStay
  <2> QED
    BY <1>2, <1>4, <1>5, <2>2, <2>3 DEF Claims, Pending
<1>7. CASE Check(r)
  <2>1. /\ apc[r] = "check" /\ copy' = copy
        /\ apc'[r] = IF now < copy[r] THEN "touch" ELSE "refused"
    BY <1>7 DEF Check, SessionTypes
  <2> QED
    BY <1>1, <1>2, <1>4, <1>5, <2>1, WitnessesStay DEF Claims, SessionTypes
<1>8. CASE Touch(r)
  <2>1. apc[r] = "touch" /\ apc'[r] = "granted"
    BY <1>8 DEF Touch, SessionTypes
  <2> QED
    BY <1>1, <1>2, <1>4, <1>5, <2>1, WitnessesStay DEF Claims
<1> QED
  BY <1>2, <1>6, <1>7, <1>8 DEF Authenticate, Pending

LEMMA SessionAroundKeeps ==
  ASSUME SessionTypes, Claims, SessionAround
  PROVE  SessionTypes' /\ Claims' /\ apc' = apc
<1>1. Witness /\ UNCHANGED <<apc, cookie, copy>> /\ now' \in Int /\ now' >= now
  BY DEF SessionAround, Clock, Issue, Destroy, SessionTypes
<1>2. issued' \subseteq Sid /\ store' \in [Sid -> Int]
  BY SessionAssumption DEF SessionAround, Clock, Issue, Destroy, SessionTypes, Absent
<1>3. SessionTypes'
  BY <1>1, <1>2, WitnessesStay DEF SessionTypes
<1>4. Claims'
  <2>1. \A r \in Request : copy[r] \in Int /\ now \in Int
    BY DEF SessionTypes
  <2> QED
    BY <1>1, <2>1, WitnessesStay DEF Claims
<1> QED
  BY <1>1, <1>3, <1>4

LEMMA ServeKeeps ==
  ASSUME SessionInv, Serve
  PROVE  SessionInv'
<1> USE DEF SessionInv
<1>1. ASSUME UNCHANGED sessionVars
      PROVE  SessionTypes' /\ Claims'
  BY <1>1 DEF sessionVars, SessionTypes, Claims
<1>2. ASSUME NEW s \in Sid, UpgradeAsks(s)
      PROVE  SessionInv'
  BY <1>2, PresentKeeps, SocketAssumption DEF UpgradeAsks, Ask, HandlesOnlyGranted
<1>3. CASE Upgrade
  BY <1>1, <1>3 DEF Upgrade, HandlesOnlyGranted
<1>4. ASSUME NEW kind \in Envelope, ReadMessage(kind)
      PROVE  SessionInv'
  <2>1. /\ UNCHANGED sessionVars /\ UNCHANGED reauth
        /\ wsPc' = wsPc \/ wsPc' = "returned" \/ wsPc' = IF reauth THEN "reauth" ELSE "handle"
    <3>1. CASE kind = "binary"
      BY <1>4, <3>1 DEF ReadMessage, Leave
    <3>2. CASE kind = "malformed"
      BY <1>4, <3>2 DEF ReadMessage
    <3>3. CASE kind = "envelope"
      BY <1>4, <3>3 DEF ReadMessage
    <3> QED
      BY <3>1, <3>2, <3>3 DEF Envelope
  <2>2. SessionTypes' /\ Claims'
    BY <1>1, <2>1
  <2>3. HandlesOnlyGranted'
    BY <1>4, <2>1 DEF ReadMessage, HandlesOnlyGranted
  <2> QED
    BY <2>2, <2>3
<1>5. CASE ReadFails
  BY <1>1, <1>5 DEF ReadFails, Leave, HandlesOnlyGranted
<1>6. CASE Reauth
  <2>1. cookie[SocketCaller] \in Sid \cup {NoCookie, Forged}
    BY SocketAssumption DEF SessionTypes
  <2> QED
    BY <1>6, <2>1, PresentKeeps, SocketAssumption DEF Reauth, Ask, HandlesOnlyGranted
<1>7. CASE ReauthDone
  BY <1>1, <1>7 DEF ReauthDone, Leave, sessionVars, HandlesOnlyGranted
<1>8. CASE Handle
  BY <1>1, <1>8 DEF Handle, Leave, HandlesOnlyGranted
<1> QED
  BY <1>2, <1>3, <1>4, <1>5, <1>6, <1>7, <1>8 DEF Serve

LEMMA SessionInvKeeps ==
  ASSUME SessionInv, [Next]_vars
  PROVE  SessionInv'
<1>1. CASE UNCHANGED <<sessionVars, socketVars>>
  BY <1>1 DEF sessionVars, socketVars, SessionInv, SessionTypes, Claims, HandlesOnlyGranted
<1>2. CASE Serve
  BY <1>2, ServeKeeps
<1>3. CASE PeerStep
  BY <1>3 DEF PeerStep, sessionVars, SessionInv, SessionTypes, Claims, HandlesOnlyGranted
<1>4. CASE Authentication
  <2>1. ASSUME NEW r \in Request \ {SocketCaller}, NEW c \in issued \cup {NoCookie, Forged}, Present(r, c)
        PROVE  SessionTypes' /\ Claims' /\ apc'[SocketCaller] = apc[SocketCaller]
    <3>1. c \in Sid \cup {NoCookie, Forged}
      BY DEF SessionInv, SessionTypes
    <3> QED
      BY <2>1, <3>1, PresentKeeps, SocketAssumption DEF SessionInv
  <2>2. SessionTypes' /\ Claims' /\ (apc[SocketCaller] = "granted" => apc'[SocketCaller] = "granted")
    BY <1>4, <2>1, AuthenticateKeeps, SessionAroundKeeps, SocketAssumption DEF Authentication, SessionInv
  <2> QED
    BY <1>4, <2>2 DEF Authentication, socketVars, SessionInv, HandlesOnlyGranted
<1> QED
  BY <1>1, <1>2, <1>3, <1>4 DEF Next, SSE, UploadHandler, WebSocket, vars

\* A principal is granted only from a session that was live during the call,
\* and a message is handled after Reauth only with such a grant.
THEOREM SessionsAreUsedWhileLive == Spec => []UsedWhileLive
<1>1. Init => SessionInv
  BY SessionStarts DEF Init, SocketInit, SocketIdle
<1>2. SessionInv => UsedWhileLive
  BY DEF SessionInv, Claims, HandlesOnlyGranted, UsedWhileLive
<1> QED
  BY <1>1, <1>2, SessionInvKeeps, PTL DEF Spec

(***************************************************************************)
(* The event stream                                                        *)
(***************************************************************************)

Told == \E i \in DOMAIN wire : wire[i] = "error"
Framing(w) == ssePc[w] \in {"lock", "write", "flush"}
Ended == ssePc["handler"] \in {"stop", "wait", "returned"}
Owed == outcome = "failed" /\ opts.OnError = "default"

\* Each goroutine has frames of its own, and writes with the mutex.
Frames ==
  /\ \A w \in Writer : (Framing(w) => frame[w] # "none") /\ (Using(w) => mu = w)
  /\ frame["handler"] # "comment" /\ frame["ticker"] \in {"none", "comment"}
  /\ ssePc["handler"] = "returned" => ssePc["ticker"] = "off"

\* The error event is the handler's last frame, and is written once.
Telling ==
  /\ Told => frame["handler"] = "error"
  /\ frame["handler"] = "error" => Owed /\ (Framing("handler") \/ Ended)
  /\ frame["handler"] = "error" /\ ssePc["handler"] \in {"lock", "write"} => ~Told
  /\ frame["handler"] = "error" /\ ssePc["handler"] = "flush" => Told
  /\ Ended /\ Owed /\ client # "gone" => Told

InOrder ==
  \A i, j \in DOMAIN wire : wire[i] = "error" /\ wire[j] \in {"event", "retry"} => j < i

StreamInv == SSETypeOK /\ Frames /\ Telling /\ InOrder

LEMMA StreamStarts ==
  ASSUME SSEInit \/ SSEIdle
  PROVE  StreamInv
<1>1. SSETypeOK
  <2>1. opts \in SSEOptions
    <3>1. CASE SSEInit
      BY <3>1 DEF SSEInit
    <3>2. CASE SSEIdle
      <4>1. opts = [KeepAlive |-> FALSE, RetryHint |-> FALSE, OnError |-> "default"]
        BY <3>2 DEF SSEIdle
      <4> QED
        BY <4>1, Zenon DEF SSEOptions
    <3> QED
      BY <3>1, <3>2
  <2>2. /\ ssePc = [handler |-> ssePc["handler"], ticker |-> "off"]
        /\ ssePc["handler"] \in {"idle", "open"}
    BY DEF SSEInit, SSEIdle
  <2>3. /\ frame = [w \in Writer |-> "none"]
        /\ budget = [handler |-> MaxEvents, ticker |-> MaxTicks]
        /\ mu = NoWriter /\ stop = FALSE /\ client = "reading" /\ outcome = "none" /\ wire = <<>>
    BY DEF SSEInit, SSEIdle
  <2>4. ssePc \in [Writer -> {"idle", "open", "spawn", "stream", "report", "stop", "wait",
                             "returned", "off", "select", "lock", "write", "flush"}]
    BY <2>2 DEF Writer
  <2>5. budget \in [Writer -> Nat]
    BY <2>3, EventStreamAssumption DEF Writer
  <2>6. frame \in [Writer -> {"none", "retry", "event", "error", "comment"}]
    BY <2>3
  <2>7. wire \in Seq({"retry", "event", "error", "comment"})
    BY <2>3
  <2> QED
    BY <2>1, <2>3, <2>4, <2>5, <2>6, <2>7 DEF SSETypeOK
<1> QED
  BY <1>1 DEF SSEInit, SSEIdle, StreamInv, Frames, Telling, InOrder, Told, Framing, Ended, Owed,
              Using, Writer

\* What a step that writes nothing, and says who it leaves where, keeps.
LEMMA SilentStepsKeep ==
  ASSUME StreamInv, SSETypeOK', Frames', wire' = wire, opts' = opts,
         frame'["handler"] = "error" => Owed' /\ (Framing("handler") \/ Ended)',
         frame["handler"] = "error" => frame'["handler"] = "error",
         frame'["handler"] = "error" /\ ssePc'["handler"] \in {"lock", "write"} => ~Told,
         frame'["handler"] = "error" /\ ssePc'["handler"] = "flush" => Told,
         (Ended /\ Owed /\ client # "gone")' => Told
  PROVE  StreamInv'
BY DEF StreamInv, Telling, InOrder, Told

LEMMA HandlerKeeps ==
  ASSUME StreamInv,
         SSEOpen \/ SpawnTicker \/ StreamEvent \/ StreamReturn \/ ReportError \/ StopTicker
           \/ HandlerReturn
  PROVE  StreamInv'
<1> USE DEF StreamInv, SSEOpen, SpawnTicker, StreamEvent, StreamReturn, ReportError, StopTicker,
            HandlerReturn, Begin, Goto
<1>1. SSETypeOK'
  <2>1. ssePc' \in [Writer -> {"idle", "open", "spawn", "stream", "report", "stop", "wait",
                              "returned", "off", "select", "lock", "write", "flush"}]
    BY DEF SSETypeOK, Writer
  <2>2. frame' \in [Writer -> {"none", "retry", "event", "error", "comment"}]
    BY DEF SSETypeOK, Writer
  <2>3. budget' \in [Writer -> Nat]
    BY DEF SSETypeOK, Writer
  <2>4. outcome' \in {"none", "done", "failed"} /\ stop' \in BOOLEAN
    BY DEF SSETypeOK
  <2>5. UNCHANGED <<opts, mu, client, wire>>
    OBVIOUS
  <2> QED
    BY <2>1, <2>2, <2>3, <2>4, <2>5 DEF SSETypeOK
<1>2. Frames'
  BY DEF SSETypeOK, Frames, Framing, Using, Writer
<1>3. /\ wire' = wire /\ opts' = opts
      /\ frame'["handler"] = "error" => Owed' /\ (Framing("handler") \/ Ended)'
      /\ frame["handler"] = "error" => frame'["handler"] = "error"
      /\ frame'["handler"] = "error" /\ ssePc'["handler"] \in {"lock", "write"} => ~Told
      /\ frame'["handler"] = "error" /\ ssePc'["handler"] = "flush" => Told
  BY DEF SSETypeOK, Telling, Framing, Ended, Owed, Writer
<1>4. (Ended /\ Owed /\ client # "gone")' => Told
  BY DEF SSETypeOK, Telling, Framing, Ended, Owed, Writer
<1> QED
  BY <1>1, <1>2, <1>3, <1>4, SilentStepsKeep

LEMMA TickerKeeps ==
  ASSUME StreamInv, Ticker
  PROVE  StreamInv'
<1> USE DEF StreamInv, Ticker, Begin, Goto
<1>1. SSETypeOK'
  BY DEF SSETypeOK, Writer
<1>2. Frames'
  BY DEF SSETypeOK, Frames, Framing, Using, Writer
<1>3. UNCHANGED <<wire, opts, client, outcome>> /\ ssePc'["handler"] = ssePc["handler"]
      /\ frame'["handler"] = frame["handler"]
  BY DEF SSETypeOK, Writer
<1> QED
  BY <1>1, <1>2, <1>3, SilentStepsKeep DEF Telling, Framing, Ended, Owed

LEMMA ClientKeeps ==
  ASSUME StreamInv, ClientStep
  PROVE  StreamInv'
<1>1. SSETypeOK' /\ Frames' /\ (client = "gone" => client' = "gone")
  BY DEF StreamInv, ClientStep, SSETypeOK, Frames, Framing, Using
<1> QED
  BY <1>1, SilentStepsKeep DEF StreamInv, ClientStep, Telling, Framing, Ended, Owed

\* What a goroutine writes, and where it goes on.
LEMMA FramesAreOwn ==
  ASSUME StreamInv, NEW w \in Writer, Framing(w)
  PROVE  /\ frame[w] \in {"retry", "event", "error", "comment"}
         /\ After(w) \in {"spawn", "stream", "stop", "select"}
         /\ w = "handler" => After(w) # "select"
         /\ After(w) = "stop" <=> frame[w] = "error"
<1>1. frame[w] \in {"retry", "event", "error", "comment"} /\ (w = "handler" => frame[w] # "comment")
  BY DEF StreamInv, SSETypeOK, Frames, Framing, Using
<1> QED
  BY <1>1 DEF After

LEMMA LockAndFlushKeep ==
  ASSUME StreamInv, NEW w \in Writer, Lock(w) \/ Flush(w)
  PROVE  StreamInv'
<1> USE DEF StreamInv, Lock, Flush, Goto
<1>1. /\ Framing(w) /\ frame[w] \in {"retry", "event", "error", "comment"}
      /\ After(w) \in {"spawn", "stream", "stop", "select"}
      /\ w = "handler" => After(w) # "select"
      /\ After(w) = "stop" <=> frame[w] = "error"
  <2>1. Framing(w)
    BY DEF Framing
  <2> QED
    BY <2>1, FramesAreOwn
<1>2. SSETypeOK'
  BY <1>1 DEF SSETypeOK, Writer, NoWriter
<1>3. Frames'
  BY <1>1 DEF SSETypeOK, Frames, Framing, Using, Writer, NoWriter
<1>4. UNCHANGED <<wire, opts, frame, client, outcome>>
  OBVIOUS
<1>5. CASE w = "handler"
  <2>1. ssePc'["handler"] = IF ssePc["handler"] = "lock" THEN "write" ELSE After(w)
    BY <1>5 DEF SSETypeOK, Writer
  <2> QED
    BY <1>1, <1>2, <1>3, <1>4, <1>5, <2>1, SilentStepsKeep DEF Telling, Framing, Ended, Owed
<1>6. CASE w = "ticker"
  <2>1. ssePc'["handler"] = ssePc["handler"]
    BY <1>6 DEF SSETypeOK, Writer
  <2> QED
    BY <1>2, <1>3, <1>4, <2>1, SilentStepsKeep DEF Telling, Framing, Ended, Owed
<1> QED
  BY <1>5, <1>6 DEF Writer

LEMMA WriteKeeps ==
  ASSUME StreamInv, NEW w \in Writer, Write(w)
  PROVE  StreamInv'
<1> USE DEF StreamInv, Goto
<1>1. /\ ssePc[w] = "write" /\ frame[w] \in {"retry", "event", "error", "comment"}
      /\ After(w) \in {"spawn", "stream", "stop", "select"}
      /\ w = "handler" => After(w) # "select"
      /\ After(w) = "stop" <=> frame[w] = "error"
  <2>1. Framing(w) /\ ssePc[w] = "write"
    BY DEF Framing, Write
  <2> QED
    BY <2>1, FramesAreOwn
<1>2. SSETypeOK'
  <2>1. ssePc' \in [Writer -> {"idle", "open", "spawn", "stream", "report", "stop", "wait",
                              "returned", "off", "select", "lock", "write", "flush"}]
    BY <1>1 DEF Write, SSETypeOK
  <2>2. wire' \in Seq({"retry", "event", "error", "comment"})
    <3>1. wire \in Seq({"retry", "event", "error", "comment"})
      BY DEF SSETypeOK
    <3>2. wire' = wire \/ wire' = Append(wire, frame[w])
      BY DEF Write
    <3> QED
      BY <1>1, <3>1, <3>2
  <2> QED
    BY <2>1, <2>2 DEF Write, SSETypeOK
<1>3. Frames'
  BY <1>1 DEF Write, SSETypeOK, Frames, Framing, Using, Writer, NoWriter
<1>4. UNCHANGED <<opts, frame, client, outcome>>
  BY DEF Write
<1>5. CASE wire' = wire /\ client = "gone" /\ Goto(w, After(w))
  <2>1. ssePc'["handler"] = IF w = "handler" THEN After(w) ELSE ssePc["handler"]
    BY <1>5 DEF SSETypeOK, Writer
  <2> QED
    BY <1>1, <1>2, <1>3, <1>4, <1>5, <2>1, SilentStepsKeep DEF Telling, Framing, Ended, Owed
<1>6. CASE wire' = Append(wire, frame[w]) /\ Goto(w, "flush")
  <2>1. /\ \A i \in DOMAIN wire : i \in DOMAIN wire' /\ wire'[i] = wire[i] /\ i < Len(wire) + 1
        /\ Len(wire) + 1 \in DOMAIN wire' /\ wire'[Len(wire) + 1] = frame[w]
        /\ \A i \in DOMAIN wire' : i \in DOMAIN wire \/ i = Len(wire) + 1
    BY <1>1, <1>6 DEF SSETypeOK
  <2>2. Told' <=> Told \/ frame[w] = "error"
    BY <2>1 DEF Told
  <2>3. ssePc'["handler"] = IF w = "handler" THEN "flush" ELSE ssePc["handler"]
    BY <1>6 DEF SSETypeOK, Writer
  <2>4. w = "ticker" => frame[w] = "comment"
    BY <1>1 DEF Frames
  <2>5. w = "handler" => ~Told
    BY <1>1 DEF Telling, Framing, Ended
  <2>6. Telling'
    BY <1>1, <1>4, <2>2, <2>3, <2>4 DEF Telling, Framing, Ended, Owed, Writer
  <2>7. InOrder'
    <3>1. CASE w = "ticker"
      BY <2>1, <2>4, <3>1 DEF InOrder
    <3>2. CASE w = "handler"
      BY <2>1, <2>5, <3>2, <1>1 DEF InOrder, Told
    <3> QED
      BY <3>1, <3>2 DEF Writer
  <2> QED
    BY <1>2, <1>3, <2>6, <2>7
<1> QED
  BY <1>5, <1>6 DEF Write

LEMMA StreamInvKeeps ==
  ASSUME StreamInv, [Next]_vars
  PROVE  StreamInv'
<1>1. CASE UNCHANGED sseVars
  BY <1>1 DEF sseVars, StreamInv, SSETypeOK, Frames, Telling, InOrder, Told, Framing, Ended, Owed, Using
<1>2. CASE SSENext
  BY <1>2, HandlerKeeps, TickerKeeps, ClientKeeps, LockAndFlushKeep, WriteKeeps DEF SSENext, SSEStep
<1> QED
  BY <1>1, <1>2 DEF Next, SSE, UploadHandler, WebSocket, vars

LEMMA StreamInvHolds == Spec => []StreamInv
<1>1. Init => StreamInv
  BY StreamStarts DEF Init
<1> QED
  BY <1>1, StreamInvKeeps, PTL DEF Spec

\* The response has one user at a time, and none after the handler returned:
\* the ticker is waited for, wherever the callback left it.
THEOREM ResponsesHaveOneUser == Spec => []ResponseHasOneUser
<1>1. StreamInv => ResponseHasOneUser
  BY DEF StreamInv, Frames, ResponseHasOneUser, Using, Framing, Writer
<1> QED
  BY <1>1, StreamInvHolds, PTL

\* The error event of a failed callback reaches a client that listens, after
\* every other event, whatever the ticker writes in between.
THEOREM FailuresAreTold == Spec => []FailureIsTold
<1>1. StreamInv => FailureIsTold
  BY DEF StreamInv, Telling, InOrder, Told, Ended, Owed, FailureIsTold
<1> QED
  BY <1>1, StreamInvHolds, PTL

(***************************************************************************)
(* The upload                                                              *)
(***************************************************************************)

\* The chunks follow each other from the start of the body to what was read,
\* and only the read that ended the loop may have come back short.
Whole ==
  /\ read <= body.arrives /\ read <= body.limit /\ SentUpTo = read
  /\ \A i \in DOMAIN sent :
       /\ sent[i].from = IF i = 1 THEN 0 ELSE sent[i - 1].to
       /\ Size(sent[i]) \in 1..ChunkSize
       /\ i # Len(sent) \/ readErr = "nil" => Size(sent[i]) = ChunkSize

\* What the error of the last read says of the body.
ErrorsTell ==
  /\ readErr \in {"eof", "unexpected"} => read = body.arrives
  /\ readErr = "toolarge" => body.limit < body.arrives
  /\ upPc \in {"idle", "open", "read"} => readErr = "nil"

\* What the handler may do and answer with it.
Answers ==
  /\ upPc = "finalize" \/ finalized => readErr \in {"eof", "unexpected"}
  /\ finalized => upPc = "returned"
  /\ upPc # "returned" => upAnswer = "none"
  /\ upPc = "returned" => /\ upAnswer = "none" => ctxDone
                          /\ upAnswer = "200" => finalized
                          /\ upAnswer = "413" => readErr = "toolarge"

UploadInv == UploadTypeOK /\ Whole /\ ErrorsTell /\ Answers

LEMMA MinOfThree ==
  ASSUME NEW a \in Int, NEW b \in Int, NEW c \in Int
  PROVE  /\ Min({a, b, c}) \in {a, b, c}
         /\ Min({a, b, c}) <= a /\ Min({a, b, c}) <= b /\ Min({a, b, c}) <= c
<1>1. \E x \in {a, b, c} : \A y \in {a, b, c} : x <= y
  <2>1. CASE a <= b /\ a <= c
    BY <2>1
  <2>2. CASE b <= a /\ b <= c
    BY <2>2
  <2>3. CASE c <= a /\ c <= b
    BY <2>3
  <2> QED
    BY <2>1, <2>2, <2>3
<1> QED
  BY <1>1 DEF Min

LEMMA ChunkSizeIsPositive ==
  ASSUME body \in Bodies
  PROVE  ChunkSize \in Nat \ {0}
BY UploadAssumption DEF Bodies, ChunkSize

LEMMA UploadStarts ==
  ASSUME UploadInit \/ UploadIdle
  PROVE  UploadInv
<1>1. body \in Bodies
  <2>1. CASE UploadInit
    BY <2>1 DEF UploadInit
  <2>2. CASE UploadIdle
    <3>1. 0 \in 0..MaxBody
      BY UploadAssumption
    <3> QED
      BY <2>2, <3>1 DEF UploadIdle, Bodies
  <2> QED
    BY <2>1, <2>2
<1>2. UploadTypeOK
  <2> DEFINE Spans == [from : 0..MaxBody, to : 0..MaxBody]
  <2> HIDE DEF Spans
  <2>1. sent \in Seq(Spans)
    <3>1. sent = <<>>
      BY DEF UploadInit, UploadIdle, UploadStart
    <3> QED
      BY <3>1
  <2>2. 0 \in 0..MaxBody
    BY UploadAssumption
  <2> QED
    BY <1>1, <2>1, <2>2 DEF UploadInit, UploadIdle, UploadStart, UploadTypeOK, Spans
<1>3. {body.arrives, body.limit} \subseteq Nat
  BY <1>1 DEF Bodies
<1> QED
  BY <1>2, <1>3, UploadAssumption
     DEF UploadInit, UploadIdle, UploadStart, UploadInv, Whole, ErrorsTell, Answers, SentUpTo

\* A read: n more units, and an error exactly when they do not fill a chunk.
LEMMA ReadFullKeeps ==
  ASSUME UploadInv, ReadFull
  PROVE  UploadInv'
<1> DEFINE n == Min({ChunkSize, body.arrives - read, body.limit - read})
           span == [from |-> read, to |-> read + n]
<1>1. /\ body \in Bodies /\ {body.arrives, body.limit} \subseteq 0..MaxBody
      /\ ChunkSize \in Nat \ {0} /\ read \in 0..MaxBody
      /\ upPc = "read" /\ readErr = "nil" /\ upAnswer = "none" /\ ~finalized
      /\ UNCHANGED <<body, finalized, upAnswer>> /\ ChunkSize' = ChunkSize
  BY ChunkSizeIsPositive
     DEF UploadInv, UploadTypeOK, ErrorsTell, Answers, ReadFull, Bodies, ChunkSize
<1>2. /\ n \in {ChunkSize, body.arrives - read, body.limit - read}
      /\ n <= ChunkSize /\ n <= body.arrives - read /\ n <= body.limit - read
  <2>1. {ChunkSize, body.arrives - read, body.limit - read} \subseteq Int
    BY <1>1, UploadAssumption
  <2> QED
    BY <2>1, MinOfThree, Zenon
<1>3. n \in Nat
  BY <1>1, <1>2, UploadAssumption DEF UploadInv, Whole
<1>4. /\ read' = read + n /\ readErr' = ReadError(n)
      /\ upPc' = IF n > 0 THEN "send" ELSE "judge"
      /\ sent' = IF n > 0 THEN Append(sent, span) ELSE sent
      /\ ctxDone' \in BOOLEAN
  BY DEF ReadFull, UploadInv, UploadTypeOK
<1> HIDE DEF n
<1>5. /\ readErr' \in {"nil", "eof", "unexpected", "toolarge", "aborted"}
      /\ readErr' = "nil" <=> n = ChunkSize
      /\ readErr' \in {"eof", "unexpected"} => body.arrives <= body.limit
      /\ readErr' = "toolarge" => body.limit < body.arrives
  <2>1. {body.arrives, body.limit, n, ChunkSize} \subseteq Int
    BY <1>1, <1>3, UploadAssumption
  <2> QED
    BY <1>1, <1>4, <2>1 DEF ReadError
<1>6. read' \in 0..MaxBody /\ read' <= body.arrives /\ read' <= body.limit
  BY <1>1, <1>2, <1>3, <1>4, UploadAssumption
<1>7. sent \in Seq([from : 0..MaxBody, to : 0..MaxBody]) /\ span \in [from : 0..MaxBody, to : 0..MaxBody]
  BY <1>1, <1>4, <1>6 DEF UploadInv, UploadTypeOK
<1>8. UploadTypeOK'
  <2>1. sent' \in Seq([from : 0..MaxBody, to : 0..MaxBody])
    <3> DEFINE Spans == [from : 0..MaxBody, to : 0..MaxBody]
    <3> HIDE DEF Spans, span
    <3>1. sent \in Seq(Spans) /\ span \in Spans
      BY <1>7 DEF Spans
    <3>2. sent' \in Seq(Spans)
      BY <1>4, <3>1
    <3> QED
      BY <3>2 DEF Spans
  <2>2. upPc' \in {"send", "judge"}
    BY <1>4
  <2> QED
    BY <1>1, <1>4, <1>5, <1>6, <2>1, <2>2, Zenon DEF UploadInv, UploadTypeOK
<1>9. Whole'
  <2>1. /\ SentUpTo = read
        /\ \A i \in DOMAIN sent : /\ sent[i].from = IF i = 1 THEN 0 ELSE sent[i - 1].to
                                  /\ Size(sent[i]) = ChunkSize
    BY <1>1 DEF UploadInv, Whole
  <2>2. CASE n > 0
    <3>1. /\ Len(sent') = Len(sent) + 1 /\ sent'[Len(sent) + 1] = span
          /\ \A i \in DOMAIN sent : sent'[i] = sent[i] /\ i \in 1..Len(sent)
          /\ DOMAIN sent' = 1..(Len(sent) + 1) /\ Len(sent) \in Nat
          /\ DOMAIN sent = 1..Len(sent)
      BY <1>4, <1>7, <2>2
    <3>2. SentUpTo' = read'
      BY <1>4, <3>1 DEF SentUpTo
    <3>3. span.from = IF Len(sent) = 0 THEN 0 ELSE sent[Len(sent)].to
      BY <1>7, <2>1 DEF SentUpTo
    <3>4. Size(span) = n
      BY <1>1, <1>3 DEF Size
    <3>5. ASSUME NEW i \in DOMAIN sent'
          PROVE  /\ sent'[i].from = IF i = 1 THEN 0 ELSE sent'[i - 1].to
                 /\ Size(sent'[i]) \in 1..ChunkSize
                 /\ i # Len(sent') \/ readErr' = "nil" => Size(sent'[i]) = ChunkSize
      <4>1. CASE i = Len(sent) + 1
        <5>1. sent'[i].from = IF i = 1 THEN 0 ELSE sent'[i - 1].to
          BY <3>1, <3>3, <4>1
        <5> QED
          BY <1>1, <1>2, <1>3, <1>5, <2>2, <3>1, <3>4, <4>1, <5>1
      <4>2. CASE i \in DOMAIN sent
        <5>1. sent'[i] = sent[i] /\ (i # 1 => i - 1 \in DOMAIN sent)
          BY <3>1, <4>2
        <5> QED
          BY <1>1, <2>1, <3>1, <4>2, <5>1
      <4> QED
        BY <3>1, <4>1, <4>2
    <3> QED
      BY <1>1, <1>6, <3>2, <3>5, Zenon DEF Whole, Size
  <2>3. CASE n = 0
    <3>1. sent' = sent /\ read' = read
      BY <1>1, <1>3, <1>4, <2>3
    <3> QED
      BY <1>1, <1>6, <2>1, <3>1 DEF Whole, SentUpTo, Size
  <2> QED
    BY <1>3, <2>2, <2>3
<1>10. ErrorsTell'
  <2>1. readErr' \in {"eof", "unexpected"} => read' = body.arrives
    BY <1>1, <1>2, <1>4, <1>5, UploadAssumption
  <2> QED
    BY <1>1, <1>4, <1>5, <2>1 DEF ErrorsTell
<1>11. Answers'
  BY <1>1, <1>4 DEF Answers
<1> QED
  BY <1>8, <1>9, <1>10, <1>11 DEF UploadInv

LEMMA UploadStepsKeep ==
  ASSUME UploadInv, Open \/ Send \/ Judge \/ Finalize \/ UploaderLeaves
  PROVE  UploadInv'
<1> USE DEF UploadInv
<1>1. UNCHANGED <<body, read, sent, readErr>>
  BY DEF Open, Send, Judge, Finalize, UploaderLeaves
<1>2. Whole'
  BY <1>1 DEF Whole, SentUpTo, ChunkSize, Size
<1>3. CASE Open
  BY <1>1, <1>2, <1>3
     DEF Open, UploadTypeOK, ErrorsTell, Answers, writeStreamError, Return, CallError
<1>4. CASE Send
  BY <1>1, <1>2, <1>4
     DEF Send, UploadTypeOK, ErrorsTell, Answers, CallFails, writeStreamError, Return, CallError
<1>5. CASE Judge
  <2>1. /\ upPc = "judge" /\ UNCHANGED <<ctxDone, finalized>>
        /\ \/ readErr = "nil" /\ upPc' = "read" /\ UNCHANGED upAnswer
           \/ readErr \in {"eof", "unexpected"} /\ upPc' = "finalize" /\ UNCHANGED upAnswer
           \/ readErr = "toolarge" /\ Return("413")
           \/ readErr = "aborted" /\ CallFails("plain")
    BY <1>5 DEF Judge, UploadTypeOK
  <2> QED
    BY <1>1, <1>2, <2>1
       DEF UploadTypeOK, ErrorsTell, Answers, CallFails, writeStreamError, Return
<1>6. CASE Finalize
  BY <1>1, <1>2, <1>6
     DEF Finalize, UploadTypeOK, ErrorsTell, Answers, CallFails, writeStreamError, Return, CallError
<1>7. CASE UploaderLeaves
  BY <1>1, <1>2, <1>7 DEF UploaderLeaves, UploadTypeOK, ErrorsTell, Answers
<1> QED
  BY <1>3, <1>4, <1>5, <1>6, <1>7

LEMMA UploadInvHolds == Spec => []UploadInv
<1>1. Init => UploadInv
  BY UploadStarts DEF Init
<1>2. UploadInv /\ [Next]_vars => UploadInv'
  <2> SUFFICES ASSUME UploadInv, [Next]_vars
               PROVE  UploadInv'
    OBVIOUS
  <2>1. CASE UploadNext
    BY <2>1, ReadFullKeeps, UploadStepsKeep DEF UploadNext
  <2>2. CASE UNCHANGED uploadVars
    <3>1. UploadTypeOK'
      BY <2>2 DEF uploadVars, UploadInv, UploadTypeOK
    <3> QED
      BY <2>2, <3>1
         DEF uploadVars, UploadInv, Whole, ErrorsTell, Answers, SentUpTo, ChunkSize, Size
  <2> QED
    BY <2>1, <2>2 DEF Next, SSE, UploadHandler, WebSocket, vars
<1> QED
  BY <1>1, <1>2, PTL DEF Spec

\* Whatever the length of the body, the size of the chunks and the limit, and
\* wherever the transfer stops or a call fails: what is finalized was sent
\* whole, in order and in full chunks, and an answer tells how it ended.
THEOREM UploadsAreSentWhole == Spec => []UploadSendsEverything
<1>1. UploadInv => UploadSendsEverything
  <2> SUFFICES ASSUME UploadInv
               PROVE  UploadSendsEverything
    OBVIOUS
  <2>1. finalized => read = body.arrives /\ SentUpTo = body.arrives /\ body.arrives <= body.limit
    BY DEF UploadInv, Whole, ErrorsTell, Answers
  <2> QED
    BY <2>1, Zenon DEF UploadInv, Whole, ErrorsTell, Answers, UploadSendsEverything
<1> QED
  BY <1>1, UploadInvHolds, PTL

(***************************************************************************)
(* The shape of the state of all three                                     *)
(***************************************************************************)

Instants == {Absent} \cup 0..(MaxTime + TTL)

LEMMA SessionStepsAreTyped ==
  ASSUME SessionTypeOK, Claims,
         \/ SessionAround
         \/ \E r \in Request : Authenticate(r)
         \/ \E r \in Request, c \in Sid \cup {NoCookie, Forged} : Present(r, c)
         \/ UNCHANGED sessionVars
  PROVE  SessionTypeOK'
<1>1. SessionTypes
  BY SessionAssumption DEF SessionTypeOK, SessionTypes, Absent
<1>2. /\ now \in 0..MaxTime /\ Instants \subseteq Int
      /\ \A t \in 0..MaxTime : t + TTL \in Instants
      /\ store \in [Sid -> Instants] /\ copy \in [Request -> Instants]
  BY SessionAssumption DEF SessionTypeOK, Instants, Absent
<1>3. Absent \in Instants
  BY DEF Instants
<1> HIDE DEF Instants
<1>4. /\ now' \in 0..MaxTime /\ issued' \subseteq Sid
      /\ store' \in [Sid -> Instants] /\ copy' \in [Request -> Instants]
      /\ apc' \in [Request -> {"idle"} \cup Pending \cup Verdict]
      /\ cookie' \in [Request -> Sid \cup {NoCookie, Forged}]
      /\ witnessed' \in [Request -> BOOLEAN]
  <2>1. CASE SessionAround
    <3>1. Witness /\ UNCHANGED <<apc, cookie, copy>>
      BY <2>1 DEF SessionAround, Clock, Issue, Destroy
    <3>2. now' \in 0..MaxTime /\ issued' \subseteq Sid
      BY <1>2, <2>1, SessionAssumption DEF SessionAround, Clock, Issue, Destroy, SessionTypeOK
    <3>3. store' \in [Sid -> Instants]
      BY <1>2, <1>3, <2>1 DEF SessionAround, Clock, Issue, Destroy
    <3> QED
      BY <1>1, <1>2, <3>1, <3>2, <3>3, WitnessesStay DEF SessionTypeOK
  <2>2. CASE \E r \in Request : Authenticate(r)
    <3> PICK r \in Request : Authenticate(r)
      BY <2>2
    <3>1. Witness /\ UNCHANGED <<now, issued, cookie>> /\ cookie[r] \in Sid
      BY DEF Authenticate, Get, Check, Touch, Claims, Pending
    <3>2. store' \in [Sid -> Instants] /\ copy' \in [Request -> Instants]
      BY <1>2, <3>1 DEF Authenticate, Get, Check, Touch
    <3>3. apc' \in [Request -> {"idle"} \cup Pending \cup Verdict]
      BY DEF Authenticate, Get, Check, Touch, SessionTypeOK, Pending, Verdict
    <3> QED
      BY <1>1, <1>2, <3>1, <3>2, <3>3, WitnessesStay DEF SessionTypeOK
  <2>3. CASE \E r \in Request, c \in Sid \cup {NoCookie, Forged} : Present(r, c)
    <3> PICK r \in Request, c \in Sid \cup {NoCookie, Forged} : Present(r, c)
      BY <2>3
    <3>1. SessionTypes' /\ UNCHANGED <<now, store, issued>>
      BY <1>1, PresentKeeps DEF Present
    <3>2. copy' \in [Request -> Instants]
      BY <1>2, <1>3 DEF Present
    <3> QED
      BY <1>2, <3>1, <3>2 DEF SessionTypes
  <2>4. CASE UNCHANGED sessionVars
    BY <1>2, <2>4 DEF sessionVars, SessionTypeOK
  <2> QED
    BY <2>1, <2>2, <2>3, <2>4
<1> QED
  BY <1>4 DEF SessionTypeOK, Instants

\* What reading a message does, whichever it is.
LEMMA ReadMessageDoes ==
  ASSUME NEW kind \in Envelope, ReadMessage(kind)
  PROVE  /\ messages > 0 /\ messages' = messages - 1
         /\ UNCHANGED <<reauth, peer, ctxEnded>> /\ UNCHANGED sessionVars
         /\ wsPc' \in {wsPc, "returned", "reauth", "handle"}
         /\ closeCode' \in {closeCode, 1003} /\ result' \in {result, "binary"}
         /\ wsOut' = wsOut \/ wsOut' = Append(wsOut, "malformed")
<1>1. CASE kind = "binary"
  BY <1>1 DEF ReadMessage, Leave
<1>2. CASE kind = "malformed"
  BY <1>2 DEF ReadMessage
<1>3. CASE kind = "envelope"
  BY <1>3 DEF ReadMessage
<1> QED
  BY <1>1, <1>2, <1>3 DEF Envelope

\* And its failure.
LEMMA ReadFailsDoes ==
  ASSUME ReadFails
  PROVE  /\ wsPc' = "returned" /\ closeCode' = 0 /\ result' \in {"context", "nil", "broken"}
         /\ UNCHANGED <<reauth, peer, ctxEnded, messages, wsOut>> /\ UNCHANGED sessionVars
<1>1. CASE ctxEnded
  BY <1>1 DEF ReadFails, Leave
<1>2. CASE ~ctxEnded
  BY <1>2 DEF ReadFails, Leave
<1> QED
  BY <1>1, <1>2

LEMMA PeersEndContexts ==
  ASSUME ctxEnded \in BOOLEAN, PeerStep
  PROVE  ctxEnded' \in BOOLEAN
<1>1. ctxEnded' = ctxEnded \/ ctxEnded' = TRUE
  BY DEF PeerStep
<1> QED
  BY <1>1, Zenon

LEMMA SocketStepsAreTyped ==
  ASSUME SocketTypeOK, Serve \/ PeerStep \/ UNCHANGED socketVars
  PROVE  SocketTypeOK'
<1> USE DEF SocketTypeOK
<1>1. CASE \E kind \in Envelope : ReadMessage(kind)
  <2> PICK kind \in Envelope : ReadMessage(kind)
    BY <1>1
  <2>1. messages' \in 0..MaxMessages
    BY ReadMessageDoes, SocketAssumption
  <2>2. wsOut' \in Seq({"malformed", "internal"})
    BY ReadMessageDoes
  <2> QED
    BY <2>1, <2>2, ReadMessageDoes
<1>2. CASE ReadFails
  BY <1>2, ReadFailsDoes
<1>3. CASE (\E s \in Sid : UpgradeAsks(s)) \/ Upgrade \/ Reauth \/ ReauthDone
  BY <1>3 DEF UpgradeAsks, Upgrade, Reauth, ReauthDone, Leave
<1>4. CASE Handle
  <2>1. wsOut' \in Seq({"malformed", "internal"})
    BY <1>4 DEF Handle
  <2> QED
    BY <1>4, <2>1 DEF Handle, Leave
<1>5. CASE PeerStep
  <2>1. peer' \in {"open", "closed", "broken"}
    BY <1>5 DEF PeerStep
  <2>2. ctxEnded' \in BOOLEAN
    BY <1>5, PeersEndContexts
  <2>3. UNCHANGED <<reauth, wsPc, messages, wsOut, closeCode, result>>
    BY <1>5 DEF PeerStep
  <2> QED
    BY <2>1, <2>2, <2>3
<1>6. CASE UNCHANGED socketVars
  <2>1. UNCHANGED <<reauth, wsPc, peer, ctxEnded, messages, wsOut, closeCode, result>>
    BY <1>6 DEF socketVars
  <2> QED
    BY <2>1
<1> QED
  BY <1>1, <1>2, <1>3, <1>4, <1>5, <1>6 DEF Serve

LEMMA SocketStarts ==
  ASSUME SocketInit \/ SocketIdle
  PROVE  SocketTypeOK
<1>1. wsOut \in Seq({"malformed", "internal"})
  <2>1. wsOut = <<>>
    BY DEF SocketInit, SocketIdle
  <2> QED
    BY <2>1
<1>2. messages \in 0..MaxMessages
  BY SocketAssumption DEF SocketInit, SocketIdle
<1>3. reauth \in BOOLEAN /\ ctxEnded \in BOOLEAN
  BY DEF SocketInit, SocketIdle
<1> QED
  BY <1>1, <1>2, <1>3 DEF SocketInit, SocketIdle, SocketTypeOK

\* The state of all three endpoints keeps its shape: the clock and the rows of
\* the store stay within the lifetime of a session, for any lifetime.
THEOREM EndpointsAreTyped == Spec => []TypeOK
<1> DEFINE Typed == endpoint \in {"sse", "upload", "ws"} /\ SessionTypeOK /\ SocketTypeOK
<1>1. Init => Typed
  <2> SUFFICES ASSUME Init
               PROVE  Typed
    OBVIOUS
  <2>1. SocketTypeOK /\ endpoint \in {"sse", "upload", "ws"}
    BY SocketStarts DEF Init
  <2>2. witnessed \in [Request -> BOOLEAN]
    BY Zenon DEF Init, SessionInit
  <2>3. SessionTypeOK
    BY <2>2, SessionAssumption DEF Init, SessionInit, SessionTypeOK, Absent
  <2> QED
    BY <2>1, <2>3
<1>2. Typed /\ SessionInv /\ [Next]_vars => Typed'
  <2> SUFFICES ASSUME Typed, SessionInv, [Next]_vars
               PROVE  Typed'
    OBVIOUS
  <2>1. endpoint' \in {"sse", "upload", "ws"}
    BY DEF Next, SSE, UploadHandler, WebSocket, vars
  <2>2. Serve \/ PeerStep \/ UNCHANGED socketVars
    BY DEF Next, SSE, UploadHandler, WebSocket, Authentication, vars
  <2>3. \/ SessionAround
        \/ \E r \in Request : Authenticate(r)
        \/ \E r \in Request, c \in Sid \cup {NoCookie, Forged} : Present(r, c)
        \/ UNCHANGED sessionVars
    <3>1. CASE Serve
      <4>1. cookie[SocketCaller] \in Sid \cup {NoCookie, Forged} /\ SocketCaller \in Request
        BY SocketAssumption DEF SessionTypeOK
      <4> QED
        BY <3>1, <4>1, ReadMessageDoes, ReadFailsDoes
           DEF Serve, UpgradeAsks, Upgrade, Reauth, ReauthDone, Handle, Ask
    <3>2. CASE Authentication
      BY <3>2 DEF Authentication, SessionTypeOK
    <3>3. CASE PeerStep \/ UNCHANGED sessionVars
      BY <3>3 DEF PeerStep
    <3> QED
      BY <3>1, <3>2, <3>3 DEF Next, SSE, UploadHandler, WebSocket, vars
  <2> QED
    BY <2>1, <2>2, <2>3, SessionStepsAreTyped, SocketStepsAreTyped DEF SessionInv
<1>3. Spec => []SessionInv
  <2>1. Init => SessionInv
    BY SessionStarts DEF Init, SocketInit, SocketIdle
  <2> QED
    BY <2>1, SessionInvKeeps, PTL DEF Spec
<1>4. Typed /\ StreamInv /\ UploadInv => TypeOK
  BY DEF StreamInv, UploadInv, TypeOK
<1> QED
  BY <1>1, <1>2, <1>3, <1>4, StreamInvHolds, UploadInvHolds, PTL DEF Spec

=============================================================================
