------------------------------- MODULE Socket ------------------------------
(***************************************************************************)
(* bridge/ws.go, WSSession.Serve: the read loop of a WebSocket that was    *)
(* upgraded with a session's cookie.  With Reauth configured, every        *)
(* message is preceded by a call of the session authenticator; without,    *)
(* the authentication at the upgrade is all there is.  The socket shares   *)
(* the session store with the requests of module Session.                  *)
(***************************************************************************)
EXTENDS Session, Sequences

CONSTANTS
  SocketCaller,  \* the member of Request that is the socket
  MaxMessages    \* bound on the messages the client sends

ASSUME SocketAssumption == SocketCaller \in Request /\ MaxMessages \in Nat

\* The messages Read may return.
Envelope == {"envelope", "malformed", "binary"}

VARIABLES
  reauth,        \* WSOptions.Reauth is configured
  wsPc,          \* where Serve stands
  peer,          \* the client: open, closed (it said so), broken
  ctxEnded,      \* the context of Serve is done
  messages,      \* messages the client may still send
  wsOut,         \* the error envelopes written to the client
  closeCode,     \* the code Serve closed with, or 0
  result         \* what Serve returned

socketVars == <<reauth, wsPc, peer, ctxEnded, messages, wsOut, closeCode, result>>

-----------------------------------------------------------------------------

SocketIdle ==
  /\ reauth = FALSE
  /\ wsPc = "idle" /\ peer = "open" /\ ctxEnded = FALSE /\ messages = 0
  /\ wsOut = <<>> /\ closeCode = 0 /\ result = "none"

SocketInit ==
  /\ reauth \in BOOLEAN
  /\ wsPc = "upgrade" /\ peer = "open" /\ ctxEnded = FALSE /\ messages = MaxMessages
  /\ wsOut = <<>> /\ closeCode = 0 /\ result = "none"

\* The authenticator is asked for the socket's principal.
Ask(c) == Present(SocketCaller, c)

Answered == apc[SocketCaller] \in Verdict

Leave(code, err) == wsPc' = "returned" /\ closeCode' = code /\ result' = err

\* The upgrade passes the authentication middleware first.
UpgradeAsks(s) ==
  /\ wsPc = "upgrade" /\ s \in issued
  /\ Ask(s) /\ wsPc' = "upgrading"
  /\ UNCHANGED <<reauth, peer, ctxEnded, messages, wsOut, closeCode, result>>

Upgrade ==
  /\ wsPc = "upgrading" /\ Answered
  /\ wsPc' = IF apc[SocketCaller] = "granted" THEN "read" ELSE "returned"
  /\ UNCHANGED <<reauth, peer, ctxEnded, messages, wsOut, closeCode, result>>
  /\ UNCHANGED sessionVars

\* Read returns a message.
ReadMessage(kind) ==
  /\ wsPc = "read" /\ peer = "open" /\ ~ctxEnded /\ messages > 0
  /\ messages' = messages - 1
  /\ CASE kind = "binary"    -> Leave(1003, "binary") /\ UNCHANGED wsOut
       [] kind = "malformed" -> /\ wsOut' = Append(wsOut, "malformed")
                                /\ UNCHANGED <<wsPc, closeCode, result>>
       [] kind = "envelope"  -> /\ wsPc' = IF reauth THEN "reauth" ELSE "handle"
                                /\ UNCHANGED <<wsOut, closeCode, result>>
  /\ UNCHANGED <<reauth, peer, ctxEnded>> /\ UNCHANGED sessionVars

\* Read returns an error: the context's own, nil for a close frame, or wrapped.
ReadFails ==
  /\ wsPc = "read" /\ (ctxEnded \/ peer # "open")
  /\ Leave(0, CASE ctxEnded -> "context" [] ~ctxEnded /\ peer = "closed" -> "nil"
                [] OTHER -> "broken")
  /\ UNCHANGED <<reauth, peer, ctxEnded, messages, wsOut>> /\ UNCHANGED sessionVars

Reauth ==
  /\ wsPc = "reauth"
  /\ Ask(cookie[SocketCaller]) /\ wsPc' = "reauthing"
  /\ UNCHANGED <<reauth, peer, ctxEnded, messages, wsOut, closeCode, result>>

ReauthDone ==
  /\ wsPc = "reauthing" /\ Answered
  /\ IF apc[SocketCaller] = "granted"
     THEN wsPc' = "handle" /\ UNCHANGED <<closeCode, result>>
     ELSE Leave(1008, "unauthenticated")
  /\ UNCHANGED <<reauth, peer, ctxEnded, messages, wsOut>> /\ UNCHANGED sessionVars

\* The application's handler; its error is answered with a generic envelope.
Handle ==
  /\ wsPc = "handle"
  /\ \/ wsPc' = "read" /\ UNCHANGED <<wsOut, closeCode, result>>
     \/ Leave(1011, "handler") /\ wsOut' = Append(wsOut, "internal")
  /\ UNCHANGED <<reauth, peer, ctxEnded, messages>> /\ UNCHANGED sessionVars

\* The client closes or its connection breaks; the caller cancels Serve.
PeerStep ==
  /\ wsPc \notin {"idle", "returned"}
  /\ \/ peer = "open" /\ peer' \in {"closed", "broken"} /\ UNCHANGED ctxEnded
     \/ ctxEnded = FALSE /\ ctxEnded' = TRUE /\ UNCHANGED peer
  /\ UNCHANGED <<reauth, wsPc, messages, wsOut, closeCode, result>> /\ UNCHANGED sessionVars

Serve ==
  \/ \E s \in Sid : UpgradeAsks(s)
  \/ Upgrade
  \/ \E kind \in Envelope : ReadMessage(kind)
  \/ ReadFails \/ Reauth \/ ReauthDone \/ Handle

-----------------------------------------------------------------------------

SocketTypeOK ==
  /\ reauth \in BOOLEAN
  /\ wsPc \in {"idle", "upgrade", "upgrading", "read", "reauth", "reauthing", "handle", "returned"}
  /\ peer \in {"open", "closed", "broken"}
  /\ ctxEnded \in BOOLEAN
  /\ messages \in 0..MaxMessages
  /\ wsOut \in Seq({"malformed", "internal"})
  /\ closeCode \in {0, 1003, 1008, 1011}
  /\ result \in {"none", "nil", "context", "broken", "binary", "unauthenticated", "handler"}

(***************************************************************************)
(* A principal is granted only from a session that was in the store and    *)
(* not expired at some moment of the very call (session.go:151-161): what  *)
(* a logout or the clock ended before the call began is never accepted,    *)
(* however the Get, the check and the Touch of other calls fall between,   *)
(* although Touch, which may come after the logout, extends what it finds. *)
(* And a socket with Reauth hands a message to its handler only after such *)
(* a call that began after the message was read (ws.go:118-123): a logout, *)
(* an expiry or a store that does not answer closes it instead.            *)
(***************************************************************************)
UsedWhileLive ==
  /\ \A r \in Request : apc[r] = "granted" => witnessed[r]
  /\ wsPc = "handle" /\ reauth => apc[SocketCaller] = "granted"

=============================================================================
