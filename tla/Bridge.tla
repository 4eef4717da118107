------------------------------- MODULE Bridge ------------------------------
(***************************************************************************)
(* bridge/: the three endpoints an application mounts on extra routes, an  *)
(* event stream, an upload and a WebSocket, each one request at a time;    *)
(* the WebSocket lives beside other requests on the same sessions.  The    *)
(* endpoints share no state, so a behaviour is one of the three.           *)
(***************************************************************************)
EXTENDS EventStream, Upload, Socket

VARIABLE endpoint

vars == <<endpoint, sseVars, uploadVars, sessionVars, socketVars>>

-----------------------------------------------------------------------------

Init ==
  /\ endpoint \in {"sse", "upload", "ws"}
  /\ IF endpoint = "sse" THEN SSEInit ELSE SSEIdle
  /\ IF endpoint = "upload" THEN UploadInit ELSE UploadIdle
  /\ IF endpoint = "ws" THEN SocketInit ELSE SocketIdle
  /\ SessionInit

SSE ==
  /\ endpoint = "sse" /\ SSENext
  /\ UNCHANGED <<endpoint, uploadVars, sessionVars, socketVars>>

UploadHandler ==
  /\ endpoint = "upload" /\ UploadNext
  /\ UNCHANGED <<endpoint, sseVars, sessionVars, socketVars>>

\* The calls of the socket and of the requests beside it.
Authentication ==
  /\ \/ SessionAround
     \/ \E r \in Request : Authenticate(r)
     \/ \E r \in Request \ {SocketCaller}, c \in issued \cup {NoCookie, Forged} : Present(r, c)
  /\ UNCHANGED socketVars

WebSocket ==
  /\ endpoint = "ws" /\ (Serve \/ PeerStep \/ Authentication)
  /\ UNCHANGED <<endpoint, sseVars, uploadVars>>

Next == SSE \/ UploadHandler \/ WebSocket

\* Goroutines and mutexes are scheduled fairly; the client owes nothing.
Spec == Init /\ [][Next]_vars /\ SSEFairness

-----------------------------------------------------------------------------

\* The shape of the state.
TypeOK ==
  /\ endpoint \in {"sse", "upload", "ws"}
  /\ SSETypeOK /\ UploadTypeOK /\ SessionTypeOK /\ SocketTypeOK

=============================================================================
