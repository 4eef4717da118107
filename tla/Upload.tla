------------------------------ MODULE Upload -------------------------------
(***************************************************************************)
(* bridge/upload.go: an HTTP body is read in chunks and sent, chunk by     *)
(* chunk, to a client-streaming call, which is finalized when the body     *)
(* ends.  The body has "length" units, of which "arrives" reach the        *)
(* server; the route's limit (http.MaxBytesReader) lets "limit" through.   *)
(* A body that stops early ends in one of two ways: "cut" is net/http's    *)
(* io.ErrUnexpectedEOF of an HTTP/1 connection that closes (the context of *)
(* the request is still live: net/http watches the connection only once    *)
(* the body is read), "aborted" is any other read error.                   *)
(***************************************************************************)
EXTENDS Integers, Sequences, FiniteSetsExt

CONSTANTS
  MaxBody,        \* bound on the units of a body
  DefaultChunk    \* stands for the default ChunkSize of 1 MiB

ASSUME UploadAssumption == MaxBody \in Nat /\ DefaultChunk \in Nat \ {0}

Bodies == {b \in [length  : 0..MaxBody, arrives : 0..MaxBody, limit : 0..MaxBody,
                  chunk   : 0..MaxBody, ending  : {"whole", "cut", "aborted"}] :
             IF b.ending = "whole" THEN b.arrives = b.length ELSE b.arrives < b.length}

\* What a call on the stream may return besides nil: an error with a status
\* code, or one without.
CallError == {"status", "plain"}

VARIABLES
  body,          \* a member of Bodies
  upPc,          \* where the handler stands
  read,          \* the units read from the body
  sent,          \* the chunks given to Send, each the span of the body it carries
  readErr,       \* what the last read returned
  ctxDone,       \* the request's context is done
  finalized,     \* Finalize was called and succeeded
  upAnswer       \* what was written to the client

uploadVars == <<body, upPc, read, sent, readErr, ctxDone, finalized, upAnswer>>

-----------------------------------------------------------------------------

UploadStart(at) ==
  /\ upPc = at /\ read = 0 /\ sent = <<>> /\ readErr = "nil"
  /\ ctxDone = FALSE /\ finalized = FALSE /\ upAnswer = "none"

UploadIdle ==
  /\ body = [length |-> 0, arrives |-> 0, limit |-> 0, chunk |-> 0, ending |-> "whole"]
  /\ UploadStart("idle")

UploadInit == body \in Bodies /\ UploadStart("open")

ChunkSize == IF body.chunk = 0 THEN DefaultChunk ELSE body.chunk

\* writeStreamError: an error without a code is answered as Internal.
writeStreamError(err) == IF err = "status" THEN "mapped" ELSE "internal"

Return(answer) ==
  /\ upPc' = "returned" /\ upAnswer' = answer

\* An error of Send or Finalize; silent when the client has left.
CallFails(err) == Return(IF ctxDone THEN "none" ELSE writeStreamError(err))

Open ==
  /\ upPc = "open"
  /\ \/ upPc' = "read" /\ UNCHANGED upAnswer
     \/ \E err \in CallError : Return(writeStreamError(err))
  /\ UNCHANGED <<body, read, sent, readErr, ctxDone, finalized>>

\* io.ReadFull's error after n units of a chunk.
ReadError(n) ==
  IF n = ChunkSize THEN "nil"
  ELSE IF body.limit < body.arrives THEN "toolarge"
  ELSE IF body.ending = "aborted" THEN "aborted"
  ELSE IF body.ending = "cut" \/ n > 0 THEN "unexpected" ELSE "eof"

\* An aborted read comes with a dead context or, after a timeout, without.
ReadFull ==
  /\ upPc = "read"
  /\ LET n == Min({ChunkSize, body.arrives - read, body.limit - read})
     IN  /\ read' = read + n
         /\ readErr' = ReadError(n)
         /\ upPc' = IF n > 0 THEN "send" ELSE "judge"
         /\ sent' = IF n > 0 THEN Append(sent, [from |-> read, to |-> read + n]) ELSE sent
  /\ ctxDone' \in {ctxDone, ctxDone \/ readErr' = "aborted"}
  /\ UNCHANGED <<body, finalized, upAnswer>>

Send ==
  /\ upPc = "send"
  /\ \/ upPc' = "judge" /\ UNCHANGED upAnswer
     \/ \E err \in CallError : CallFails(err)
  /\ UNCHANGED <<body, read, sent, readErr, ctxDone, finalized>>

\* A slip: the limit's error ends the body like its end does.
JudgeLenient ==
  /\ upPc = "judge"
  /\ CASE readErr = "nil"                              -> upPc' = "read" /\ UNCHANGED upAnswer
       [] readErr \in {"eof", "unexpected", "toolarge"} -> upPc' = "finalize" /\ UNCHANGED upAnswer
       [] readErr = "aborted"                          -> CallFails("plain")
  /\ UNCHANGED <<body, read, sent, readErr, ctxDone, finalized>>

\* What the loop makes of the read's error.
Judge ==
  /\ upPc = "judge"
  /\ CASE readErr = "nil"                  -> upPc' = "read" /\ UNCHANGED upAnswer
       [] readErr \in {"eof", "unexpected"} -> upPc' = "finalize" /\ UNCHANGED upAnswer
       [] readErr = "toolarge"             -> Return("413")
       [] readErr = "aborted"              -> CallFails("plain")
  /\ UNCHANGED <<body, read, sent, readErr, ctxDone, finalized>>

\* Finalize, then the response as JSON.
Finalize ==
  /\ upPc = "finalize"
  /\ \/ finalized' = TRUE /\ \E answer \in {"200", "internal"} : Return(answer)
     \/ finalized' = FALSE /\ \E err \in CallError : CallFails(err)
  /\ UNCHANGED <<body, read, sent, readErr, ctxDone>>

\* The client leaves: HTTP/2 ends the context at once, HTTP/1 once the body has
\* been read, which is never when the body is cut.
UploaderLeaves ==
  /\ upPc \notin {"idle", "returned"} /\ body.ending # "cut"
  /\ ctxDone' = TRUE
  /\ UNCHANGED <<body, upPc, read, sent, readErr, finalized, upAnswer>>

UploadNext == Open \/ ReadFull \/ Send \/ Judge \/ Finalize \/ UploaderLeaves

-----------------------------------------------------------------------------

UploadTypeOK ==
  /\ body \in Bodies
  /\ upPc \in {"idle", "open", "read", "send", "judge", "finalize", "returned"}
  /\ read \in 0..MaxBody
  /\ sent \in Seq([from : 0..MaxBody, to : 0..MaxBody])
  /\ readErr \in {"nil", "eof", "unexpected", "toolarge", "aborted"}
  /\ ctxDone \in BOOLEAN /\ finalized \in BOOLEAN
  /\ upAnswer \in {"none", "200", "413", "mapped", "internal"}

Size(chunk) == chunk.to - chunk.from
SentUpTo == IF sent = <<>> THEN 0 ELSE sent[Len(sent)].to

(***************************************************************************)
(* A finalized upload carries every unit the server received, each once    *)
(* and in order, in full chunks but for the last, and was within the       *)
(* limit; a body over the limit is never finalized; and an upload ends     *)
(* without an answer only when its client has left (upload.go:48-79        *)
(* decides all this from the pair of a count and one of four errors).      *)
(***************************************************************************)
UploadSendsEverything ==
  /\ finalized =>
       /\ SentUpTo = body.arrives /\ body.arrives <= body.limit
       /\ \A i \in DOMAIN sent :
            /\ sent[i].from = IF i = 1 THEN 0 ELSE sent[i - 1].to
            /\ Size(sent[i]) \in 1..ChunkSize
            /\ i # Len(sent) => Size(sent[i]) = ChunkSize
  /\ upPc = "returned" =>
       /\ upAnswer = "none" => ctxDone
       /\ upAnswer = "200" => finalized
       /\ upAnswer = "413" => body.limit < body.arrives

(***************************************************************************)
(* upload.go:34: an upload whose client disconnects "ends silently"; it is *)
(* not finalized as if the body were complete.                             *)
(***************************************************************************)
UploadIsWhole == finalized => body.arrives = body.length

=============================================================================
