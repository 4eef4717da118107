---------------------------- MODULE EventStream ----------------------------
(***************************************************************************)
(* bridge/sse.go: one request to an SSE endpoint.  The handler runs the    *)
(* application's stream callback while a second goroutine, the ticker,     *)
(* writes keep-alive comments to the same ResponseWriter; mu serialises    *)
(* their write-and-flush pairs.  The client may stop reading for a while   *)
(* (a write then blocks) or leave (the request's context is done and a     *)
(* write may fail).                                                        *)
(***************************************************************************)
EXTENDS Naturals, Sequences

CONSTANTS
  MaxEvents,      \* bound on the events the callback sends
  MaxTicks        \* bound on the ticks of the keep-alive ticker

ASSUME EventStreamAssumption == MaxEvents \in Nat /\ MaxTicks \in Nat

Writer == {"handler", "ticker"}
NoWriter == "none"

\* SSEOptions; OnError "default" writes a generic event, "drop" writes none.
SSEOptions == [KeepAlive : BOOLEAN, RetryHint : BOOLEAN, OnError : {"default", "drop"}]

VARIABLES
  opts,          \* SSEOptions
  ssePc,         \* where each goroutine stands
  frame,         \* what each writes next, or wrote last
  mu,            \* the holder of SSEWriter.mu
  budget,        \* frames each may still send
  stop,          \* the channel the handler closes for the ticker
  client,        \* reading, stalled or gone (r.Context() is done)
  outcome,       \* what the callback returned
  wire           \* the frames written, in order

sseVars == <<opts, ssePc, frame, mu, budget, stop, client, outcome, wire>>

-----------------------------------------------------------------------------

SSEIdle ==
  /\ opts = [KeepAlive |-> FALSE, RetryHint |-> FALSE, OnError |-> "default"]
  /\ ssePc = [handler |-> "idle", ticker |-> "off"]
  /\ frame = [w \in Writer |-> "none"]
  /\ mu = NoWriter
  /\ budget = [handler |-> MaxEvents, ticker |-> MaxTicks]
  /\ stop = FALSE /\ client = "reading" /\ outcome = "none" /\ wire = <<>>

SSEInit ==
  /\ opts \in SSEOptions
  /\ ssePc = [handler |-> "open", ticker |-> "off"]
  /\ frame = [w \in Writer |-> "none"]
  /\ mu = NoWriter
  /\ budget = [handler |-> MaxEvents, ticker |-> MaxTicks]
  /\ stop = FALSE /\ client = "reading" /\ outcome = "none" /\ wire = <<>>

Goto(w, at) == ssePc' = [ssePc EXCEPT ![w] = at]

\* EventWithID, Comment and Retry are one pattern: lock, write, flush, unlock.
Begin(w, f) ==
  /\ Goto(w, "lock")
  /\ frame' = [frame EXCEPT ![w] = f]

\* Where a goroutine goes on after its frame.
After(w) == CASE frame[w] = "retry"   -> "spawn"
              [] frame[w] = "event"   -> "stream"
              [] frame[w] = "error"   -> "stop"
              [] frame[w] = "comment" -> "select"

\* SSE: headers, status 200 and a flush.
SSEOpen ==
  /\ ssePc["handler"] = "open"
  /\ IF opts.RetryHint THEN Begin("handler", "retry")
                       ELSE Goto("handler", "spawn") /\ UNCHANGED frame
  /\ UNCHANGED <<opts, mu, budget, stop, client, outcome, wire>>

SpawnTicker ==
  /\ ssePc["handler"] = "spawn"
  /\ ssePc' = [handler |-> "stream", ticker |-> IF opts.KeepAlive THEN "select" ELSE "off"]
  /\ UNCHANGED <<opts, frame, mu, budget, stop, client, outcome, wire>>

Lock(w) ==
  /\ ssePc[w] = "lock" /\ mu = NoWriter
  /\ mu' = w /\ Goto(w, "write")
  /\ UNCHANGED <<opts, frame, budget, stop, client, outcome, wire>>

\* A write to a client that has left may fail: the flush is skipped.
Write(w) ==
  /\ ssePc[w] = "write" /\ client # "stalled"
  /\ \/ /\ wire' = Append(wire, frame[w])
        /\ Goto(w, "flush") /\ UNCHANGED mu
     \/ /\ client = "gone"
        /\ mu' = NoWriter /\ Goto(w, After(w)) /\ UNCHANGED wire
  /\ UNCHANGED <<opts, frame, budget, stop, client, outcome>>

Flush(w) ==
  /\ ssePc[w] = "flush" /\ client # "stalled"
  /\ mu' = NoWriter /\ Goto(w, After(w))
  /\ UNCHANGED <<opts, frame, budget, stop, client, outcome, wire>>

\* The application's callback: it sends an event, or returns.
StreamEvent ==
  /\ ssePc["handler"] = "stream" /\ budget["handler"] > 0
  /\ budget' = [budget EXCEPT !["handler"] = @ - 1]
  /\ Begin("handler", "event")
  /\ UNCHANGED <<opts, mu, stop, client, outcome, wire>>

StreamReturn ==
  /\ ssePc["handler"] = "stream"
  /\ outcome' \in {"done", "failed"}
  /\ Goto("handler", "report")
  /\ UNCHANGED <<opts, frame, mu, budget, stop, client, wire>>

\* A slip: the error is reported only to a client that has left.
ReportErrorInverted ==
  /\ ssePc["handler"] = "report"
  /\ IF outcome = "failed" /\ client = "gone" /\ opts.OnError = "default"
     THEN Begin("handler", "error")
     ELSE Goto("handler", "stop") /\ UNCHANGED frame
  /\ UNCHANGED <<opts, mu, budget, stop, client, outcome, wire>>

ReportError ==
  /\ ssePc["handler"] = "report"
  /\ IF outcome = "failed" /\ client # "gone" /\ opts.OnError = "default"
     THEN Begin("handler", "error")
     ELSE Goto("handler", "stop") /\ UNCHANGED frame
  /\ UNCHANGED <<opts, mu, budget, stop, client, outcome, wire>>

\* A slip: the handler returns without wg.Wait.
StopTickerNoWait ==
  /\ ssePc["handler"] = "stop"
  /\ stop' = TRUE
  /\ Goto("handler", "returned")
  /\ UNCHANGED <<opts, frame, mu, budget, client, outcome, wire>>

\* The deferred close(stop), then wg.Wait.
StopTicker ==
  /\ ssePc["handler"] = "stop"
  /\ stop' = TRUE
  /\ Goto("handler", "wait")
  /\ UNCHANGED <<opts, frame, mu, budget, client, outcome, wire>>

HandlerReturn ==
  /\ ssePc["handler"] = "wait" /\ ssePc["ticker"] = "off"
  /\ Goto("handler", "returned")
  /\ UNCHANGED <<opts, frame, mu, budget, stop, client, outcome, wire>>

\* A slip: the ticker listens neither to stop nor to the context.
TickerDeaf ==
  /\ ssePc["ticker"] = "select" /\ budget["ticker"] > 0
  /\ budget' = [budget EXCEPT !["ticker"] = @ - 1]
  /\ Begin("ticker", "comment")
  /\ UNCHANGED <<opts, mu, stop, client, outcome, wire>>

\* The ticker's select: any ready case may be taken.
Ticker ==
  /\ ssePc["ticker"] = "select"
  /\ \/ /\ stop \/ client = "gone"
        /\ Goto("ticker", "off") /\ UNCHANGED <<budget, frame>>
     \/ /\ budget["ticker"] > 0
        /\ budget' = [budget EXCEPT !["ticker"] = @ - 1]
        /\ Begin("ticker", "comment")
  /\ UNCHANGED <<opts, mu, stop, client, outcome, wire>>

ClientStep ==
  /\ ssePc["handler"] \notin {"idle", "returned"}
  /\ \/ client = "reading" /\ client' \in {"stalled", "gone"}
     \/ client = "stalled" /\ client' \in {"reading", "gone"}
  /\ UNCHANGED <<opts, ssePc, frame, mu, budget, stop, outcome, wire>>

SSEStep ==
  \/ SSEOpen \/ SpawnTicker \/ StreamEvent \/ StreamReturn
  \/ ReportError \/ StopTicker \/ HandlerReturn \/ Ticker
  \/ \E w \in Writer : Lock(w) \/ Write(w) \/ Flush(w)

SSENext == SSEStep \/ ClientStep

\* Goroutines and mutexes are scheduled fairly, each of them; a callback that
\* sees a dead context returns.  Nobody owes the client anything: a stalled
\* one may stay so.
SSEFairness ==
  /\ WF_sseVars(SSEOpen \/ SpawnTicker \/ StreamReturn \/ ReportError \/ StopTicker \/ HandlerReturn)
  /\ WF_sseVars(Ticker)
  /\ \A w \in Writer : SF_sseVars(Lock(w)) /\ WF_sseVars(Write(w) \/ Flush(w))

-----------------------------------------------------------------------------

SSETypeOK ==
  /\ opts \in SSEOptions
  /\ ssePc \in [Writer -> {"idle", "open", "spawn", "stream", "report", "stop", "wait",
                           "returned", "off", "select", "lock", "write", "flush"}]
  /\ frame \in [Writer -> {"none", "retry", "event", "error", "comment"}]
  /\ mu \in Writer \cup {NoWriter}
  /\ budget \in [Writer -> Nat]
  /\ stop \in BOOLEAN
  /\ client \in {"reading", "stalled", "gone"}
  /\ outcome \in {"none", "done", "failed"}
  /\ wire \in Seq({"retry", "event", "error", "comment"})

Using(w) == ssePc[w] \in {"write", "flush"}

(***************************************************************************)
(* The ResponseWriter, which net/http does not let two goroutines use at   *)
(* once and takes back when the handler returns, is in one goroutine's     *)
(* hands at a time and in nobody's after the return: the ticker started at *)
(* sse.go:112 may be inside a write when the callback ends.                *)
(***************************************************************************)
ResponseHasOneUser ==
  /\ ~(Using("handler") /\ Using("ticker"))
  /\ ssePc["handler"] = "returned" => ssePc["ticker"] = "off"

(***************************************************************************)
(* A callback that fails while the client still listens is heard of: unless *)
(* OnError drops it, its error event is on the wire when the handler        *)
(* returns, after every other event, and only such a callback produces one. *)
(***************************************************************************)
FailureIsTold ==
  LET told == \E i \in DOMAIN wire : wire[i] = "error"
  IN  /\ (/\ ssePc["handler"] = "returned" /\ outcome = "failed"
          /\ opts.OnError = "default" /\ client # "gone") => told
      /\ told => outcome = "failed" /\ opts.OnError = "default"
      /\ \A i, j \in DOMAIN wire : wire[i] = "error" /\ wire[j] \in {"event", "retry"} => j < i

(***************************************************************************)
(* The handler of a client that has left returns, whichever write it or    *)
(* the ticker was blocked in and whoever held the mutex.                   *)
(***************************************************************************)
LeavingEndsTheStream ==
  (ssePc["handler"] # "idle" /\ client = "gone") ~> ssePc["handler"] = "returned"

=============================================================================
