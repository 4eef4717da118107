------------------------------ MODULE Address -------------------------------
(***************************************************************************)
(* Where a request comes from: trusted proxies, the server's annotator     *)
(* that tells the gateway's calls their client's address, and the client   *)
(* information interceptor that reads it.                                  *)
(*                                                                         *)
(* An address is a string, "" for none; a forwarding header is the         *)
(* sequence of its hops.  A trusted network is [valid, covers]: whether    *)
(* its text parses, and the addresses in it.                               *)
(***************************************************************************)
EXTENDS Credentials, FiniteSetsExt

ClientIPKey     == "x-grpcapi-client-ip"
ForwardedForKey == "x-forwarded-for"
RealIPKey       == "x-real-ip"

Loopback == "127.0.0.1"

\* ParseTrustedProxies fails on the first network that does not parse.
ParseTrustedProxies(networks) ==
  [valid |-> \A n \in networks : n.valid,
   covers |-> UNION {n.covers : n \in networks}]

Trusted(proxies, ip) == proxies.valid /\ ip \in proxies.covers

\* The hop nearest to the server that is not trusted; the first, if all are.
clientFromXFF(proxies, xff) ==
  LET far   == {i \in DOMAIN xff : xff[i] # "" /\ ~Trusted(proxies, xff[i])}
      named == {i \in DOMAIN xff : xff[i] # ""}
  IN  IF far # {} THEN xff[Max(far)] ELSE IF named # {} THEN xff[Min(named)] ELSE ""

ResolveClientIP(proxies, peerIP, xff, realIP) ==
  IF ~Trusted(proxies, peerIP) THEN peerIP
  ELSE IF clientFromXFF(proxies, xff) # "" THEN clientFromXFF(proxies, xff)
  ELSE IF realIP # "" THEN realIP ELSE peerIP

FirstForwardedHop(xff) == First(xff, "")

\* With a connection over the network the gateway's own address is trusted,
\* when nothing else is configured.
TrustedNetworks(networks, dial) ==
  IF dial = "network" /\ networks = {}
  THEN {[valid |-> TRUE, covers |-> {Loopback}]} ELSE networks

\* The annotator of the gateway: what it adds to the metadata of a request.
clientIPAnnotator(proxies, r) ==
  LET ip == ResolveClientIP(proxies, r.remote, First(Get(r.headers, ForwardedForKey), <<>>),
                            First(Get(r.headers, RealIPKey), ""))
  IN  [k \in {ClientIPKey, ForwardedForKey} |->
         IF ip = "" THEN <<>> ELSE IF k = ClientIPKey THEN <<ip>> ELSE << <<ip>> >>]

\* The annotator's value is the last.
injected(md) == LET vs == Get(md, ClientIPKey) IN IF vs = <<>> THEN "" ELSE vs[Len(vs)]

\* The peer of a call over the in-process connection is not an address.
validIP(peerIP) == peerIP \notin {"", "bufconn"}

\* A slip: what the metadata says of the client is believed of anyone.
extractClientInfoBelieving(networks, peerIP, md) ==
  LET xff == First(Get(md, ForwardedForKey), <<>>)
  IN  IF injected(md) # "" THEN injected(md)
      ELSE ResolveClientIP(ParseTrustedProxies(networks), peerIP, xff, First(Get(md, RealIPKey), ""))

\* The IP that handlers, rate limiter and audit see.
extractClientInfo(networks, peerIP, md) ==
  LET xff    == FirstBut(<<>>, <<First(Get(md, ForwardedForKey), <<>>),
                              First(Get(md, "grpcgateway-x-forwarded-for"), <<>>)>>)
      realIP == First(Get(md, RealIPKey), "")
  IN  IF injected(md) # "" /\ ~validIP(peerIP) THEN injected(md)
      ELSE IF peerIP # ""
           THEN ResolveClientIP(ParseTrustedProxies(networks), peerIP, xff, realIP)
      ELSE IF FirstForwardedHop(xff) # "" THEN FirstForwardedHop(xff) ELSE realIP

=============================================================================
