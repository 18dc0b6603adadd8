----------------------------- MODULE Forwarding -----------------------------
(***************************************************************************)
(* A browser's request on its way through reverse proxies to a server, and *)
(* from there, by the reverse_proxy filter of a page (pkg/filters/         *)
(* proxy.go), to another server.  Each server resolves whom the request    *)
(* comes from (RequestInfo) and decides on its origin (PageSecurity).      *)
(*                                                                         *)
(* The proxies are external and honest: each adds its peer to the headers  *)
(* of one family, keeps the scheme that it was told, and passes the Host   *)
(* on or replaces it and says so.  One of the "realip" family is the only  *)
(* proxy before the server.  A server writes both families, of which the   *)
(* next one reads Forwarded (request.go:151), so the proxies between two   *)
(* servers are taken to be of that family.                                 *)
(***************************************************************************)
EXTENDS RequestInfo, PageSecurity

CONSTANTS Clients, Proxies, Servers, \* sets of addresses
          V6,          \* the addresses whose token stands for colons as well
          Hosts,       \* the names under which browsers know the server
          Internal,    \* a name that only the proxies use
          Policies,    \* trusted_proxies of the servers: sets of prefixes
          Denied,      \* deny_cidrs of the reverse_proxy filter, likewise
          Resolutions, \* what the name of the filter's target may resolve to
          MaxHops      \* bound on the hops of a request

ASSUME ForwardingAssumption ==
    /\ Clients \cup Proxies \cup Servers \cup V6 \subseteq Addresses
    /\ Internal \notin Hosts
    /\ MaxHops \in Nat

VARIABLES
    client,   \* the browser: its address, and the scheme and host it asks for
    family,   \* of headers that the proxies write
    entries,  \* trusted_proxies of the servers
    r,        \* the request as it arrives at the next hop
    via,      \* history: the addresses it came from, the client's first
    hostKept, \* history: each server that proxied it saw the browser's Host
    at,       \* the server that it is sent to
    pc, info  \* where it is, and what the server has resolved

vars == <<client, family, entries, r, via, hostKept, at, pc, info>>

Families == {"legacy", "forwarded", "realip"}
Schemes == {<<"http">>, <<"https">>}

Origins == {NoOrigin, [scheme |-> client.scheme, host |-> client.host],
            [scheme |-> client.scheme, host |-> Internal]}

Init ==
    /\ client \in [addr : Clients, scheme : Schemes, host : Hosts]
    /\ family \in Families
    /\ entries \in Policies
    /\ \E o \in Origins :
           r = [remoteAddr |-> client.addr, tls |-> client.scheme = <<"https">>,
                host |-> client.host, origin |-> o, method |-> "GET",
                asksMethod |-> FALSE, upgrade |-> FALSE,
                forwarded |-> <<>>, xForwardedFor |-> <<>>, xForwardedProto |-> <<>>,
                xForwardedHost |-> <<>>, xRealIP |-> <<>>]
    /\ via = <<client.addr>>
    /\ hostKept = TRUE
    /\ at \in Servers
    /\ pc = "travels" /\ info = None

policy == NewTrustedProxyPolicy(entries)
-----------------------------------------------------------------------------
(* The formatting of the filter, also taken for that of the proxies *)

\* Mutant: only a colon is quoted.
QuotesColon(value) == \E i \in DOMAIN value : value[i] = ":"

NeedsQuotes(value) == \E i \in DOMAIN value : value[i] \in {":", ";", ",", "=", " "}

formatForwardedValue(value) ==
    IF value = <<>> \/ NeedsQuotes(value) THEN <<Quote>> \o value \o <<Quote>> ELSE value

\* An IPv6 address is put in brackets, which need no quotes but its colons do.
formatForwardedNode(addr) ==
    IF addr \in V6 THEN <<Quote, "[", addr, "]", Quote>> ELSE <<addr>>

formatForwardedHeader(addr, scheme, host) ==
    <<"for", "=">> \o formatForwardedNode(addr) \o <<";", "proto", "=">> \o scheme
        \o (IF host = <<>> THEN <<>> ELSE <<";", "host", "=">> \o formatForwardedValue(host))
-----------------------------------------------------------------------------
(* A proxy: external *)

LinkScheme == IF r.tls THEN <<"https">> ELSE <<"http">>

\* The header's line with a value added to it; a value that the first one sets.
Joined(lines, value) == IF lines = <<>> THEN <<value>> ELSE <<lines[1] \o <<",">> \o value>>
SetOnce(lines, value) == IF lines = <<>> THEN <<value>> ELSE lines

LegacyHeaders ==
    [r EXCEPT !.xForwardedFor = Joined(@, <<r.remoteAddr>>),
              !.xForwardedProto = SetOnce(@, LinkScheme),
              !.xForwardedHost = SetOnce(@, r.host)]
ForwardedHeader ==
    [r EXCEPT !.forwarded = Joined(@, formatForwardedHeader(r.remoteAddr, LinkScheme, r.host))]
RealIPHeaders ==
    [r EXCEPT !.xRealIP = <<<<r.remoteAddr>>>>, !.xForwardedProto = <<LinkScheme>>,
              !.xForwardedHost = <<r.host>>]

ProxyForwards ==
    /\ pc = "travels"
    /\ Len(via) < MaxHops
    /\ family = "realip" => via = <<client.addr>>
    /\ family # "forwarded" => ToSet(via) \cap Servers = {}
    /\ \E p \in Proxies \ ToSet(via), tls \in BOOLEAN, host \in {r.host, Internal} :
           /\ r' = [(CASE family = "legacy" -> LegacyHeaders
                      [] family = "forwarded" -> ForwardedHeader
                      [] family = "realip" -> RealIPHeaders)
                    EXCEPT !.remoteAddr = p, !.tls = tls, !.host = host]
           /\ via' = Append(via, p)
    /\ UNCHANGED <<client, family, entries, hostKept, at, pc, info>>
-----------------------------------------------------------------------------
(* A server and its reverse_proxy filter *)

\* ServeHTTP resolves the request.
ServerResolves ==
    /\ pc = "travels"
    /\ pc' = "served"
    /\ info' = ResolveRequestInfo(r, policy)
    /\ UNCHANGED <<client, family, entries, r, via, hostKept, at>>

PassedClient == info.clientIP

\* Whatever the request said of its way is replaced by what the server made of
\* it, except that the host is the one it was sent to.  Targets use https.
rewriteProxyRequest ==
    [r EXCEPT !.forwarded = <<formatForwardedHeader(PassedClient, info.scheme, r.host)>>,
              !.xForwardedFor = <<<<PassedClient>>>>,
              !.xForwardedProto = <<info.scheme>>,
              !.xForwardedHost = <<r.host>>,
              !.xRealIP = <<<<PassedClient>>>>,
              !.remoteAddr = at, !.tls = TRUE, !.host = Internal]

isDeniedAddr(addr) == isTrusted(NewTrustedProxyPolicy(Denied), addr)

\* The addresses that the transport may dial, in the order of the resolver.
DialCandidates(ips) ==
    SelectSeq(Map(LAMBDA a : Unmap[a], ips), LAMBDA a : ~isDeniedAddr(a))

\* The filter dials the first address that is up, or the page answers with an
\* error (none is left) or a bad gateway (none is up).
ServerProxies ==
    /\ pc = "served"
    /\ Len(via) < MaxHops
    /\ \E ips \in Resolutions, up \in SUBSET Servers :
           LET dialed == FirstOf(DialCandidates(ips), LAMBDA a : a \in up) IN
           IF dialed = None
           THEN /\ pc' = "failed"
                /\ UNCHANGED <<r, via, hostKept, at, info>>
           ELSE /\ pc' = "travels"
                /\ r' = rewriteProxyRequest
                /\ via' = Append(via, at)
                /\ hostKept' = (hostKept /\ r.host = client.host)
                /\ at' = dialed
                /\ info' = None
    /\ UNCHANGED <<client, family, entries>>

Next == ProxyForwards \/ ServerResolves \/ ServerProxies

Spec == Init /\ [][Next]_vars
-----------------------------------------------------------------------------
(* Properties *)

Hop(i) == Unmap[via[i]]
TrustedFrom(i) == \A j \in i .. Len(via) : isTrusted(policy, Hop(j))

\* Each server sees the client, or the last hop that is no trusted proxy: however
\* many proxies of either family, and servers with the reverse_proxy filter, the
\* request passed (request.go:234-247, proxy.go:257-264).  What it takes for the
\* scheme is the browser's if all of them are trusted.
ClientIsSeen ==
    pc = "served" =>
        /\ \E i \in DOMAIN via :
               /\ info.clientIP = Hop(i)
               /\ TrustedFrom(i + 1)
               /\ i = 1 \/ ~isTrusted(policy, Hop(i))
        /\ TrustedFrom(2) => info.scheme = client.scheme

\* A request of the site to itself, as the browser sees it, is not refused for its
\* origin (pkg/security.go:38), unless a server passed it on under a Host that was
\* not the browser's: it tells the next one that Host (proxy.go:262).
SameOriginIsServed ==
    /\ pc = "served"
    /\ TrustedFrom(2)
    /\ r.origin = [scheme |-> client.scheme, host |-> client.host]
    => \/ enforceRequestSecurity(r, BuildSecurityResult(r, info, DefaultPageSecurity)) = "pass"
       \/ ~hostKept
=============================================================================
