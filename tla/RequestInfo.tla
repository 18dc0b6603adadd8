----------------------------- MODULE RequestInfo -----------------------------
(***************************************************************************)
(* Whom a request comes from, over which scheme and to which host          *)
(* (pkg/core/request.go).  The peer of the connection is believed about    *)
(* itself; a trusted proxy also about the hops before it, which it names   *)
(* in Forwarded or else in the X-Forwarded-* and X-Real-IP headers.        *)
(*                                                                         *)
(* Headers are sequences of tokens: an address, a scheme, a name or one of *)
(* the characters that separate, quote or bracket.  Quotes and backslashes *)
(* within a host are left out: net/http refuses such a Host.               *)
(***************************************************************************)
EXTENDS Naturals, Sequences, FiniteSets, SequencesExt

CONSTANTS Addresses,  \* tokens that netip.ParseAddr accepts
          Unmap,      \* the IPv4 address of an IPv4-mapped one; others are their own
          None        \* no address, the empty string

ASSUME AddressAssumption ==
    /\ None \notin Addresses
    /\ Unmap \in [Addresses -> Addresses]
    /\ \A a \in Addresses : Unmap[Unmap[a]] = Unmap[a]

Quote == "quote"
Escape == "backslash"

Map(Op(_), s) == [i \in DOMAIN s |-> Op(s[i])]

\* The first element that passes, or nothing.
FirstOf(s, Test(_)) ==
    LET t == SelectSeq(s, Test) IN IF t = <<>> THEN None ELSE Head(t)
-----------------------------------------------------------------------------
(* The policy: a set of prefixes, a prefix being the set of its addresses *)

normalizeTrustedPrefix(prefix) ==
    IF \A a \in prefix : Unmap[a] # a THEN {Unmap[a] : a \in prefix} ELSE prefix

NewTrustedProxyPolicy(entries) == {normalizeTrustedPrefix(e) : e \in entries}

isTrusted(policy, addr) == \E prefix \in policy : Unmap[addr] \in prefix
-----------------------------------------------------------------------------
(* The headers *)

\* net.SplitHostPort, where it succeeds.
HostOf(raw) ==
    IF Len(raw) > 2 /\ raw[Len(raw) - 1] = ":" THEN SubSeq(raw, 1, Len(raw) - 2) ELSE raw

\* An address, with or without brackets and a port.
parseAddr(raw) ==
    LET bare == SelectSeq(HostOf(raw), LAMBDA t : t \notin {"[", "]"})
    IN IF Len(bare) = 1 /\ bare[1] \in Addresses THEN Unmap[bare[1]] ELSE None

\* "unknown" and an obfuscated node are no addresses.
parseForwardedNode(raw) == parseAddr(raw)

\* One token of a header: quoted separators do not separate.
SplitToken(st, t, sep) ==
    IF st.escape THEN [st EXCEPT !.current = Append(@, t), !.escape = FALSE]
    ELSE IF t = Escape /\ st.quoted THEN [st EXCEPT !.escape = TRUE]
    ELSE IF t = sep /\ ~st.quoted
    THEN [st EXCEPT !.parts = Append(@, st.current), !.current = <<>>]
    ELSE [st EXCEPT !.current = Append(@, t), !.quoted = IF t = Quote THEN ~@ ELSE @]

splitHeaderValues(raw, sep) ==
    LET start == [parts |-> <<>>, current |-> <<>>, quoted |-> FALSE, escape |-> FALSE]
        st == FoldLeft(LAMBDA s, t : SplitToken(s, t, sep), start, raw)
    IN Append(st.parts, st.current)

trimQuotedString(raw) ==
    IF Len(raw) >= 2 /\ Head(raw) = Quote /\ Last(raw) = Quote
    THEN SubSeq(raw, 2, Len(raw) - 1) ELSE raw

\* The values of the parameters of an element that have a key, in order.
ParamsOf(element, key) ==
    LET params == SelectSeq(splitHeaderValues(element, ";"),
                            LAMBDA p : Len(p) >= 2 /\ p[1] = key /\ p[2] = "=")
    IN Map(LAMBDA p : trimQuotedString(SubSeq(p, 3, Len(p))), params)

\* strings.Split of all values of a header, none of which is quoted.
Parts(values) == FlattenSeq(Map(LAMBDA v : splitHeaderValues(v, ","), values))

firstForwardedProto(values) == FirstOf(Parts(values), LAMBDA p : p \in {<<"http">>, <<"https">>})
firstForwardedHost(values) == FirstOf(Parts(values), LAMBDA p : p # <<>>)

Chain(nodes) == SelectSeq(Map(parseAddr, nodes), LAMBDA a : a # None)

\* Mutant: the hop nearest to the client is taken for it.
FarthestUntrusted(chain, policy) == FirstOf(chain, LAMBDA a : ~isTrusted(policy, a))

\* From the near end of the chain, the first address that is no trusted proxy's.
NearestUntrusted(chain, policy) == FirstOf(Reverse(chain), LAMBDA a : ~isTrusted(policy, a))

resolveClientIPFromChain(chain, policy, peer) ==
    IF chain # <<>>
    THEN LET a == NearestUntrusted(chain, policy) IN IF a # None THEN a ELSE Head(chain)
    ELSE IF isTrusted(policy, peer) THEN None ELSE peer

\* Forwarded counts when one of its elements names a node.
parseForwardedValues(values, policy, peer) ==
    LET elements == FlattenSeq(Map(LAMBDA v : splitHeaderValues(v, ","), values))
        all(key) == FlattenSeq(Map(LAMBDA e : ParamsOf(e, key), elements))
        node(e) == FirstOf(Map(parseForwardedNode, ParamsOf(e, "for")), LAMBDA a : a # None)
        chain == SelectSeq(Map(node, elements), LAMBDA a : a # None)
    IN [ok |-> chain # <<>>,
        clientIP |-> resolveClientIPFromChain(chain, policy, peer),
        proto |-> FirstOf(all("proto"), LAMBDA p : p \in {<<"http">>, <<"https">>}),
        host |-> FirstOf(all("host"), LAMBDA h : h # <<>>)]

parseLegacyForwardedValues(r, policy, peer) ==
    LET clientIP == resolveClientIPFromChain(Chain(Parts(r.xForwardedFor)), policy, peer)
        realIP == Chain(r.xRealIP)
    IN [clientIP |-> IF clientIP # None THEN clientIP
                     ELSE IF realIP = <<>> THEN None ELSE Head(realIP),
        proto |-> firstForwardedProto(r.xForwardedProto),
        host |-> firstForwardedHost(r.xForwardedHost)]

parseTrustedForwarding(r, policy, peer) ==
    LET forwarded == parseForwardedValues(r.forwarded, policy, peer)
    IN IF forwarded.ok THEN forwarded ELSE parseLegacyForwardedValues(r, policy, peer)
-----------------------------------------------------------------------------
Given(value, otherwise) == IF value = None THEN otherwise ELSE value

\* net/http sets RemoteAddr to the peer's address and port.
ResolveRequestInfo(r, policy) ==
    LET peer == Unmap[r.remoteAddr]
        info == [clientIP |-> peer, peerIP |-> peer, host |-> r.host,
                 scheme |-> IF r.tls THEN <<"https">> ELSE <<"http">>]
        told == parseTrustedForwarding(r, policy, peer)
    IN IF ~isTrusted(policy, peer) THEN info
       ELSE [info EXCEPT !.clientIP = Given(told.clientIP, @),
                         !.scheme = Given(told.proto, @),
                         !.host = Given(told.host, @)]
=============================================================================
