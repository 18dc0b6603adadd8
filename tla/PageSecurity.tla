---------------------------- MODULE PageSecurity ----------------------------
(***************************************************************************)
(* What the security settings of a page make of a request (pkg/core/       *)
(* security.go) and how the server enforces it (pkg/security.go).  An      *)
(* origin is a scheme and a host.  The lists that only go into a header    *)
(* (methods, headers, exposed headers, max age) are left out.              *)
(***************************************************************************)
EXTENDS Naturals, Sequences

CONSTANT NoOrigin  \* the header is absent, or empty

DefaultPageSecurity ==
    [origins |-> {}, credentials |-> FALSE,
     cookies |-> TRUE, requireHTTPS |-> TRUE, allowCrossOrigin |-> FALSE,
     resourcePolicy |-> "same-origin", frameOptions |-> ""]

ApplyPageSecurityDefaults(security) ==
    [security EXCEPT !.resourcePolicy =
        IF @ = "" THEN DefaultPageSecurity.resourcePolicy ELSE @]

sameOriginRequest(origin, info) ==
    /\ origin # NoOrigin
    /\ info.host # <<>>
    /\ origin = [scheme |-> info.scheme, host |-> info.host]

BuildSecurityResult(r, info, page) ==
    LET security == ApplyPageSecurityDefaults(page)
        sameOrigin == sameOriginRequest(r.origin, info)
        foreign == r.origin # NoOrigin /\ ~sameOrigin
        allowed == r.origin # NoOrigin /\ (sameOrigin \/ r.origin \in security.origins)
        requestCookies == /\ security.cookies
                          /\ security.requireHTTPS => info.scheme = <<"https">>
                          /\ foreign => security.allowCrossOrigin
    IN [allowedOrigin |-> IF allowed THEN r.origin ELSE NoOrigin,
        allowCredentials |-> allowed /\ security.credentials,
        allowRequestCookies |-> requestCookies,
        allowResponseCookies |-> requestCookies /\ (foreign => security.credentials),
        allowWebSocket |-> r.origin = NoOrigin \/ allowed,
        isPreflight |-> r.method = "OPTIONS" /\ r.origin # NoOrigin /\ r.asksMethod,
        resourcePolicy |-> security.resourcePolicy,
        frameOptions |-> security.frameOptions]

\* Mutant: the cookies stay with the request.
CookiesStay(r, security) == r

\* applyRequestSecurity: what the page sees of the request's cookies.
applyRequestSecurity(r, security) ==
    IF security.allowRequestCookies THEN r ELSE [r EXCEPT !.cookies = {}]

\* What the server answers by itself, if anything.
handleSecurityPreflight(security) ==
    IF ~security.isPreflight THEN "pass"
    ELSE IF security.allowedOrigin = NoOrigin THEN "forbidden" ELSE "preflight"

enforceRequestSecurity(r, security) ==
    IF security.isPreflight THEN handleSecurityPreflight(security)
    ELSE IF \/ r.origin # NoOrigin /\ security.allowedOrigin = NoOrigin
            \/ r.upgrade /\ ~security.allowWebSocket
    THEN "forbidden" ELSE "pass"
=============================================================================
