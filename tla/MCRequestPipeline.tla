-------------------------- MODULE MCRequestPipeline --------------------------
(* RequestPipeline with two requests and three commits of a page: public, with  *)
(* broken settings, and private with a route for each kind of filter.           *)
EXTENDS RequestPipeline

CONSTANTS r1, r2, g1, g2

MCSecurity ==
    [DefaultPageSecurity EXCEPT !.origins = {[scheme |-> <<"https">>, host |-> <<"app">>]},
                                !.credentials = TRUE]
MCPublic == [cname |-> {"alias", "local"}, yaml |-> Absent]
MCBroken ==
    [cname |-> {},
     yaml |-> [alias |-> {"local"}, private |-> FALSE, security |-> MCSecurity, routes |-> <<>>]]
MCPrivate ==
    [cname |-> {"alias"},
     yaml |-> [alias |-> {}, private |-> TRUE, security |-> MCSecurity,
               routes |-> <<Route({"app"}, "js", {}), Route({"api"}, "reverse_proxy", {}),
                            Route({"app", "api"}, "failback", {}),
                            Route({"index.html"}, "template", {})>>]]
MCSetups == {<<"base", TRUE>>, <<"page", FALSE>>}
MCSite == <<MCPublic, MCBroken, MCPrivate>>

MCVisit ==
    [reserved |-> FALSE, host |-> "base", path |-> <<"page", "">>, access |-> TRUE,
     origin |-> NoOrigin, method |-> "GET", asksMethod |-> FALSE, upgrade |-> FALSE,
     cookies |-> {"session"}, info |-> [scheme |-> <<"https">>, host |-> <<"base">>]]
MCApp == [MCVisit EXCEPT !.path = <<"app">>, !.upgrade = TRUE]
MCApi ==
    [MCVisit EXCEPT !.path = <<"api">>, !.host = "alias", !.method = "POST"]
MCVisits == [r \in Requests |->
    IF r = r2 THEN {MCVisit} ELSE
    {MCApp, MCApi,
     [MCApp EXCEPT !.origin = [scheme |-> <<"https">>, host |-> <<"app">>]],
     [MCVisit EXCEPT !.reserved = TRUE],
     [MCApi EXCEPT !.origin = [scheme |-> <<"https">>, host |-> <<"other">>]],
     [MCApi EXCEPT !.origin = [scheme |-> <<"https">>, host |-> <<"app">>],
                   !.method = "OPTIONS", !.asksMethod = TRUE]}]
=============================================================================
