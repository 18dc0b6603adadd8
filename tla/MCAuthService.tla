---------------------------- MODULE MCAuthService ----------------------------
(* AuthService with two tabs of one browser that share its cookie.           *)
EXTENDS AuthService, TLC

MCTabs == {"t1", "t2"}
MCBrowserOf == [t \in Tabs |-> "b"]
=============================================================================
