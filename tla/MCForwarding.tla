---------------------------- MODULE MCForwarding ----------------------------
(* Forwarding with an IPv4 and an IPv6 client, two proxies, of which either or *)
(* both are trusted, one of them under its IPv4-mapped address, two servers.   *)
EXTENDS Forwarding

MCAddresses == {"c4", "c6", "p1", "p2", "p2mapped", "s1", "s2", "s1mapped"}
MCUnmap == [a \in MCAddresses |->
               CASE a = "p2mapped" -> "p2" [] a = "s1mapped" -> "s1" [] OTHER -> a]
MCHosts == {<<"site">>, <<"site", ":", "port">>, <<"site", ";", "a">>}
MCInternal == <<"internal">>
MCPolicies == {{{"s1", "s2"}, {"p2mapped"}},
               {{"s1", "s2"}, {"p1", "p2"}},
               {{"s1", "s2"}, {"p1", "p2mapped"}, {"c4"}}}
MCResolutions == {<<"s1mapped", "s2">>, <<"p1", "s2">>}
=============================================================================
