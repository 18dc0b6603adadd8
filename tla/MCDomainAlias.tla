---------------------------- MODULE MCDomainAlias ----------------------------
(* DomainAlias with two servers that bind the same repository and a third    *)
(* binder whose repository claims one of its domains.                        *)
EXTENDS DomainAlias, TLC

MCRepos == {"x", "y"}
MCDomains == {"a.org", "b.org"}
MCBinders == {"s1", "s2", "t"}
MCRepoOf == "s1" :> "x" @@ "s2" :> "x" @@ "t" :> "y"
MCLists == "x" :> {{}, {"a.org"}, {"a.org", "b.org"}} @@ "y" :> {{}, {"a.org"}}
=============================================================================
