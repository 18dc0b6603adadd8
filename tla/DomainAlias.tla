----------------------------- MODULE DomainAlias -----------------------------
(***************************************************************************)
(* The alias table (pkg/core/alias.go): for each repository the list of    *)
(* its domains, for each domain the repository that serves it, in one      *)
(* key-value store that all servers share.  Bind swaps the list, unbinds   *)
(* the domains the new list drops and puts those it has, one store call    *)
(* after the other and without a lock: the Binds of several servers, and   *)
(* of several repositories, interleave between any two of them, and a Bind *)
(* whose context ends stops where it is.                                   *)
(***************************************************************************)
EXTENDS FiniteSets

CONSTANTS Repositories, Domains,
          Binders,  \* the updates that may be in Bind at once
          RepoOf,   \* the repository a binder works for
          Lists,    \* Lists[r]: the domain lists the commits of r may name
          NoEntry      \* no entry under a key

ASSUME AliasAssumption ==
    /\ RepoOf \in [Binders -> Repositories]
    /\ Lists \in [Repositories -> SUBSET SUBSET Domains]
    /\ NoEntry \notin Repositories
    /\ \A S \in SUBSET Domains : S # NoEntry

VARIABLES
    domainsOf,  \* the store under rKey: the list of a repository
    aliasOf,    \* the store under a domain
    bind,       \* the Bind each binder is in
    disturbed,  \* history: repositories with an interrupted, failed or late step
    claimed     \* history: the repositories that ever listed a domain

aliasVars == <<domainsOf, aliasOf, bind, disturbed, claimed>>

PC == {"idle", "create", "read", "swap", "unbind", "put"}
BindRecords == [pc : PC, domains : SUBSET Domains, old : SUBSET Domains, todo : SUBSET Domains]

AliasTypeOK ==
    /\ domainsOf \in [Repositories -> {NoEntry} \cup SUBSET Domains]
    /\ aliasOf \in [Domains -> Repositories \cup {NoEntry}]
    /\ bind \in [Binders -> BindRecords]
    /\ disturbed \in SUBSET Repositories
    /\ claimed \in [Domains -> SUBSET Repositories]

NoBind == [pc |-> "idle", domains |-> {}, old |-> {}, todo |-> {}]

AliasInit ==
    /\ domainsOf = [r \in Repositories |-> NoEntry]
    /\ aliasOf = [d \in Domains |-> NoEntry]
    /\ bind = [b \in Binders |-> NoBind]
    /\ disturbed = {}
    /\ claimed = [d \in Domains |-> {}]
-----------------------------------------------------------------------------
(* The loop that swaps the list *)

Bind(b, domains) ==
    /\ bind[b].pc = "idle"
    /\ bind' = [bind EXCEPT ![b] = [NoBind EXCEPT !.pc = "create", !.domains = domains]]
    /\ UNCHANGED <<domainsOf, aliasOf, disturbed, claimed>>

\* Binder b has stored its list in place of old: the dropped domains come next.
Swapped(b, old) ==
    LET r == RepoOf[b]
        new == bind[b].domains
    IN /\ domainsOf' = [domainsOf EXCEPT ![r] = new]
       /\ claimed' = [d \in Domains |-> IF d \in new THEN claimed[d] \cup {r} ELSE claimed[d]]
       /\ bind' = [bind EXCEPT ![b].pc = "unbind", ![b].old = old, ![b].todo = old \ new]
       /\ UNCHANGED <<aliasOf, disturbed>>

\* PutIfNotExists.
Create(b) ==
    /\ bind[b].pc = "create"
    /\ IF domainsOf[RepoOf[b]] = NoEntry
       THEN Swapped(b, {})
       ELSE /\ bind' = [bind EXCEPT ![b].pc = "read"]
            /\ UNCHANGED <<domainsOf, aliasOf, disturbed, claimed>>

\* Get.  An error of any kind starts the loop over.
Read(b) ==
    /\ bind[b].pc = "read"
    /\ \/ bind' = [bind EXCEPT ![b].pc = "swap", ![b].old = domainsOf[RepoOf[b]]]
       \/ bind' = [bind EXCEPT ![b].pc = "create"]
    /\ UNCHANGED <<domainsOf, aliasOf, disturbed, claimed>>

\* Mutant: the list is stored without the comparison.
AnyList(b) == TRUE

\* The list is still the one this binder read.
Unchanged(b) == domainsOf[RepoOf[b]] = bind[b].old

\* CompareAndSwap; another binder's swap sends this one round again.
Swap(b) ==
    /\ bind[b].pc = "swap"
    /\ IF Unchanged(b)
       THEN Swapped(b, bind[b].old)
       ELSE /\ bind' = [bind EXCEPT ![b].pc = "create"]
            /\ UNCHANGED <<domainsOf, aliasOf, disturbed, claimed>>
-----------------------------------------------------------------------------
(* The entries of the domains *)

\* A step for a list that another binder of the repository has replaced.
Late(b) == IF domainsOf[RepoOf[b]] # bind[b].domains THEN {RepoOf[b]} ELSE {}

\* Unbind of one dropped domain, whoever holds it by now; a failure is ignored.
Unbind(b, d) ==
    /\ bind[b].pc = "unbind"
    /\ d \in bind[b].todo
    /\ bind' = [bind EXCEPT ![b].todo = @ \ {d}]
    /\ \/ /\ aliasOf' = [aliasOf EXCEPT ![d] = NoEntry]
          /\ disturbed' = disturbed \cup Late(b)
       \/ /\ disturbed' = disturbed \cup {RepoOf[b]}
          /\ UNCHANGED aliasOf
    /\ UNCHANGED <<domainsOf, claimed>>

\* Mutant: only the first Bind of a repository puts its domains.
PutOnce(b) == IF bind[b].old = {} THEN bind[b].domains ELSE {}

\* The domains the second loop puts.
ToPut(b) == bind[b].domains

Unbound(b) ==
    /\ bind[b].pc = "unbind"
    /\ bind[b].todo = {}
    /\ bind' = [bind EXCEPT ![b].pc = "put", ![b].todo = ToPut(b)]
    /\ UNCHANGED <<domainsOf, aliasOf, disturbed, claimed>>

\* aliasMeta.
AliasMeta(b) == RepoOf[b]

\* Put of one domain, over any other repository's entry; a failure is ignored.
PutAlias(b, d) ==
    /\ bind[b].pc = "put"
    /\ d \in bind[b].todo
    /\ bind' = [bind EXCEPT ![b].todo = @ \ {d}]
    /\ \/ /\ aliasOf' = [aliasOf EXCEPT ![d] = AliasMeta(b)]
          /\ disturbed' = disturbed \cup Late(b)
       \/ /\ disturbed' = disturbed \cup {RepoOf[b]}
          /\ UNCHANGED aliasOf
    /\ UNCHANGED <<domainsOf, claimed>>

Return(b) ==
    /\ bind[b].pc = "put"
    /\ bind[b].todo = {}
    /\ bind' = [bind EXCEPT ![b] = NoBind]
    /\ UNCHANGED <<domainsOf, aliasOf, disturbed, claimed>>

\* PutIfNotExists or CompareAndSwap fails, which Bind returns ...
Fail(b) ==
    /\ bind[b].pc \in {"create", "swap"}
    /\ bind' = [bind EXCEPT ![b] = NoBind]
    /\ UNCHANGED <<domainsOf, aliasOf, disturbed, claimed>>

\* ... or the server goes down in the middle of the two loops.
Crash(b) ==
    /\ bind[b].pc \in {"unbind", "put"}
    /\ bind' = [bind EXCEPT ![b] = NoBind]
    /\ disturbed' = disturbed \cup {RepoOf[b]}
    /\ UNCHANGED <<domainsOf, aliasOf, claimed>>
-----------------------------------------------------------------------------
AliasNext ==
    \E b \in Binders :
        \/ \E domains \in Lists[RepoOf[b]] : Bind(b, domains)
        \/ Create(b) \/ Read(b) \/ Swap(b) \/ Unbound(b) \/ Return(b) \/ Fail(b) \/ Crash(b)
        \/ \E d \in Domains : Unbind(b, d) \/ PutAlias(b, d)

AliasSpec == AliasInit /\ [][AliasNext]_aliasVars
-----------------------------------------------------------------------------
(* Properties *)

\* Binder b of repository r has still to unbind d.
WillUnbind(r, d) ==
    \E b \in Binders : /\ RepoOf[b] = r
                       /\ bind[b].pc = "unbind"
                       /\ d \in bind[b].todo

\* Domain d does not go on serving a repository that has dropped it: every
\* domain that a swap takes off the list is in the hands of exactly the binder
\* that swapped.  This survives concurrent Binds of one repository up to a
\* failed, interrupted or late call; after one the entry stays for good,
\* because the next Bind compares with the new list (alias.go:44-77).
DroppedDomainIsUnbound ==
    \A r \in Repositories \ disturbed, d \in Domains :
        aliasOf[d] = r => d \in domainsOf[r] \/ WillUnbind(r, d)

Between(r) == \E b \in Binders : RepoOf[b] = r /\ bind[b].pc \in {"unbind", "put"}

\* A listed domain that no other repository ever listed serves its repository
\* once the Bind is through.  (A domain two repositories listed need not: each
\* overwrites the other's entry, and the one that drops it deletes it.)
ListedDomainServes ==
    \A r \in Repositories \ disturbed, d \in Domains :
        domainsOf[r] # NoEntry /\ d \in domainsOf[r] /\ claimed[d] = {r} /\ ~Between(r) =>
            aliasOf[d] = r
=============================================================================
