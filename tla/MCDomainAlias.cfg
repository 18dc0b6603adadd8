SPECIFICATION AliasSpec
CONSTANTS
    Repositories <- MCRepos
    Domains <- MCDomains
    Binders <- MCBinders
    RepoOf <- MCRepoOf
    Lists <- MCLists
    NoEntry = NoEntry
INVARIANTS
    DroppedDomainIsUnbound
    ListedDomainServes
