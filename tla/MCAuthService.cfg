SPECIFICATION FairSpec
CONSTANTS
    Browsers = {"b"}
    Tabs <- MCTabs
    BrowserOf <- MCBrowserOf
    Accounts = {"alice"}
    Pages = {"private"}
    Private = {"private"}
    CookiePages = {"private"}
    SessionIds = {s1, s2}
    StateIds = {l1, l2}
    None = None
    AuthzTTL = 1
    MaxDelay = 0
    MaxTroubles = 1
PROPERTIES
    DecisionIsRecent
    OneSessionPerLogin
    VisitEnds
