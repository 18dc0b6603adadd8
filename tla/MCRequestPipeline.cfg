SPECIFICATION FairSpec
CONSTANTS
    r1 = r1
    r2 = r2
    g1 = g1
    g2 = g2
    Groups = {g1, g2}
    Requests = {r1, r2}
    Commits = {1, 2, 3}
    NoGroup = NoGroup
    NoCommit = 0
    MaxPending = 3
    Site <- MCSite
    Hostnames = {"alias"}
    Enabled = {"block", "redirect", "direct", "404", "failback", "template", "js", "reverse_proxy"}
    Base = "base"
    Setups <- MCSetups
    Visits <- MCVisits
    Absent = Absent
    NoOrigin = NoOrigin
INVARIANTS
    StaleOnlyByLateAttach
    ResponseIsNotMixed
    PolicyIsApplied
    PrivateNeedsCookies
PROPERTIES
    KilledRequestsLeave
CHECK_DEADLOCK FALSE
