SPECIFICATION Spec
CONSTANTS
    Addresses <- MCAddresses
    Unmap <- MCUnmap
    None = None
    NoOrigin = NoOrigin
    Clients = {"c4", "c6"}
    Proxies = {"p1", "p2mapped"}
    Servers = {"s1", "s2"}
    V6 = {"c6", "p2mapped"}
    Hosts <- MCHosts
    Internal <- MCInternal
    Policies <- MCPolicies
    Denied = {{"p1"}}
    Resolutions <- MCResolutions
    MaxHops = 4
INVARIANTS
    ClientIsSeen
    SameOriginIsServed
CHECK_DEADLOCK FALSE
