SPECIFICATION Spec
CONSTANTS
    Addresses <- MCAddresses
    Hosts <- MCHosts
    HostOf <- MCHostOf
    Routers = {"router"}
    Servers = {"first", "second"}
    Offer <- MCOffer
    Files = {"image", "typed"}
    NoFile = "none"
    Asked = "typed"
    Ids = {1, 2}
    RarpOrder = TRUE
    Stray = TRUE
    MaxFaults = 2
CHECK_DEADLOCK FALSE
INVARIANTS OneReply 
 
