SPECIFICATION FairSpec
CONSTANTS
    Leases = {l1, l2}
    Timeouts = {1, 2, 3}
    None = None
    MaxRequests = 4
    MaxCallbacks = 2
INVARIANTS
    
    LeaseLastsAsPromised
PROPERTIES
    SilenceExpires
