SPECIFICATION FairSpec
CONSTANTS
    w1 = w1
    w2 = w2
    local = local
    east = east
    west = west
    check = check
    host1 = host1
    host2 = host2
    blank = blank
    refused = refused
    me = me
    other = other
    d1 = d1
    d2 = d2
    DiscoveryWatches = {w1}
    RegistrationWatches = {w1}
    ChanSize = 2
    MaxChanges = 2
    MaxErrors = 1
    MaxEvents = 3
    MaxDatacenterChanges = 1
    MaxInstancers = 5
    Parts = {"discovery", "rehasher", "registration", "environment", "setup", "routing", "resolver"}
CHECK_DEADLOCK FALSE
INVARIANTS
    LastEventIsState
    OthersAreGone
    
    RunningIsHeld
    
    
PROPERTIES
    Converges
    PassesAgain
    
    
