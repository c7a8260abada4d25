SPECIFICATION FairSpec
CONSTANTS
    d1 = d1
    d2 = d2
    d3 = d3
    d4 = d4
    i1 = i1
    i2 = i2
    i3 = i3
    Devices = {d1, d2, d3}
    IDs = {i1, i2, i3}
    None = None
    Ops = {o1}
    IdOf <- MCIdOf
    Limit = 1
CHECK_DEADLOCK FALSE
PROPERTY
    ClosedGoesDown
INVARIANTS
    LimitRespected
    RegisteredIsOpen
    NoZombie
    Accounting
