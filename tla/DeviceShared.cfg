SPECIFICATION Spec
CONSTANTS
    s1 = s1
    s2 = s2
    s3 = s3
    s4 = s4
    s5 = s5
    s6 = s6
    k1 = k1
    k2 = k2
    Senders = {s1, s2}
    Keys = {k1, k2}
    EmptyKey = EmptyKey
    NoKey = NoKey
    None = None
    KeyOf <- MCKeyOf
    QueueSize = 2
    EnforceSource = FALSE
    ManagerReasons <- MCBothReasons
SYMMETRY Symmetry
INVARIANTS
    SuccessIsDelivery
    TransactionCleared
    EnvelopeReportedOnce
    SentOrFailed
    PendingIffOpen
PROPERTIES
    NothingDropped
    OutcomeIsFinal
    
