SPECIFICATION FairSpec
CONSTANTS
    s1 = s1
    s2 = s2
    Stopper = {s1, s2}
    None = None
    MaxForks = 2
INVARIANTS
    TypeOK
    OneOutcome
    SuccessMeansGone
    SignalsAreBound
PROPERTIES
    TakenIsFinalized
