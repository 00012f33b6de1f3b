SPECIFICATION FairSpec
CONSTANTS
    m1 = m1
    m2 = m2
    ack1 = ack1
    None = None
    Agent = {1, 2, 3}
    Unsafe = {3}
    MessageID = {m1, m2}
    ForeignID = {m1}
    RecordID = {ack1}
    MaxFaults = 1
INVARIANTS
    TypeOK
    FactsAreTrue
    AcksAreTrue
PROPERTIES
    ProcessedUnlessBlocked
