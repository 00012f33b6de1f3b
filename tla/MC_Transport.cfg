SPECIFICATION FairSpec
CONSTANTS
    s1 = s1
    q1 = q1
    q2 = q2
    q3 = q3
    Session = {s1}
    RequestID = {q1, q2, q3}
    None = None
    OK = OK
    Failed = Failed
    Op <- MCOp
    Answer <- MCAnswer
    Timed <- MCTimed
    Large <- MCLarge
    Long <- MCLong
    MaxCalls = 2
    MaxFaults = 2
INVARIANTS
    TypeOK
    AnswersAreTrue
PROPERTIES
    AnsweredIsNotRepeated
    CallsAreAnswered
    ImplementsCalls
CHECK_DEADLOCK FALSE
