SPECIFICATION Spec
CONSTANTS
    agent = agent
    reviewer = reviewer
    outsider = outsider
    t1 = t1
    t2 = t2
    r1 = r1
    r2 = r2
    r3 = r3
    None = None
    Agent = {agent, outsider}
    Caller = {agent, outsider, reviewer}
    Reviewer = {reviewer}
    TaskID = {t1, t2}
    ResultID = {r1, r2, r3}
    MaxTaskRevision = 7
INVARIANTS
    TypeOK
    ResultMatchesStatus
    PendingIsReviewable
PROPERTIES
    DecisionsAreFinal
