SPECIFICATION Spec
CONSTANTS
    Agent = {a1}
    Profile = {p1}
    RunID = {r1, r2}
    RequestID = {q1, q2, q3, q4}
    Handler = {h1, h2}
    None = None
    MaxStopOps = 2
SYMMETRY Symmetry
INVARIANTS
    TypeOK
    DispatchedOnce
    OneWorkerPerAgent
PROPERTIES
    StartOutcomeIsFinal
