SPECIFICATION Spec
CONSTANTS
    Agent = {a1}
    Profile = {p1}
    RunID = {r1}
    RequestID = {q1, q2}
    Handler = {h1}
    None = None
    MaxStopOps = 1
PROPERTIES
    ExitedIsTerminal
