SPECIFICATION Spec
CONSTANTS
    alice = alice
    bob = bob
    q1 = q1
    q2 = q2
    create = create
    update = update
    NoReceipt = NoReceipt
    NoCall = NoCall
    Caller = {alice, bob}
    RequestID = {q1, q2}
    Payload = {create, update}
    MaxRevision = 3
INVARIANTS
    TypeOK
    AckedSurvives
    OneEffectPerRequest
    DurableLineSound
    UncertainStands
PROPERTY ImplementsLedger
