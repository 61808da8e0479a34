SPECIFICATION Spec
CONSTANTS
    person = person
    order = order
    Key = {k1}
    Manual = {m1}
    Content = {person, order, leak}
    None = None
    Detected <- Found
    Declared = "internal"
    Maximum = "confidential"
    Caller = {c1, c2}
    Admin = {a1, a2}
    MaxFaults = 2
CHECK_DEADLOCK FALSE
INVARIANT VerifiedIsBacked
INVARIANT DeletedIsGone
PROPERTY StoredIsCommitted
