SPECIFICATION Spec
CONSTANTS
    Identities = {i1, i2}
    Emails = {e1, e2}
    Accounts = {a1, a2}
    Requests = {r1, r2, r3}
    None = None
    MaxChanges = 1
    MaxFaults = 1
SYMMETRY Symmetry
CHECK_DEADLOCK FALSE
INVARIANTS TypeOK SessionsMatchIdentity OneAccountPerIdentity
PROPERTIES NeverRebound
