SPECIFICATION Spec
CONSTANTS
    Identities = {i1}
    Emails = {e1, e2}
    Accounts = {a1, a2}
    Requests = {r1, r2}
    None = None
    MaxChanges = 1
    MaxFaults = 0
CHECK_DEADLOCK FALSE
INVARIANT FirstLoginsConverge
