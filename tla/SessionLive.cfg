SPECIFICATION LiveSpec
CONSTANTS
    Accounts = {a1}
    Logins = {l1}
    Callers = {c1}
    None = None
    MaxProofs = 2
    MaxLogouts = 1
    MaxCrashes = 0
PROPERTIES
    RenewalRequestsServed
    LogoutEnds
CHECK_DEADLOCK FALSE
