SPECIFICATION LiveSpec
CONSTANTS
    Accounts = {a1}
    Logins = {l1}
    Callers = {c1, c2}
    None = None
    MaxProofs = 1
    MaxLogouts = 0
    MaxCrashes = 0
PROPERTIES
    WaitersResume
CHECK_DEADLOCK FALSE
