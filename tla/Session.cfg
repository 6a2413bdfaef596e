SPECIFICATION Spec
CONSTANTS
    Accounts = {a1, a2}
    Logins = {l1}
    Callers = {c1}
    None = None
    MaxProofs = 2
    MaxLogouts = 1
    MaxCrashes = 1
INVARIANT InFlightIsCurrent
PROPERTIES
    LateNeverInstalls
    ImplementsAbstract
CHECK_DEADLOCK FALSE
