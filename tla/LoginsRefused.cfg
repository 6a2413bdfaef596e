SPECIFICATION Spec
CONSTANT
    MaxInstalls = 1
INVARIANT LoginAlwaysOffered
CHECK_DEADLOCK FALSE
