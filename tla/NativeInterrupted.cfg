SPECIFICATION Spec
INVARIANT CleansUpWhateverArrives
CHECK_DEADLOCK FALSE
