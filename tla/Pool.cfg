SPECIFICATION Spec
CONSTANTS
    t1 = t1 t2 = t2 t3 = t3 t4 = t4 t5 = t5
    Topic = {t1, t2, t3, t4, t5}
    Limit = 2
    MaxSockets = 2
INVARIANT PoolInv
PROPERTIES ImplementsTopicSet
