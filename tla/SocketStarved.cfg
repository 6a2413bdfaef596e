SPECIFICATION FairSpec
CONSTANTS
    t1 = t1 t2 = t2
    Topic = {t1}
    Limit = 2
    Chunk = 1
PROPERTIES ReconnectDespiteTraffic
