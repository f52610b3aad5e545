CONSTANTS
    Clients = {c1}
    m_process_num = 2
    Parts = 1
    MaxTerms = 1
SPECIFICATION FairSpec
PROPERTY PoolStops
CHECK_DEADLOCK FALSE
