CONSTANTS
    Users = {u1, u2, u3}
    Clients = {c1, c2}
    Limit = 2
    MaxMsgs = 1
    MaxTerms = 1
    m_process_num = 2
    Parts = 1
SPECIFICATION Spec
SYMMETRY Symmetry
INVARIANTS RecordsMatch ZombieIsNoticed AcceptFinds ProgramIsNoticed
CHECK_DEADLOCK FALSE
