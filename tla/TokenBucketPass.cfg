SPECIFICATION Spec
CONSTANTS
    Threads = {t1, t2, t3}
    Capacity = 5
    Cost = 2
    Horizon = 6
SYMMETRY Symmetry
INVARIANTS TypeOK AdmissionIsBounded NoTokenIsLost RetryAfterSuffices
