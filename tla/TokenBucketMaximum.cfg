SPECIFICATION Spec
CONSTANTS
    Threads = {t1, t2, t3}
    Capacity = 2
    Cost = 1
    Horizon = 4
SYMMETRY Symmetry
INVARIANT TheoreticalMaximum
