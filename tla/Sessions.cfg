CONSTANTS
    Requests = {r1, r2}
    Tokens = {t1, t2, t3}
    NoToken = none
    Reuse = 1
    MaxEra = 2
    MaxTime = 2
SPECIFICATION Spec
SYMMETRY Symmetry
INVARIANTS OneSuccessor SessionsEnd
