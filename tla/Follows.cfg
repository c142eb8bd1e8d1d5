CONSTANTS
    Users = {ana, bia}
    Requests = {r1, r2}
    MaxFollows = 2
SPECIFICATION Spec
SYMMETRY Symmetry
INVARIANTS CountersFollowRows BlocksSever
\* A handler stops when the pool of rows, a bound, is used up.
CHECK_DEADLOCK FALSE
