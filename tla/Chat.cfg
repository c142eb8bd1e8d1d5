CONSTANTS
    Users = {ana, bia}
    ana = ana
    bia = bia
    Requests = {r1, r2}
    Keys = {k1}
    NoKey = nokey
    Msgs = {m1, m2}
    NoMsg = nomsg
    Files = {f1, f2}
    NoFile = nofile
    Quota = 1
    Standings <- Come
    MaxCalls = 3
SPECIFICATION Spec
SYMMETRY Symmetry
INVARIANTS OncePerKey QuotaKept LiveMediaStored NoOrphans
PROPERTIES TombstonesRest
\* A handler stops when the pool of messages or files, a bound, is used up.
CHECK_DEADLOCK FALSE
