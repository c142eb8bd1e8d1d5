CONSTANTS
    Requests = {r1, r2, r3}
    Cooldown = 2
    CodeTtl = 3
    MaxAttempts = 2
    MaxCodes = 2
    MaxTime = 4
SPECIFICATION Spec
SYMMETRY Symmetry
INVARIANTS OneActiveCode AttemptsBounded
PROPERTIES LastCodeWins CooldownKept
