CONSTANTS
    Signers = {s1, s2}
    RawKeys = {r1}
    PKeys = {p1}
    Sigs = {g1}
    Files = {f1}
    Messages = {m1, m2}
    Lengths <- MCLengths
    MaxKeys = 2
    MaxBlocks = 5
SPECIFICATION Spec
INVARIANTS
    OneOwner
    VerdictIsRight
CHECK_DEADLOCK FALSE
