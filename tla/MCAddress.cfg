CONSTANTS
    WordBytes = 2
    SHA256 <- MCSha
    PUBLIC_KEY_LEN = 2
    CHECKSUM_LEN = 4
    ADDRESS_LEN = 11
    KeyLengths = {1, 2}
    Keys <- MCKeys
    Versions = {0, 1, 255}
    Alterations <- MCAlterations
SPECIFICATION Spec
INVARIANTS
    ScratchHoldsPrefix
    LimbsHoldPrefix
    AddressRoundTrip
    NothingLeaks
    AddressFits
CHECK_DEADLOCK FALSE
