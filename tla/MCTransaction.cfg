CONSTANTS
    Subjects <- MCStrings
    Payloads <- MCStrings
    Receivers <- MCReceivers
    IssuerAddress <- MCIssuer
    Times <- MCTimes
    Digests <- MCDigests
    Signatures <- MCSignatures
    PointerSize = 2
SPECIFICATION Spec
INVARIANTS
    FieldsAreSigned
    BlocksAccountedFor
CHECK_DEADLOCK FALSE
