CONSTANTS
    MAX_LINE_LENGTH = 64
    MAX_TOKEN_NAME_LENGTH = 16
    MAX_TOKEN_VALUE_LENGTH = 48
    MAX_STRING = 16
    Files <- MCFiles
    Stacks <- MCDirtyStacks
SPECIFICATION Spec
INVARIANTS
    ConfigIsTheFile
    UrlPortIsAPort
CHECK_DEADLOCK FALSE
