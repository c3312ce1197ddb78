SPECIFICATION Spec
CONSTANTS
    ERROR_HISTORY_LENGTH = 5
    Errors = {257, 2049}
    Spoiled = {}
INVARIANTS
    NumberIsPromise
PROPERTIES
    KeepsQueue
