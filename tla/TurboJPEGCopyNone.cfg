CONSTANTS
    Calls <- MarkerCalls
    Addresses = {a1, a2, a3}
    Worst = 3
SPECIFICATION Spec
INVARIANT
    CopyNoneCopiesNone
