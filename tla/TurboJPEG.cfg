CONSTANTS
    Calls <- MCCalls
    Addresses = {a1, a2, a3}
    Worst = 3
SPECIFICATION Spec
INVARIANTS
    AnswersAsFresh
    CallsEndClean
    ResultsKept
SYMMETRY Alike
