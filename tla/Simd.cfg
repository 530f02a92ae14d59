CONSTANTS
    Threads = {t1, t2}
    Machines <- AllMachines
SPECIFICATION Spec
INVARIANTS
    RunsSupported
    SupportSettles
