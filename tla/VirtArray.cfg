\* An array of four rows opened at most two rows at a time.
CONSTANTS
    rows_in_array = 4
    maxaccess = 2
    Data = {zero, junk, a}
    Zero = zero
    Junk = junk
SPECIFICATION Spec
INVARIANT IInv
PROPERTY ImplementsPlainArray
