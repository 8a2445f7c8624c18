SPECIFICATION Spec
CONSTANTS
    Datas = {d1}
    Handles = {h1, h2}
    Readers = {r1}
    MaxTime = 4
SYMMETRY MCSymmetry
INVARIANTS TypeOK DataIsDefinite LogIsWellFormed ForgottenIsApplied
           SinceBehindUnapplied
PROPERTIES ReadsAreComplete
