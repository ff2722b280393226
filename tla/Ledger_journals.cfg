SPECIFICATION Spec
CONSTANTS
    Months = {1, 2}
    Years = {1}
    YearOf <- OneYear
    EndedYears = {1}
    Branches = {kt}
    Amounts = {2}
    Journals = {j1, j2, j3, j4}
    Workers = {w1, w2}
    NoJournal = NoJournal
SYMMETRY Symm
CONSTRAINT OneDeclared
INVARIANTS
    TypeOK
    ReversedAtMostOnce
    OneOpeningPerBranch
    ClosedOncePerYear
PROPERTY
    CloseLeavesNoResidue
