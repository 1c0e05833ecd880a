\* Ids generated by the server: the list stays free of duplicates and the file keeps up.
CONSTANTS
    Clients = {c1, c2, c3}
    Ids = {r1, r2, r3}
    Names = {n1, n2}
    ClientIds = FALSE
SPECIFICATION Spec
SYMMETRY Symmetric
INVARIANTS
    TypeOK
    ImageIsCurrent
    SavedWhenQuiet
    DistinctRules
