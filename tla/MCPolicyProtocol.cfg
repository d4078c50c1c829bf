SPECIFICATION Spec
CONSTANTS
    board = board
    facility = facility
    auditor = auditor
    nova = nova
    c1 = c1
    c2 = c2
    c3 = c3
    o1 = o1
    n1 = n1
    Principals <- MCPrincipals
    Board <- board
    Projects <- MCProjects
    Components <- MCComponents
    Sources <- MCSources
    Outputs <- MCOutputs
    Notices <- MCNotices
    SourceLabels <- MCSourceLabels
SYMMETRY Symmetry
CHECK_DEADLOCK FALSE
INVARIANTS
    TypeOK
    Separation
    ReadsWithinKnows
    LabelsPropagate
    StoresClosed
