SPECIFICATION Spec
CONSTANTS
    Users = {u1, u2, u3, u4}
    Agents = {u1, u2}
    Target = 3
    Totals = {3, 4, 5}
    Unit = 2
    OneProcess = TRUE
INVARIANTS TypeOK Conserved SlotsAreFunded AnswersPaidOnce HoldersFit
PROPERTY ClosedIsFinal
SYMMETRY Symmetry
CHECK_DEADLOCK FALSE
