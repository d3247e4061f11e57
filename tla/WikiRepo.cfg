SPECIFICATION Spec
CONSTANTS
    e1 = e1
    e2 = e2
    f1 = f1
    text = text
    Absent = Absent
    Editors <- TwoEditors
    Files <- OneFile
    Contents <- Texts
    MaxCommits = 4
SYMMETRY Symmetry
INVARIANTS
    TypeOK
    AcceptedIsKept
    NoSilentRevert
PROPERTIES
    HistoryGrows
    OvertakenForGood
CHECK_DEADLOCK FALSE
