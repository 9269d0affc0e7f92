CONSTANTS
    Msg = {m1, m2}
    NoMsg = NoMsg
    QCap = 4
    CtrMod = 8
SPECIFICATION Spec
INVARIANTS TypeOK NoOverrun
PROPERTY Refinement
