SPECIFICATION Spec
CONSTANTS
    Ops = {o1, o2}
    CHUNKS = 2
    HID_RAW_QUEUE_MAX = 5
    None = None
INVARIANTS
    SavedIsWhole
    NoFalseSuccess
PROPERTIES
    TaskUndisturbed
    NothingDropped
SYMMETRY OpsSymmetry
