SPECIFICATION Spec
CONSTANTS
    Keyboards = {k1, k2}
    NoKbd = NoKbd
    TestKbd = k2
    Data = {d}
    Blank = Blank
    NoHeader = NoHeader
    KBD_SLOT_MAX = 1
    SEL_MAX = 2
INVARIANTS
    CommittedAsSent
