SPECIFICATION Spec
CONSTANTS
    Keyboards = {k1, k2}
    NoKbd = NoKbd
    TestKbd = k2
    Data = {}
    Blank = Blank
    NoHeader = NoHeader
    KBD_SLOT_MAX = 2
    SEL_MAX = 3
INVARIANTS
    ActiveFits
    ServesOwnLayout
PROPERTY
    ImplementsChoice
