\* One key and that of the simulation, two instances, a queue of one report.
SPECIFICATION Spec
CONSTANTS
    Key = {a}
    SimKey = s
    LINK_SOURCE_MAX = 2
    USBH_HID_QUEUE_MAX = 1
    None = None
INVARIANTS
    NoStuckKey
    SimStaysInside
PROPERTY
    SimTells
