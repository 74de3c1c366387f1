\* Two instances, two keyboards and a mouse, one key, a queue of one.
SPECIFICATION Spec
CONSTANTS
  CFG_TUH_HID = 2
  USBH_HID_QUEUE_MAX = 1
  Keyboard = {k1, k2}
  Other = {m1}
  Key = {a}
  NoDev = none
SYMMETRY KeyboardSymmetry
INVARIANTS
  EndsAsHeld
  MatrixIsMerge
  SelectedIsPreferred
