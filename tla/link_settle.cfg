\* One instance, a queue of three: where the matrix ends up.
SPECIFICATION FairSpec
CONSTANTS
  CFG_TUH_HID = 1
  USBH_HID_QUEUE_MAX = 3
  Keyboard = {k1}
  Other = {m1}
  Key = {a}
  NoDev = none
PROPERTY MatrixSettles
