\* Two slots, limits in ticks of 150 ms, waits of QMK of up to one tick.
SPECIFICATION FairReenumSpec
CONSTANTS
  KBD_SLOT_MAX = 2
  LINK_PID_BASE = 21504
  HW_USB_PID = 21254
  USB_REENUM_ARM_MS = 2
  USB_REENUM_QUIET_MS = 3
  USB_REENUM_GAP_MS = 1
  USB_BOOT_HOLD_MS = 4
  BusyMax = 1
INVARIANTS
  PidFollowsSlot
  HostSeesDescriptor
  DetachedOnTheWay
PROPERTIES
  ToolKeepsLink
  SettlesOnSlot
  YesMeansYes
