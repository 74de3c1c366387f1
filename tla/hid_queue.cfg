\* Three slots per queue, two contents, one report id on IF1.
SPECIFICATION FairSpec
CONSTANTS
  Capacity = 3
  KbdId = kbd
  ExtraId = {nkro}
  Data = {up, down}
  Blank = up
  NoShadow = none
INVARIANTS
  KbdLastWord
  ShadowIsLastQueued
PROPERTIES
  ImplementsOutbox
  KbdSettles
