CONSTANTS
  Sizes = {small, large}
  MaxInits = 2
  MaxTold = 1
  Terminals = {s}
  Desktop = r
  MaxOpens = 3
SPECIFICATION Spec
INVARIANTS ActiveTabIsOpen FrameIsUsable
PROPERTIES DotSettles DesktopFits
