SPECIFICATION Spec
CONSTANTS
  Holder = {v, w}
  MaxMemes = 2
  Editions = {2, 5}
  MaxNextgen = 2
  MaxDay = 4
  MaxMoves = 1
  GradientEdition = 2
PROPERTIES SameAllDay
CHECK_DEADLOCK FALSE
