\* Nine frames on a link wrap the three-bit numbers.
SPECIFICATION Spec
CONSTANTS
  WindowSizeRX = 1
  MaxLinks = 2
  MaxSent = 9
  Disturbances = 3
INVARIANTS TypeOK NumbersAgree
CHECK_DEADLOCK FALSE
PROPERTIES StaleRefused CountsOnly
