SPECIFICATION Spec
CONSTANTS
  Window = 3
  MaxLines = 5
INVARIANT SightingInv
PROPERTIES BlockedIsNotOverlooked ExactIsBlocked
CHECK_DEADLOCK FALSE
