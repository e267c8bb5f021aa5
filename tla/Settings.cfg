SPECIFICATION InstallSpec
SYMMETRY Symmetry
CONSTANTS
  e1 = e1
  e2 = e2
  b1 = b1
  b2 = b2
  r1 = r1
  r2 = r2
  r3 = r3
  Events = {e1, e2}
  Others = {other}
  Binaries = {b1, b2, unnamed}
  Named = {b1, b2}
  Theirs = {theirs}
  Runs = {r1, r2, r3}
  Uninstall = uninstall
  Torn = Torn
  Blank = Blank
  Missing = Missing
  MaxSaves = 1
INVARIANT FileIsKept
PROPERTIES ReplacedIsBackedUp 
CHECK_DEADLOCK FALSE
