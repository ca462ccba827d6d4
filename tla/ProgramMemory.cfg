SPECIFICATION Spec
CONSTANTS
  Client <- MCClient
  Files <- MCFiles
  Number = {1, 2}
  a = a
  b = b
  Text = {a, b}
  Junk = Junk
  Blank = Blank
  Slots = 2
  SramLines = 1
  Capacity = 5
  WriteFaults = TRUE
INVARIANTS RegionsSound SearchIsFirstFit ProgramKept
