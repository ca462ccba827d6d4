SPECIFICATION EditorSpec
CONSTANTS
  TabWidth = 2
  Typeable <- MCTypeable
  Numbers = {2}
  Programs <- MCPrograms
INVARIANTS UndoIsExact SavedMeansSaved LeftAsMarked CursorOnItsRow
CHECK_DEADLOCK FALSE
