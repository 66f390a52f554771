SPECIFICATION Spec
CONSTANTS
  ROWS = 3
  COLS = 4
  TAB = 2
  BASE = 4
  StartRow = 1
  letter = letter
  typed = typed
  caret = caret
  Glyph = {letter, typed, caret}
  NEWLINE = NEWLINE
  BACKSPACE = BACKSPACE
  TABULATOR = TABULATOR
  BLANK = BLANK
  MainChars <- MCMainChars
  KeyTexts <- MCKeyTexts
  MaxMain = 3
  MaxKeys = 2
INVARIANT CursorFollows
