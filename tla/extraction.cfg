\* two pages, up to three regions found on the first; tables of three rows; short bodies
CONSTANTS
  Scenes <- MCScenes
  Prints <- MCPrints
  Readings <- MCReadings
  Reviewed <- MCReviewed
  Plain <- MCPlain
  Blank = 0
  NoCell = NoCell
  MinChars = 2
  MaxChars = 4
SPECIFICATION Spec
INVARIANTS LinesStayCovered ReadingOrderKept TextFromOwnCrop OnePassKept CellsInPlace ParagraphsKeepText
CHECK_DEADLOCK FALSE
