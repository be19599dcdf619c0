CONSTANTS
  ConfWords <- MCConfWords
  ConfGaps <- MCConfGaps
  ConfMaxWords = 1
  ConfPieces = {1, 5}
  ConfCutsLines = TRUE
SPECIFICATION ConfSpec
CHECK_DEADLOCK FALSE
INVARIANTS QuotedTextIsWhole
