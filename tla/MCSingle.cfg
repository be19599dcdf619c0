CONSTANTS
  ConfWords <- MCConfWords
  ConfGaps <- MCConfGaps
  ConfMaxWords = 2
  ConfPieces = {1, 2, 5}
  ConfCutsLines = FALSE
  JsonPieces = {1, 2, 5}
  JsonComments = TRUE
  FFS_FLTCAP = 4
  FFS_INTCAP = 3
  JsonSchemes <- MCJsonSchemes
  JsonStrings <- MCStrings
  JsonNumbers <- MCNumbers
  JsonMaxItems = 3
  Letters = {32, 65, 97, 98}
  TextMaxLen = 4
  WordMaxLen = 2
  NameWidth = 2
  ArgSchemes <- MCSchemes
  ArgWords <- MCWords
  ArgMaxWords = 3
  ArgUsedBits = 4
  ArgEntries <- MCEntries
  WideBits = 8
  NarrowBits = 4
  IntTexts <- MCIntTexts
  FloatTexts <- MCFloatTexts
  Widths = {0, 1, 2, 3, 5, 8}
  Parts <- MCParts
  FmtDirectives <- MCDirectives
  FmtMaxLen = 3
  FmtCaps = {0, 1, 3, 4, 6, 9, 10, 20}
  FmtIntCap = 5
  FmtFltCap = 8
  FmtFirst = 8
  MatchTexts <- MCMatchTexts
  MatchFormats <- MCMatchFormats
  UniChars <- MCChars
  UniBytes = {65, 128, 187, 191, 195, 239, 240, 254}
  UniUnits = {65, 2047, 55295, 55296, 56319, 56320, 57343, 57344}
  UniMaxLen = 4
  CodePage <- MCPage
  CalDays <- MCDays
  CalEvery = 11
  CalYears = {0, 1, 3, 4, 100, 399, 400, 2023}
  CalTimes <- MCTimes
  CalTexts <- MCTexts
  VecValues = {1, 2}
  VecStatic <- MCStatic
  VecMaxLen = 3
  VecMaxCap = 3
  StreamLen = 10
  StreamCaps = {1, 3}
  UIntMax = 7
  StreamPiece = 5
  Blocks = {1, 2, 3, 4}
  EntryNames = {1, 2}
  BlockCap = 1
  MaxEntries = 4
  StackSize = 2
  SortKeys = {1, 2, 3}
  SortMaxLen = 6
  SortSizes = {1, 2}
  SortSmall = 2
SPECIFICATION Spec
CHECK_DEADLOCK FALSE
INVARIANTS
  ConfReadsTheFile ConfTellsThePlace
  JsonReadsBack JsonWriterFits SchemeFillsTheObject ArgsAgree
   SortIsStable SearchesAgree
   FormatsFit  
  VecMemory GatherShowsTheStream
  WalksVisitAll CompareMergesTrees
