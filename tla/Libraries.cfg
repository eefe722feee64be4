CONSTANTS
  n1 = n1
  n2 = n2
  n3 = n3
  IntKeys = {1, 2, 3, 5}
  StrKeys = {n1, n2, n3}
  HashOf <- MCHashOf
  NIL = NIL
  SomeValue = SomeValue
  Presizes = {0, 2}
  MaxSteps = 5
  Patterns <- MCPatterns
  Subjects <- MCSubjects
  NUL = "0"
  Programs <- MCPrograms
  Inputs <- MCInputs
  UpNames <- MCUpNames
  ParamNames <- MCParamNames
  Fuel = 200
  MAXINDEXRK = 2
  NBITS = 6
  NBM = 4
  LUA_NBITS = 4
  L_RANDMAX = 3
  SomeInts <- MCInts
  Floats <- MCFloats
  Numerals <- MCNumerals
  Unsigneds <- MCUnsigneds
  Codes <- MCCodes
  Utf8Texts <- MCUtf8Texts
  Sizes = {0, 1, 7, 8, 9, 15, 16, 17, 100, 127, 128, 129, 1000, 100000}
  MaxTurns = 4
  NB = 2
  SZSHORT = 1
  SZINTC = 2
  SZSIZET = 2
  SZLONG = 2
  MAXINTSIZE = 5
  MAXALIGN = 4
  MAXSIZE = 12
  NativeLittle = TRUE
  NoNumber = NoNumber
  ByteTexts <- MCBytes
  BytePositions <- MCBytePositions
  Formats <- MCFormats
  PackInts <- MCPackInts
  PackTexts <- MCPackTexts
  PackData <- MCPackData
  Gadgets <- MCGadgets
  Instances = {"usb0", "new"}
  Ids = {1, 3}
  NoGadget = NoGadget
  NoLabel = NoLabel
  Wrong = Wrong
  CharIsSigned = FALSE
  MaxCalls = 3
  MAXINTEGER = 7
  MaxUnpacked = 4
  RANLIMIT = 4
  Imbalance = 2
  Rnds = {0, 7}
  Lengths = {0, 1, 3}
  Positions <- MCPositions
  SortTasks <- MCSortTasks
  NewItem = NewItem
  Sep = Sep
  Protos <- MCProtos
  NULL = NULL
  MAXBYTESIZE = 4
  KernelMax = 3
  SmallMax = 2
  Langs = {1031, 1033}
  Texts <- MCTexts
  Numbers = {0, 18, 200, 300}
  MaxAttrCalls = 2
  Addrs <- MCAddrs
  Words16 = {0, 3}
  Strs <- MCStrs
  Reports <- MCReports
  MAX_LUNS = 3
  MaxFunctionCalls = 2
SPECIFICATION Spec
INVARIANTS TableSound MatchSound CodeMeansSource NumbersSound SchemeRoundTrip SettingsSound
CHECK_DEADLOCK FALSE
