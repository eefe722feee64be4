CONSTANTS
  a = a
  b = b
  Chars = {a, b, "r"}
  Lines <- MCLines
  READLINE_BUFFER_LEN = 3
  MaxSent = 4
  MaxReads = 5
  Values <- MCValues
  NoFile = NoFile
  Rests <- MCRests
  MaxSaves = 3
  MaxCuts = 2
  FIFO = 2
  SpiLengths = {1, 5}
  I2cLengths = {1, 3}
  Micros = {1, 3}
  Long = 2
  Word = 4
  MaxNow = 5
  MaxOps = 2
  AUX_FIFO = 2
  AuxLengths = {0, 1, 4, 6, 10}
  MaxAuxOps = 3
  Garbage = Garbage
  SomePins = {7, 31, 49}
  LevelPins = {31}
  Modes = {1, 7}
  Masks <- MCMasks
  Speeds = {1, 30500, 999999, 4000000, 200000000}
  Dividers = {62, 5000}
  MaxPinCalls = 2
  NIL = NIL
SPECIFICATION Spec
INVARIANTS LinesIntact StoreSound
PROPERTIES TransferExact PinsSound CallsEnd
CHECK_DEADLOCK FALSE
