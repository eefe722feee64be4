CONSTANTS
  NIL = NIL
  Tables = {registry}
  Closures = {}
  Userdata = {u1}
  StringObjs = {s1}
  Registry = registry
  Main = Main
  NoObject = NoObject
  Slots = {1}
  Keys = {u1, s1}
  Modes = {{}, {"k"}, {"v"}, {"k", "v"}}
  GCSWEEPMAX = 1
  MaxStack = 2
  Full = TRUE
  LUA_MINSTACK = 2
  EXTRA_STACK = 1
  LUAI_MAXSTACK = 8
  ErrorSpace = 2
  MaxCCalls = 3
  FrameSizes = {1}
  MaxResults = 1
  HasTick = TRUE
  MaxEvents = 3
  Coroutines = {k1, k2}
  LUAI_MAXCCALLS = 5
  MaxFrames = 4
SPECIFICATION Spec
INVARIANTS HeapSound StackSound
PROPERTIES FinalizersSound CoroutinesSound
CHECK_DEADLOCK FALSE
