CONSTANTS
  g1 = g1  acm = acm  hid = hid  midi = midi  conf = conf  udc0 = udc0
  NoUdc = NoUdc  None = None  Freed = Freed
  MaxFaults = 2
  MaxKills = 1
  MaxReboots = 1
SPECIFICATION Spec
INVARIANTS ListsMatchTree HostSeesWhole OrphanNeverServed
PROPERTIES RecurseRemovesAll StartServes
