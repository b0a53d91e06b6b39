SPECIFICATION PartsSpec
CONSTANTS
  KeptBuilds = 1
  MaxBuilds = 2
  MaxFaults = 1
  MaxMachines = 2
  MaxWishes = 3
  MaxTroubles = 2
  Names = {x, y}
  Ports = {1, 2}
  MaxAsks = 3
  MaxBreaks = 1
  Machines = {x, y}
  MaxActs = 4
  MaxCuts = 1
  Callers = {x, y}
  MaxCalls = 3
  MaxSlips = 1
  Hosted = {x, y}
  Budget = 2
  MaxBoots = 3
  MaxUpsets = 1
  Boxes = {x, y}
  UrlPorts = {1, 2}
  Users = {x, y}
  MaxUses = 3
  MaxMishaps = 1
  Readers = {x, y}
  MaxWrites = 3
  JoinedWait = 3
  LongestBackoff = 2
  MaxDemands = 4
  MaxFlaws = 2
  Tasks = {x, y, z}
  MaxTurns = 6
  MaxOrders = 4
  MaxTrips = 2
  SiteCount = 3
  MaxCreations = 1
  MaxShifts = 1
SYMMETRY Symmetry
INVARIANTS StoreWhole StoreClean ReadyHasCopy CloneIsOwn BuiltGo BasesGo RestoreWorks RamTrue ForwardersTrue OwnIdentity AnswersOwn RoomKept UrlsLead HeldWakes StandsChecked GateHolds TartTrue PlacedRight
CHECK_DEADLOCK FALSE
