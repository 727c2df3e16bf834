\* What is kept for a guild, one part at a time.
SPECIFICATION FairSpec
CONSTANTS
  Part = {"live", "config", "commands", "setup", "trigger", "intake", "gate", "web"}
  MaxFaults = 1
  Nobody = Nobody
  Task = {t1}
  Timer = Timer
  MaxRows = 3
  MaxMessages = 4
  LiveChanges = 2
  Name = {s1}
  Id = {i1}
  NoConfig = NoConfig
  ConfigHandler = {h1, h2}
  Ttl = 2
  MaxUpdates = 2
  MaxCommands = 2
  SetupHandler = {h1, h2}
  MaxRoles = 2
  MaxChannels = 2
  MaxSetups = 2
  MaxOutside = 1
  Holder = {m1}
  TriggerHandler = {h1, h2, h3}
  TriggerMoves = 4
  MaxSwitches = 1
  Crowd = {m1, m2}
  Limit = 2
  CrowdMoves = 2
  MaxIntakes = 2
  GateHandler = {h1}
  MaxPresses = 2
  GateMoves = 1
  Person = {p, q}
  Session = {s1, s2}
  MaxKeys = 2
  MaxSubmits = 2
  WebChanges = 1
INVARIANTS
  TypeOK
  CommandsAreKept
  SetupIsSettled
  RoleIsTakenIn
  GateIsAsTold
PROPERTIES
  
  SettingsSettle
  GatesHold
CHECK_DEADLOCK FALSE
