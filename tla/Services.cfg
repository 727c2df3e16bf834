\* The services that share no state, one at a time.
SPECIFICATION Spec
CONSTANTS
  Part = {"quarantine", "detection", "intake", "reminder",
          "frequency", "pipeline", "lockdown", "actions"}
  Role = {a, b}
  Exempt = {}
  Policy = {b}
  MaxSnaps = 2
  MaxSwitches = 4
  MaxRoleMoves = 2
  QuarantineFaults = 1
  Mod = {m1, m2}
  Nobody = Nobody
  DetectionStarts = 3
  DetectionFaults = 1
  Cand = {x, y}
  NoCand = NoCand
  IntakeHandler = {h1, h2}
  IntakeStarts = 5
  IntakeFaults = 1
  Stale = 2
  VeryStale = 4
  Repeat = 2
  Interval = 2
  Window = 1
  LongPending = 1
  ReminderFaults = 1
  Threshold = {1, 2}
  Timeframe = {1, 2}
  CleanupEvery = 2
  LastMoment = 3
  MaxChecks = 4
  FrequencyChanges = 1
  MaxScans = 2
  Profile = {"newcomer", "staff"}
  AlertWindow = 0
  ObservedMin = 20
  ActionMin = 70
  LastScanMoment = 1
  Category = {k1}
  Channel = {c1, c2}
  NoCategory = NoCategory
  Others = {0, 1}
  MaxEdits = 1
  LockdownFaults = 1
  ActionHandler = {h1, h2}
  Grants = {{"moderate"}, {"kick"}, {"ban", "manage"}, {"admin"}}
  ConfirmTtl = 1
  MaxRecords = 1
  MorePresses = 1
  ActionTurns = 1
  ActionFaults = 1
INVARIANTS
  TypeOK
  ClaimIsTrue
  FrequencyIsExact
  AlertIsTracked
PROPERTIES
  
  ReportIsOfTarget
  
  
  ActsWithLeave
CHECK_DEADLOCK FALSE
