SPECIFICATION MCSpec
CONSTANTS
  LoggedIds = {p, q}
  StorageTime = 1
  LastTime = 3
  MaxBatches = 3
  MaxFaults = 2
  Keys = {k1, k01, other, none}
  Spellings = {k1, k01}
  NoKey = none
  Bodies = {x, y}
  NoBody = empty
  MaxWrites = 4
  UserNames = {a, b, s}
  SplitNames = {s}
  Passwords = {x}
  Levels = {none, expert}
  NoLevel = none
  MaxChanges = 3
  MaxKills = 1
  Readings <- MCReadings
  Multicasts = {"XtenderMulticast", "VarioStringMulticast"}
  Numbers = {770}
  Times <- MCTimes
  AccessParts = {a1, a2}
  DeviceParts = {d1, d2}
  NumberParts = {n}
  Star = star
  Intervals = {0, 60, 300}
  MaxLines = 4
  People = {"anne", "bert"}
  Guest = ""
INVARIANTS
  BatchesAreWhole
  CommittedIsKept
  AnswersAgree
  ReadsLatest
  UndisturbedIsExact
  LevelsWereGranted
  WrittenIsRead
  OverlapsAreCrossed
  CommandsAgree
PROPERTIES
  WriteTouchesOne
CHECK_DEADLOCK FALSE
