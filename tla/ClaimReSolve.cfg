SPECIFICATION Spec
CONSTANTS
  Start = 0
  Stop = 9
  RecordFrom = 0
  DtInit = 4
  DtMin = 1
  DtMax = 5
  RejectDivisor = 2
  RestartDivisor = 1000
  Snap = 0
  DeviceHints = {1}
  BreakTimes = {2}
  DEvents <- MCEvents
  DTime <- MCTime
  DVal <- MCVal
  Boot = {}
  Follow <- MCFollow
  Hook = {"cross"}
  Unstable = {}
  SetIds = {1, 2, 3, 4, 5}
  SetTime <- MCSetTime
  SetParam <- MCSetParam
  SetValue <- MCSetValue
  Param = {"r", "g", "w", "s"}
  Value = {0, 1}
  Strength <- MCStrength
  Given <- MCGiven
INVARIANTS StagesStartAtStepStart
