CONSTANTS
  a1 = a1  a2 = a2
  Alarms = {a1, a2}
  NoAlarm = NoAlarm
  PeriodicAlarms = {a1}
  Target <- OneEach
  Clients = {"client"}
  Users <- Disciplined
  Periods = {1, 2}
  TIMER_INTERVAL_FOR_WAKELOCK_IN_MS = 2
  MaxSignals = 2
  MayFree = TRUE
  MayCleanup = TRUE
  WakelockMayFail = TRUE
  MloopMayStop = TRUE
  Off = Off
SPECIFICATION Spec
INVARIANTS OnlyDueCallbacks 
PROPERTY KeepsPromise
CHECK_DEADLOCK FALSE
