CONSTANTS
  a1 = a1  a2 = a2
  Alarms = {a1, a2}
  NoAlarm = NoAlarm
  PeriodicAlarms = {}
  Target <- BothDefault
  Clients = {"client"}
  Users <- Disciplined
  Periods = {1, 2}
  TIMER_INTERVAL_FOR_WAKELOCK_IN_MS = 2
  MaxSignals = 2
  MayFree = FALSE
  MayCleanup = FALSE
  WakelockMayFail = FALSE
  MloopMayStop = FALSE
  Off = Off
SPECIFICATION FairSpec
INVARIANT RootIsArmed
PROPERTIES CalledInOrder EveryAlarmFires
CHECK_DEADLOCK FALSE
