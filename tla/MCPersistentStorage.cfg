CONSTANTS
  Tasks = {t1, t2}
  NoTask = NoTask
  NoCall = NoCall
  Members = {"settings", "user_pwd", "hostname"}
  Sectors = {1, 2}
  Lies <- Layout
  Values = {v1, v2}
  Erased = Erased
  Torn = Torn
  Garbled = Garbled
SPECIFICATION Spec
INVARIANTS TypeOK OneInside
PROPERTIES ImplementsRegisters
