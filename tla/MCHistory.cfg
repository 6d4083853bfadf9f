CONSTANTS
  Order <- Devices
  SlotCount = 2
  PerMinute = 2
  PerHour = 2
  SecondsKept = 3
  MinutesKept = 2
  HoursKept = 1
  Rounds = 6
SPECIFICATION Spec
INVARIANTS TypeOK KeepsLatest MinutesAreAverages HoursLackLastMinute NothingLeftOut
PROPERTIES StayingIsRecorded
CHECK_DEADLOCK FALSE
