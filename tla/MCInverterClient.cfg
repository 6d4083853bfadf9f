CONSTANTS
  Chain <- FetchOrder
  Scan <- FetchOrder
  Always = {"inverter"}
  Timed = {"storage"}
  Late = {"storage"}
  MaxTrouble = 2
SPECIFICATION FairSpec
INVARIANTS TypeOK NoMissedWakeup
PROPERTIES ImplementsConnection Recovers StaleIsZeroed
