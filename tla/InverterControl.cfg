CONSTANTS
  Chain <- FetchOrder
  Scan <- FetchOrder
  Always = {"inverter"}
  Timed = {"storage"}
  Late = {"storage"}
  MaxTrouble = 1
SPECIFICATION FairSpec
PROPERTIES ControlGetsEnabled
