CONSTANTS
  Inverters = {1, 2}
  Socs = {50, 98, 99}
  MaxPower = 6
  Priorities = {0}
  MinSocs = {0}
  MaxExports = {0}
SPECIFICATION Spec
PROPERTIES NothingNeededNothingAsked
