SPECIFICATION FairSpec
CONSTANTS
  Interfaces <- Both
  Checks = {"stop", "pass"}
  NetChanges = "quiet"
  MaxChanges = 3
  MaxPhones = 2
INVARIANTS
  BluetoothAlone
  SwitchInv
PROPERTIES
  AirPlayComesBack
CHECK_DEADLOCK FALSE
