SPECIFICATION LiveSpec
CONSTANTS
  eth = eth
  wlan = wlan
  lan = lan
  vlan = vlan
  None = None
  Bridge = Bridge
  Devs = {eth, wlan, lan, vlan}
  Slots = {r1, r2}
  Fds = {f1}
  Requests <- Relays
  PreemptRcu = {FALSE, TRUE}
INVARIANTS
  RelaysIntact
  NothingFreedInUse
  NothingLeft
PROPERTIES
  RtnlReleased
  UnregisterCompletes
CHECK_DEADLOCK FALSE
