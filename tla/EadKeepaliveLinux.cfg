SPECIFICATION Spec
CONSTANTS
  PCAP_TIMEOUT = 2
  EAD_TIMEOUT_LONG = 20
  Second = 10
  CmdTimeout = 3
  Latency = 1
  ClientUpdatesTv = TRUE
INVARIANTS
  ClientDoesNotTimeout
CHECK_DEADLOCK FALSE
