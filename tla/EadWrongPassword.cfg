SPECIFICATION Spec
CONSTANTS
  c1 = c1
  c2 = c2
  c3 = c3
  alice = alice
  bob = bob
  carol = carol
  pwA = pwA
  pwB = pwB
  saltA = saltA
  saltB = saltB
  node = node
  Clients = {c1, c2, c3}
  Users = {alice, bob, carol}
  Passwords = {pwA, pwB}
  Salts = {saltA, saltB}
  Nids = {node}
  Broadcast = Broadcast
  Sids = {0, 1}
  Duplicates = TRUE
  Failures = {"memory", "key", "fork"}
  NoUser = NoUser
  NoPass = NoPass
  NoSalt = NoSalt
  NoKey = NoKey
  NoPkt = NoPkt
  EAD_MAX_IV_INCR = 2
  IvOfs = {1}
  MaxIv = 3
  Nid = node
  InstanceId = 0
  BigEndian = FALSE
  MaxTs = 2
  MaxRounds = 1
  MaxOut = 1
  MaxRestarts = 0
  Impatient = {c2}
  PasswdFile <- MCPasswdFile
  Args <- MCWrongPassword
INVARIANTS
  SuccessMeansConfirmed
  OnlyAuthorisedRun
  SuccessMeansRan
CHECK_DEADLOCK FALSE
