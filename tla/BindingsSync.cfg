SPECIFICATION FairSpec
CONSTANTS
  n1 = n1
  n2 = n2
  u1 = u1
  admin = admin
  user = user
  adversary = adversary
  NoUid = NoUid
  Names = {n1, n2}
  Uids = {u1}
  UidOf <- MCUidOf
  BoundRoles = {admin, user}
  Adversary = adversary
  EditKinds = {"contain", "release"}
  RootSections <- MCSections
  MaxRoot = 2
  MaxLive = 1
  MaxFaults = 1
INVARIANTS ExplicitAgree ConflictsFailClosed
PROPERTIES ReleaseIsDeliberate NoSilentWinner UnattendedTightens Converges
