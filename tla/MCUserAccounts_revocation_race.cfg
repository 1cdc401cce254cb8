CONSTANTS
  root = root
  adm = adm
  usr = usr
  ghost = ghost
  Users = {root, adm, usr}
  Requests = {r1, r2, r3}
  Commands <- MCCommands
  InitRole <- MCInitRole
  InitActive <- MCAllActive
  SessionIds = {s1, s2, s3}
  TTL = 1
  MaxPwVersion = 3
  Capacity = 6
  NoReq = NoReq
  NoSession = NoSession
SPECIFICATION Spec
INVARIANT DeactivatedUserHasNoSession
