SPECIFICATION PartsSpec
CONSTANTS
  w1 = w1 w2 = w2 m1 = m1 d1 = d1 p1 = p1 n1 = n1 n2 = n2 t1 = t1 t2 = t2
  u1 = u1 u2 = u2 u3 = u3 u4 = u4 o1 = o1 o2 = o2
  h1 = h1 h2 = h2 q1 = q1 q2 = q2 r1 = r1 r2 = r2 a1 = a1 a2 = a2
  i1 = i1 i2 = i2 v1 = v1 v2 = v2
  NoSocket = NoSocket
  Sockets = {w1, w2}
  Machines = {m1}
  MachineOf <- OneMachine
  Revocations = {d1}
  Target <- OneTarget
  MaxRestarts = 1
  NoMachine = NoMachine Damaged = Damaged NoProcess = NoProcess NoToken = NoToken
  NoProfile = NoProfile Broken = Broken
  Profiles = {p1}
  Platforms = {"linux", "darwin", "win32"}
  MachineIds = {n1, n2}
  EnrollmentTokens = {t1, t2}
  Installed <- V1
  Releases <- NewReleases
  MaxCommands = 2
  MaxRefusals = 1
  MaxReboots = 1
  Users = {u1, u2, u3, u4}
  Organizations = {o1, o2}
  OrganizationOf <- OrganizationOfUser
  OrganizationSlots = 2
  UserSlots = 1
  OrganizationLimit = 2
  UserLimit = 1
  WindowLength = 2
  MaxTrackedKeys = 3
  MaxTime = 4
  MaxPings = 2
  Humans = {h1, h2}
  Clients = {q1, q2}
  HumanOf <- HumanOfClient
  AccessRequests = {r1, r2}
  Agents = {a1, a2}
  NoAgent = NoAgent
  Nobody = Nobody
  MaxLosses = 1
  Invocations = {i1, i2}
  Servers = {v1, v2}
  AnyServer = AnyServer
  Missing = Missing
  Partial = Partial
  Grants = {1, 2}
  MaxRefresh = 2
  MaxUses = 4
INVARIANTS PartsTypeOK OneLiveConnection  EnrollmentIsExclusive LimitsHold OneOrganization RevocationHolds TokensStayHome
PROPERTIES ImplementsWindows RevokedStaysOut CloseIsNoticed ReportsAreTrue
CHECK_DEADLOCK FALSE
