SPECIFICATION DashboardFairSpec
CONSTANTS
  b1 = b1 u1 = u1 l1 = l1 l2 = l2 o1 = o1
  NoAnswer = NoAnswer NoToken = NoToken
  Tabs = {b1}
  Users = {u1}
  UserOf <- OneUser
  LiveTokens = {l1, l2}
  Organizations = {o1}
  OrganizationOf <- OneOrganization
  OrganizationSlots = 2
  UserSlots = 1
  MaxChanges = 2
  MaxRefreshes = 2
  MaxErrors = 1
INVARIANTS DashboardTypeOK SlotsAreStreams
 
CHECK_DEADLOCK FALSE
