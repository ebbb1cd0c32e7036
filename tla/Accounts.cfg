\* A browser of two users and a superuser; two listings and a form of the sites; two new
\* devices, and every request on one; two attempts to create a user.
SPECIFICATION AccountsSpec
CONSTANTS
  l1 = l1
  l2 = l2
  s1 = s1
  d0 = d0
  a1 = a1
  a2 = a2
  c1 = c1
  y1 = y1
  o1 = o1
  p1 = p1
  u1 = u1
  u2 = u2
  None = None
  NoSite = NoSite
  NoneText = NoneText
  NoLabel = NoLabel
  NoDevice = NoDevice
  Nothing = Nothing
  ann = ann
  bob = bob
  People <- TwoPeople
  Superusers = {"eve"}
  Root = "root"
  Nobody = "nobody"
  Warehouses = {"w1", "w2"}
  Settings <- SomeSettings
  MaxMoves = 2
  SiteIds = {1, 2, 3}
  Labels = {"x", "y", "z"}
  Sites0 <- TheSites
  ListSize = 2
  Listings <- TwoListings
  SiteForms <- OneSiteForm
  MaxRenames = 1
  First = d0
  DeviceAdds <- TwoAdds
  DeviceForms <- OneDeviceForm
  DeviceSyncs <- OneDeviceSync
  DeviceRotates <- OneDeviceRotate
  DeviceRepairs <- OneDeviceRepair
  DeviceNames = {"n", "m"}
  MaxCalling = 3
  Attempts <- TwoAttempts
SYMMETRY Persons
INVARIANTS
  AccountsTypeOK
  CallerIsUser
  SiteOutsideScopeOnlyByChange
  QuietMirrorIsExact
  DeviceIsServers
  OrphanDeviceOnlyByError
  CreatedUserIsWhole
PROPERTIES
  RowVanishesOnlyByRaceSwapOrLimit
\* Every request may end: the system stops.
CHECK_DEADLOCK FALSE
