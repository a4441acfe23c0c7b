SPECIFICATION GatewaySpec
CONSTANTS
  Servers = {t1, t2}
  Admin = Admin
  Identities = {alice, bob}
  Slugs = {s1, s2}
  Nobody = Nobody
  NoSlug = NoSlug
  MaxPort = 2
  MaxCommands = 1
  Alongside = 0
SYMMETRY Symmetry
INVARIANTS GatewayInv PortsDiffer RoutedToOwn
PROPERTIES OnlyOwnRollback
