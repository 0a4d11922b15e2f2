CONSTANTS
  g1 = g1
  v1 = v1
  v2 = v2
  main = main
  extra = extra
  k1 = k1
  k2 = k2
  Games = {g1}
  Versions = {v1, v2}
  Packages = {k1, k2}
  Names = {main, extra}
  EntriesOf <- TwoPackages
  Place <- Shared
  Paths <- SharedPaths
  Millis = {t1, t2}
  Uploads = {u1, u2}
  Publishes = {}
  Readers = {}
  MaxRows = 2
  NoRow = NoRow
  NoCopy = NoCopy
  NoFile = NoFile
SPECIFICATION Spec
SYMMETRY Symmetry
INVARIANTS
  VersionHasPackage
CHECK_DEADLOCK FALSE
