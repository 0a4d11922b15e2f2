CONSTANTS
  g1 = g1
  v1 = v1
  v2 = v2
  main = main
  extra = extra
  k1 = k1
  k2 = k2
  Games = {g1}
  Versions = {v1, v2}
  Packages = {k1}
  Names = {main}
  EntriesOf <- OnePackage
  Place <- Shared
  Paths <- SharedPaths
  Millis = {t1}
  Uploads = {u1}
  Publishes = {p1}
  Readers = {r1}
  MaxRows = 1
  NoRow = NoRow
  NoCopy = NoCopy
  NoFile = NoFile
SPECIFICATION FairSpec
PROPERTIES
  PublishedHasVersion
  EventuallyFresh
