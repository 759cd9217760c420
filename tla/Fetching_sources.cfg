\* Two fetchers of one page; five engines over a site of three or four products
\* in three pages, hidden ones included; two regions of two pages; two models with a
\* configuration; two descriptors that are edited twice; a
\* record and two listings that may have either of two names.
SPECIFICATION PartsSpec
CONSTANTS
  v1 = v1
  v2 = v2
  v3 = v3
  Fetchers = {f1, f2}
  Versions = {v1, v2, v3}
  Tagged = {v1, v2}
  MaxRetries = 1
  MaxChanges = 2
  MaxGets = 3
  Absent = Absent
  NoTag = NoTag
  Cut = Cut
  p1 = p1
  p2 = p2
  p3 = p3
  p4 = p4
  Products = {p1, p2, p3, p4}
  Sites <- SitesMC
  PerPage = 2
  Engines <- EnginesMC
  Links <- LinksMC
  MaxSitemaps = 6
  MinPct = 35
  WarnPct = 70
  ZeroIsFailure = TRUE
  BaselineQuiet = TRUE
  MaxRuns = 3
  Window = 2
  MaxMoves = 1
  r1 = r1
  r2 = r2
  u1 = u1
  u2 = u2
  u3 = u3
  u4 = u4
  i1 = i1
  i2 = i2
  i3 = i3
  i4 = i4
  k1 = k1
  Order <- OrderMC
  Pages = {u1, u2, u3, u4}
  Home <- HomeMC
  UrlIdentity <- UrlIdentityMC
  DataIdentity <- DataIdentityMC
  MinimumPct = 60
  MaxWorld = 3
  m1 = m1
  m2 = m2
  g1 = g1
  Models = {m1, m2}
  Configs = {g1}
  Unnumbered = Unnumbered
  KeepPct = 60
  MaxMoved = 2
  d1 = d1
  d2 = d2
  o1 = o1
  o2 = o2
  s1 = s1
  s2 = s2
  s3 = s3
  Files = {d1, d2}
  MakerOf <- MakerOfMC
  Later <- LaterMC
  Ids = {s1, s2, s3}
  Descriptors <- DescriptorsMC
  Broken = Broken
  NoCrawl = NoCrawl
  MaxEdits = 2
  x1 = x1
  x2 = x2
  n1 = n1
  n2 = n2
  h1 = h1
  h2 = h2
  Records = {x1}
  Names = {n1, n2}
  Keys = {h1, h2}
  WithWithdrawn = TRUE
  Nothing = Nothing
  Unlinked = Unlinked
  MaxPublished = 2
  MaxTracked = 2
INVARIANTS
  CacheAnswersRight
  CleanDiscoveryIsExact
  LoudIsNews
  ReadersAgree
  EveryLaunchReported
  NewModelsOfOneRegion
  CatalogueArrivalsReported
  ScopeIsKept
  AnnouncedIsNotLinked
PROPERTIES
  TrackedIsNoNews
\* When the bounds are reached nothing is left to do.
CHECK_DEADLOCK FALSE
