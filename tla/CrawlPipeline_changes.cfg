SPECIFICATION Spec
CONSTANTS
  s1 = s1  s2 = s2  p1 = p1  p2 = p2  c1 = c1  c2 = c2  m1 = m1  m2 = m2  i1 = i1  i2 = i2
  NoValue = NoValue
  Sources = {s1}
  Listings = {p1, p2}
  SourceOf <- OneSource
  Identity <- SameProduct
  Contents <- PagesChip
  Chips = {c1, c2}
  Recognized = {c1, c2}
  SeedChips = {c1}
  Specs = {m1}
  Images = {i1, i2}
  MinSeverity = 4
  Policies <- NoMute
  BaselineQuiet = TRUE
  MaxAttempts = 1
  Faults = {"raise", "suppress_idle"}
INVARIANTS
  EveryChangeEnqueued
  SecondSightingIsNoNews
  PostsAreEarned
PROPERTIES
  RefinesAlerts
CONSTRAINT FewChanges
