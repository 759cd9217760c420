SPECIFICATION FairSpec
CONSTANTS
  s1 = s1  s2 = s2  p1 = p1  p2 = p2  c1 = c1  c2 = c2  m1 = m1  m2 = m2  i1 = i1  i2 = i2
  NoValue = NoValue
  Sources = {s1}
  Listings = {p1, p2}
  SourceOf <- OneSource
  Identity <- Unrelated
  Contents <- PagesOne
  Chips = {c2}
  Recognized = {c2}
  SeedChips = {}
  Specs = {m1}
  Images = {i1}
  MinSeverity = 3
  Policies <- NoMute
  BaselineQuiet = FALSE
  MaxAttempts = 1
  Faults = {"reject", "rate_limit"}
PROPERTIES
  EveryAlertSettles
