\* Two request threads, two analyses and an operator over three alerts; two
\* commands over one lead, which is exported with two texts; a report of three
\* alerts, begun in every state of theirs and overtaken twice, with lists that have
\* room for all, or for one row.
SPECIFICATION DesksSpec
CONSTANTS
  g1 = g1
  a1 = a1
  a2 = a2
  a3 = a3
  Alerts = {a1, a2, a3}
  Groups = {g1}
  GroupOf <- GroupOfMC
  Evidence <- EvidenceMC
  TypeOf <- TypeOfMC
  Threads = {t1, t2}
  Analyses = {x1, x2}
  Outcomes = {"HIT", "NOISE"}
  Cited = {"DUPLICATE_ALERT"}
  MinSamples = 2
  MinNoise = 75
  MaxReviews = 3
  None = None
  l1 = l1
  v1 = v1
  v2 = v2
  Commands = {c1, c2}
  Leads = {l1}
  Payloads = {v1, v2}
  Labels = {"keep"}
  Unreviewed = "unreviewed"
  Exports <- ExportsMC
  MaxPublished = 3
  CollectorOf <- CollectorOfMC
  BucketOf <- BucketOfMC
  KindOf <- KindOfMC
  SeenAt <- SeenAtMC
  Verdicts <- VerdictsMC
  Limits <- LimitsMC
  MaxCommits = 2
SYMMETRY Alike
INVARIANTS
  PreviousWasCurrent
  SampleNeverShrinks
  CurrentIsComplete
  FiguresAddUp
PROPERTIES
  DecisionsStand
  NothingForgotten
  EvidenceStays
\* After MaxReviews reviews and with a rejected rule nothing is left to do.
CHECK_DEADLOCK FALSE
