\* Both communities, three submissions, edits, refusals and interruptions.
SPECIFICATION Spec
CONSTANTS
  gaminglaptops = gaminglaptops
  minipcs = minipcs
  p1 = p1
  p2 = p2
  p3 = p3
  Communities = {gaminglaptops, minipcs}
  First = gaminglaptops
  After <- AfterMC
  Posts = {p1, p2, p3}
  Home <- HomeMC
  MaxVer = 2
  MaxEdits = 3
  MaxFaults = 1
  None = None
INVARIANTS
  EveryRevisionLoggedOnce
  FirstIntakeIsBaseline
PROPERTIES
  EveryCommunityInTurn
  ListedIsStored
