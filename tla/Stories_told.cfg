SPECIFICATION Spec
CONSTANTS
  o1 = o1  o2 = o2  p1 = p1  p2 = p2  p3 = p3
  part1 = part1  memory1 = memory1
  Oems = {o1, o2}
  Products = {p1, p2, p3}
  OemOf <- Makes
  Keys = {part1, memory1}
  Parts = {part1}
  MinOems = 2
  Window = 0
  MaxTime = 1
  MaxEvents = 3
  Nothing = Nothing
  Faults = {"crash", "raise", "rate_limit"}
INVARIANTS
  SavedIsTold
  DemotedHasStory
  UnseenIsOneMakers
