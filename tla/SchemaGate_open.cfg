SPECIFICATION FairSpec
CONSTANTS
  Openers = {a, b}
  a = a
  b = b
  Expected = 4
  Host <- Hosts
  Nobody = Nobody
  Faults = {"crash", "db_error", "unreadable"}
INVARIANTS
  AdmittedIsReady
PROPERTIES
  NothingIsLaundered
  HonestStaysHonest
  HopelessIsLeftAlone
  SoundIsRefusedForCause
  EveryOpeningEnds
