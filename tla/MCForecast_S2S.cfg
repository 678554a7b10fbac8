CONSTANTS
  Comps = {"fv3", "med", "ocn"}
  cplchm = TRUE
  FHOUT_OCN = 6
  FHOUT_AERO = 3
  restart_interval_gfs = 2
  NSeg = 2
  Bound <- TwoSegments
  RUN = "gfs"
  assim_freq = 2
  DOIAU = FALSE
  COLD_EXP = FALSE
  DO_AERO_ANL = FALSE
  ODA_INCUPD = FALSE
  COPY_FINAL_RESTARTS = TRUE
  KEEPDATA = FALSE
  Staged <- Warm
  MAXTRIES = 3
  MaxCrashes = 2
  MaxRewinds = 1
SPECIFICATION FairSpec
INVARIANTS
  TypeOK
  RerunFromWholeRestart
  NeverRestartsAtEnd
  SegmentContinues
  HistoryComplete
  HandsOverWhole
  AttemptAerosolsDelivered
PROPERTIES
  AcceptedNotRewritten
  EarlierAerosolsKept
  FinishesDespiteKills
