CONSTANTS
  Comps = {"fv3", "med", "ocn", "wav"}
  cplchm = TRUE
  FHOUT_OCN = 3
  FHOUT_AERO = 3
  restart_interval_gfs = 2
  NSeg = 1
  Bound <- GdasSegment
  RUN = "gdas"
  assim_freq = 2
  DOIAU = TRUE
  COLD_EXP = FALSE
  DO_AERO_ANL = FALSE
  ODA_INCUPD = FALSE
  COPY_FINAL_RESTARTS = TRUE
  KEEPDATA = FALSE
  Staged <- SomeStaging
  MAXTRIES = 2
  MaxCrashes = 1
  MaxRewinds = 0
SPECIFICATION Spec
INVARIANTS
  SuccessHandsOver
