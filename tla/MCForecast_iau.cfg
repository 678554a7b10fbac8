CONSTANTS
  Comps = {"fv3", "med", "ocn"}
  cplchm = TRUE
  FHOUT_OCN = 6
  FHOUT_AERO = 3
  restart_interval_gfs = 2
  NSeg = 1
  Bound <- OneSegment
  RUN = "gfs"
  assim_freq = 1
  DOIAU = TRUE
  COLD_EXP = FALSE
  DO_AERO_ANL = FALSE
  ODA_INCUPD = FALSE
  COPY_FINAL_RESTARTS = TRUE
  KEEPDATA = FALSE
  Staged <- Warm
  MAXTRIES = 2
  MaxCrashes = 1
  MaxRewinds = 0
SPECIFICATION Spec
INVARIANTS
  AttemptAerosolsDelivered
