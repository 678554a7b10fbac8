CONSTANTS
  gfs = gfs
  gdas = gdas
  i1 = i1
  i2 = i2
  s1 = s1
  s2 = s2
  r1 = r1
  Jobs = {gfs}
  Standard <- OneJob
  Restricted <- OneJobRestricted
  Inst = {i1, i2}
  MAXTRIES = 1
  max_wait_count = 3
  max_log_fails = 1
  MaxNetFails = 1
  MaxKills = 1
  MaxReboots = 1
  MaxDays = 1
SPECIFICATION Spec
SYMMETRY Instances
INVARIANTS
  TypeOK
  CleanUnlessTransferFails
PROPERTIES
  ArchivesOnTape
