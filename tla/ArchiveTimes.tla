---------------------------- MODULE ArchiveTimes ----------------------------
(* What the archive jobs of a cycle save, and when (pygfs/task/archive.py and *)
(* pygfs/utils/archive_tar_vars.py).  A time is a number of hours since       *)
(* midnight of the day the experiment starts; x is the configuration of an    *)
(* experiment, its fields named after the variables of config.base and        *)
(* config.arch_tars.  ARCH_CYC is the set of hours it lists.                  *)
EXTENDS Integers, FiniteSets

Smaller(a, b) == IF a < b THEN a ELSE b
assim_freq == 6
Hour(t) == t % 24
Days(dt) == dt \div 24       \* timedelta.days

Cycled(x) == x.MODE = "cycled"

-----------------------------------------------------------------------------
(* Restart tarballs of the gdas.                                              *)
_arch_warm_start_increments(x, c) ==
    /\ Hour(c) \in x.ARCH_CYC
    /\ x.ARCH_FCSTICFREQ > 0
    /\ Days(c + assim_freq - x.SDATE) % x.ARCH_FCSTICFREQ = 0

\* Mistaken variant: the hours are not moved back by a cycle.
_arch_warm_restart_ics_SameCycle(x, c) ==
    /\ x.ARCH_WARMICFREQ > 0
    /\ Hour(c) \in x.ARCH_CYC
    /\ Days(c - x.SDATE) % x.ARCH_WARMICFREQ = 0

_arch_warm_restart_ics(x, c) ==
    /\ x.ARCH_WARMICFREQ > 0
    /\ Hour(c) \in {(h - assim_freq) % 24 : h \in x.ARCH_CYC}
    /\ Days(c - x.SDATE) % x.ARCH_WARMICFREQ = 0

Increments == {"gdas_restarta", "gdasice_restart"}
WarmICs == {"gdas_restartb", "gdasocean_restart", "gdaswave_restart"}

_arch_restart(x, type, c) ==
    \/ type \in Increments /\ _arch_warm_start_increments(x, c)
    \/ type \in WarmICs /\ _arch_warm_restart_ics(x, c)

-----------------------------------------------------------------------------
(* Restart tarballs of the groups of members of the enkfgdas.                 *)
archive_increments(x, c) ==
    /\ Days(c - x.SDATE) % x.ARCH_WARMICFREQ = 0
    /\ Hour(c) \in x.ARCH_CYC

archive_ics(x, c) ==
    /\ Days(c + assim_freq - x.SDATE) % x.ARCH_WARMICFREQ = 0
    /\ Hour(c) \in {(h - assim_freq) % 24 : h \in x.ARCH_CYC}

\* Mistaken variant: floor division, a last group that is not full is lost.
n_groups_Floor(x) == x.NMEM_ENS \div x.NMEM_EARCGRP

\* earc_tars: -(nmem // -NMEM_EARCGRP).
n_groups(x) == -((-x.NMEM_ENS) \div x.NMEM_EARCGRP)

GroupMembers(x, ENSGRP) ==
    (ENSGRP - 1) * x.NMEM_EARCGRP + 1 .. Smaller(ENSGRP * x.NMEM_EARCGRP, x.NMEM_ENS)

-----------------------------------------------------------------------------
(* The restarts in those tarballs, as hours after the cycle.                  *)
restart_interval(iau) == IF iau THEN 3 ELSE 6     \* config.base
FHMAX == 9

\* Mistaken variant: range(restart_interval, fhmax + restart_interval, ...).
_calculate_restart_prefixes_Beyond(interval, fhmax) ==
    {h \in interval..fhmax + interval : h % interval = 0}

_calculate_restart_prefixes(interval, fhmax) ==
    {h \in interval..fhmax : h % interval = 0}

RestartsIn(x, type) ==
    CASE type = "gdas_restartb" ->
            {"atmos"} \X _calculate_restart_prefixes(restart_interval(x.DOIAU), FHMAX)
      [] type = "gdaswave_restart" -> {<<"wave", IF x.DOIAU THEN 3 ELSE 6>>}
      [] type = "enkf_restartb_grp" ->
            ({"atmos"} \X _calculate_restart_prefixes(restart_interval(x.DOIAU_ENKF), FHMAX))
            \cup (IF x.DOHYBVAR_OCN THEN {<<"ocean", 3>>} ELSE {})
      [] OTHER -> {}

(* The restarts a forecast copies to COM: the atmosphere's from the start of  *)
(* the next cycle to its end, the ocean's at that start, and the wave's there *)
(* and at the next cycle.                                                     *)
model_start_date_next_cycle(iau) == IF iau THEN 3 ELSE 6

CopiedBy(x, run) ==
    LET iau == IF run = "gdas" THEN x.DOIAU ELSE x.DOIAU_ENKF
        start == model_start_date_next_cycle(iau)
    IN ({"atmos"} \X {h \in start..FHMAX : (h - start) % restart_interval(iau) = 0})
       \cup {<<"ocean", start>>}
       \cup (IF run = "gdas" THEN {<<"wave", start>>, <<"wave", 6>>} ELSE {})

-----------------------------------------------------------------------------
(* The copy of the EXPDIR.                                                    *)

\* Mistaken variant: the first cycle is always SDATE.
_archive_expdir_Sdate(x, run, c) ==
    /\ run = "gdas" \/ ~Cycled(x)
    /\ \/ c \in {x.SDATE, x.EDATE}
       \/ x.ARCH_EXPDIR_FREQ # 0 /\ (c - x.SDATE) % x.ARCH_EXPDIR_FREQ = 0

_archive_expdir(x, run, c) ==
    LET first_full == IF Cycled(x) THEN x.SDATE + assim_freq ELSE x.SDATE
    IN /\ run = "gdas" \/ ~Cycled(x)
       /\ \/ c \in {first_full, x.EDATE}
          \/ x.ARCH_EXPDIR_FREQ # 0 /\ (c - first_full) % x.ARCH_EXPDIR_FREQ = 0

-----------------------------------------------------------------------------
(* What the jobs of a run save at a cycle.  arch_tars has a job for each type *)
(* of tarball, earc_tars one for each group of members.                       *)
Tar(type, c, members, restarts) ==
    [type |-> type, cycle |-> c, members |-> members, restarts |-> restarts]

TarballTypes(x) ==
    IF Cycled(x)
    THEN {"gdas", "gdas_restarta", "gdas_restartb"}
         \cup (IF x.marine THEN {"gdasocean", "gdasice", "gdasice_restart", "gdasocean_restart"} ELSE {})
         \cup (IF x.wave THEN {"gdaswave", "gdaswave_restart"} ELSE {})
    ELSE {"gfsa"}

ArchTars(x, run, c) ==
    {Tar(t, c, {}, RestartsIn(x, t)) :
        t \in {t \in TarballTypes(x) :
                  t \in Increments \cup WarmICs => _arch_restart(x, t, c)}}
    \cup (IF _archive_expdir(x, run, c) THEN {Tar("expdir", c, {}, {})} ELSE {})

EarcTars(x, c) ==
    {Tar(t, c, GroupMembers(x, g), RestartsIn(x, t)) :
        t \in {"enkf_grp"}
              \cup (IF archive_increments(x, c) THEN {"enkf_restarta_grp"} ELSE {})
              \cup (IF archive_ics(x, c) THEN {"enkf_restartb_grp"} ELSE {}),
        g \in 1..n_groups(x)}

SavedAt(x, c) ==
    IF Cycled(x) THEN ArchTars(x, "gdas", c) \cup EarcTars(x, c) ELSE ArchTars(x, "gfs", c)
=============================================================================
