------------------------------ MODULE GfsTasks ------------------------------
(* The dependencies of the tasks of the GFS: dev/workflow/rocoto/gfs_tasks.py.*)
(* One operator per method of GFSTasks, with its name: task(x, r, c) says that*)
(* the dependency of that task of run r at cycle c holds.                     *)
(* Resources, environment, names of logs and walltimes are left out.          *)
EXTENDS RocotoTerms

CONSTANT MemberJobs    \* the forecasts of the members: f'fcst_mem{m}'

GfsMetatasks ==
    {"fcst", "atmupp", "goesupp", "atmos_prod", "ocean_prod", "ice_prod",
     "wavepostgridded", "wavegempak", "awips_20km_1p0deg", "gempak",
     "gempakgrb2spec", "metp", "arch_tars", "ecmn", "epmn", "earc_tars",
     "globus_earc"}

\* self.run.replace('enkf', '')
Det(r) == IF r = "enkfgdas" THEN "gdas" ELSE IF r = "enkfgfs" THEN "gfs" ELSE r

-----------------------------------------------------------------------------
(* Staging, observations *)

\* Observations (dumps and their status files) come from outside and are there.
fetch(x, r, c) == TRUE

fetchatmanlbias(x, r, c) == Meta(x, "enkfgdas", "epmn", c - 1)

stage_ic(x, r, c) == Do(x, r, "fetch") => Task(x, r, "fetch", c)

\* Mistaken variant: the offset is forgotten.
GdasBackground_NoOffset(x, c) ==
    Meta(x, "gdas", "atmos_prod", c) /\ ForecastData(x, "gdas", c)

GdasBackground(x, c) ==
    Meta(x, "gdas", "atmos_prod", c - 1) /\ ForecastData(x, "gdas", c - 1)

prep_sfc(x, r, c) == GdasBackground(x, c)

prep(x, r, c) ==
    /\ IF Do(x, r, "enkfonly_atm") THEN Meta(x, "enkfgdas", "epmn", c - 1)
                                   ELSE GdasBackground(x, c)
    /\ Do(x, r, "prep_sfc") => Task(x, r, "prep_sfc", c)

prepatmanlbias(x, r, c) == Task(x, r, "fetchatmanlbias", c)

waveinit(x, r, c) ==
    \/ x.exp.mode = "forecast-only"
    \/ Task(x, r, "prep", c)
    \/ r = "gdas" /\ ~CycleExists(x, c - 1)

waveprep(x, r, c) == Task(x, r, "waveinit", c)

\* The initial conditions of this cycle and the restart of the forecast that
\* was started interval_gfs before.
aerosol_init(x, r, c) ==
    Data(x, r, "stage_ic", c) /\ ForecastData(x, r, c - x.exp.every)

-----------------------------------------------------------------------------
(* Atmospheric analysis *)

\* Mistaken variant: the members and not their statistics.
EnsembleBackground_Members(x, r, c) ==
    Do(x, r, "hybvar") => Meta(x, "enkfgdas", "fcst", c - 1)

EnsembleBackground(x, r, c) ==
    Do(x, r, "hybvar") => Meta(x, "enkfgdas", "epmn", c - 1)

anal(x, r, c) == Task(x, r, "prep", c) /\ EnsembleBackground(x, r, c)

sfcanl_gcycle(x, r, c) ==
    /\ Task(x, r, IF Do(x, r, "jediatmvar") THEN "atmanlfinal" ELSE "anal", c)
    /\ Do(x, r, "jedisnowda") => Task(x, r, "snowanl", c)
    /\ Do(x, r, "gsisoilda") /\ r = "gdas" /\ ~Do(x, r, "gsiliau")
          => Task(x, r, "sfcanl_regrid", c)

sfcanl_regrid(x, r, c) == Task(x, "enkfgdas", "eupd", c)

analcalc(x, r, c) ==
    /\ Task(x, r, IF Do(x, r, "jediatmvar") /\ ~Do(x, r, "jediatmens")
                  THEN "atmanlfinal" ELSE "anal", c)
    /\ Task(x, r, "sfcanl_gcycle", c)
    /\ Do(x, r, "gsisoilda") /\ r = "gdas" => Task(x, r, "sfcanl_regrid", c)
    /\ Do(x, r, "hybvar") /\ r = "gdas" => Task(x, "enkfgdas", "echgres", c - 1)

analdiag(x, r, c) == Task(x, r, "anal", c)

wdqms(x, r, c) == Task(x, r, "analdiag", c)

atmanlinit(x, r, c) == Task(x, r, "prep", c) /\ EnsembleBackground(x, r, c)

atmanlvar(x, r, c) == Task(x, r, "atmanlinit", c)

atmanlfv3inc(x, r, c) == Task(x, r, "atmanlvar", c)

atmanlfinal(x, r, c) == Task(x, r, "atmanlfv3inc", c)

analcalc_fv3jedi(x, r, c) ==
    /\ Task(x, r, "atmanlfinal", c)
    /\ Do(x, r, "aero_anl") => Task(x, r, "aeroanlfinal", c)
    /\ Do(x, r, "jedisnowda") => Task(x, r, "snowanl", c)

-----------------------------------------------------------------------------
(* Analyses of the other components *)

aeroanlgenb(x, r, c) == Meta(x, r, "fcst", c)

aeroanlinit(x, r, c) ==
    Task(x, "gdas", "aeroanlgenb", c - 1) /\ Task(x, r, "prep", c)

aeroanlvar(x, r, c) ==
    Task(x, "gdas", "aeroanlgenb", c - 1) /\ Task(x, r, "aeroanlinit", c)

aeroanlfinal(x, r, c) == Task(x, r, "aeroanlvar", c)

snowanl(x, r, c) == Task(x, r, "prep", c)

esnowanl(x, r, c) ==
    Meta(x, "enkfgdas", "epmn", c - 1) /\ Task(x, Det(r), "prep", c)

soilanlvar(x, r, c) == Task(x, r, "prep", c)

soilanlens(x, r, c) ==
    Meta(x, "enkfgdas", "epmn", c - 1) /\ Task(x, Det(r), "prep", c)

prepoceanobs(x, r, c) == ForecastData(x, "gdas", c - 1)

\* Mistaken variant: the ensemble is forgotten.
marinebmatinit_NoEnsemble(x, r, c) ==
    ForecastData(x, "gdas", c - 1) /\ Meta(x, "gdas", "fcst", c - 1)

marinebmatinit(x, r, c) ==
    /\ ForecastData(x, "gdas", c - 1)
    /\ Meta(x, "gdas", "fcst", c - 1)
    /\ Do(x, r, "hybvar_ocn") => Meta(x, "enkfgdas", "fcst", c - 1)

marinebmat(x, r, c) == Task(x, r, "marinebmatinit", c)

marineanlinit(x, r, c) ==
    /\ Task(x, r, "prepoceanobs", c)
    /\ Task(x, r, "marinebmat", c)
    /\ Meta(x, "gdas", "fcst", c - 1)

marineanlvar(x, r, c) == Task(x, r, "marineanlinit", c)

marineanlletkf(x, r, c) ==
    Task(x, Det(r), "prepoceanobs", c) /\ Task(x, Det(r), "marinebmat", c)

marineanlecen(x, r, c) ==
    IF Do(x, r, "letkf_ocn_inc")
    THEN Task(x, r, "marineanlletkf", c) /\ Task(x, Det(r), "marineanlchkpt", c)
    ELSE Task(x, Det(r), "marinebmatinit", c)

\* With mergensst it also waits for a surface analysis in the directory atmos/
\* of the cycle, where no task writes one (analyses are in analysis/atmos/).
marineanlchkpt(x, r, c) ==
    /\ Task(x, r, "marineanlvar", c)
    /\ ~Do(x, r, "mergensst")

marineanlfinal(x, r, c) ==
    /\ Task(x, r, "marineanlchkpt", c)
    /\ Do(x, r, "letkf_ocn_inc") => Task(x, "enkfgdas", "marineanlecen", c)

-----------------------------------------------------------------------------
(* Forecast *)

WaveJob(x, r, c) ==
    Do(x, r, "wave") =>
        Task(x, r, IF x.exp.app = "ATMW" THEN "waveprep" ELSE "waveinit", c)

_fcst_forecast_only(x, r, c) ==
    /\ Task(x, r, "stage_ic", c)
    /\ WaveJob(x, r, c)
    /\ Do(x, r, "aero_fcst") /\ ~Do(x, r, "exp_warm_start")
          => Task(x, r, "aerosol_init", c) \/ ~CycleExists(x, c - x.exp.every)

\* Mistaken variant: without the analyses of land.
_fcst_cycled_NoLand(x, r, c) ==
    \/ /\ Task(x, r, "sfcanl_gcycle", c)
       /\ WaveJob(x, r, c)
       /\ Do(x, r, "jediocnvar") => Task(x, r, "marineanlfinal", c)
       /\ Do(x, r, "aero_anl") => Task(x, r, "aeroanlfinal", c)
    \/ /\ Task(x, r, "stage_ic", c)
       /\ WaveJob(x, r, c)
       /\ ~CycleExists(x, c - 1)

_fcst_cycled(x, r, c) ==
    \/ /\ Task(x, r, "sfcanl_gcycle", c)
       /\ Do(x, r, "gsisoilda") /\ r = "gdas" => Task(x, r, "sfcanl_regrid", c)
       /\ WaveJob(x, r, c)
       /\ Do(x, r, "jediocnvar") => Task(x, r, "marineanlfinal", c)
       /\ Do(x, r, "aero_anl") => Task(x, r, "aeroanlfinal", c)
       /\ Do(x, r, "jedisnowda") => Task(x, r, "snowanl", c)
       /\ Do(x, r, "jedisoildavar") => Task(x, r, "soilanlvar", c)
    \/ /\ Task(x, r, "stage_ic", c)
       /\ WaveJob(x, r, c)
       /\ ~CycleExists(x, c - 1)

\* The metatask is serial: a segment waits for the one before it.
fcst(x, r, n, c) ==
    /\ n = "fcst_seg1" => Task(x, r, "fcst_seg0", c)
    /\ IF x.exp.mode = "cycled" THEN _fcst_cycled(x, r, c)
                                ELSE _fcst_forecast_only(x, r, c)

-----------------------------------------------------------------------------
(* Products *)

\* analcalc and analcalc_fv3jedi write the analysis and, last, analysis.done.txt.
atmanlupp(x, r, c) == Data(x, r, "analcalc", c) \/ Data(x, r, "analcalc_fv3jedi", c)

\* The master file of the analysis, which atmanlupp writes.
atmanlprod(x, r, c) == Data(x, r, "atmanlupp", c)

_upptask(x, r, c) == ForecastData(x, r, c)

_atmosoceaniceprod(x, r, c) == ForecastData(x, r, c) \/ Meta(x, r, "fcst", c)

wavepostgridded(x, r, c) == ForecastData(x, r, c)

\* The point output of hour FHMAX_WAV_IBP, of some segment.
_wavepostbndpnt(x, r, c) == Data(x, r, "fcst_seg0", c)

wavepostpnt(x, r, c) == Meta(x, r, "fcst", c)

wavegempak(x, r, c) == Hours(x, r, "wavepostgridded", c)

waveawipsbulls(x, r, c) ==
    Meta(x, r, "wavepostgridded", c) /\ Task(x, r, "wavepostpnt", c)

waveawipsgridded(x, r, c) == Meta(x, r, "wavepostgridded", c)

postsnd(x, r, c) == Meta(x, r, "fcst", c)

\* The quarter-degree files of hours 6, 12 and 24.  Earlier jobs of atmos_prod
\* than its last write them, as soon as the forecast is that far.
fbwind(x, r, c) == Data(x, r, "fcst_seg0", c)

awips_20km_1p0deg(x, r, c) == Meta(x, r, "atmos_prod", c)

gempak(x, r, c) == Hours(x, r, "atmos_prod", c)

gempakmetancdc(x, r, c) == Meta(x, r, "gempak", c)

gempakpgrb2spec(x, r, c) == Task(x, r, "npoess_pgrb2_0p25deg", c)

npoess_pgrb2_0p25deg(x, r, c) ==
    Task(x, r, "atmanlprod", c) /\ Meta(x, r, "goesupp", c)

-----------------------------------------------------------------------------
(* Verification *)

verfozn(x, r, c) == Task(x, r, "analdiag", c)

verfrad(x, r, c) == Task(x, r, "analdiag", c)

vminmon(x, r, c) == Task(x, r, "anal", c)

anlstat(x, r, c) ==
    /\ Task(x, r, IF Do(x, r, "jediatmvar") THEN "atmanlfinal" ELSE "analdiag", c)
    /\ Do(x, r, "jediocnvar") => Task(x, r, "marineanlfinal", c)
    /\ Do(x, r, "jedisnowda") => Task(x, r, "snowanl", c)
    /\ Do(x, r, "aero_anl") => Task(x, r, "aeroanlfinal", c)

tracker(x, r, c) == Meta(x, r, "atmos_prod", c)

genesis(x, r, c) == Meta(x, r, "atmos_prod", c)

genesis_fsu(x, r, c) == Meta(x, r, "atmos_prod", c)

fit2obs(x, r, c) == Meta(x, r, "atmos_prod", c)

\* Verification runs once a day, at 18z, for all the forecasts of the day: on
\* a cycle without a forecast it waits for one of the cycles of the day before
\* it, and after the last forecast for that one.
metp(x, r, c) ==
    LET e == x.exp
        lookback == e.every - 1
        lastGfs == e.gfs0 + ((e.last - e.gfs0) \div e.every) * e.every
        offset == e.last - Hour(e, e.last) + 3 - lastGfs
    IN  \/ Task(x, r, "arch_vrfy", c)
        \/ /\ e.every < 4 /\ lookback > 0
           /\ ~TaskValid(x, r, "arch_vrfy", c)
           /\ \E k \in 1 .. lookback : Task(x, r, "arch_vrfy", c - k)
        \/ /\ offset > 0 /\ offset < 4
           /\ ~TaskValid(x, r, "arch_vrfy", c)
           /\ Task(x, r, "arch_vrfy", c - offset)
           /\ \A i \in 1 .. offset - 1 : ~CycleExists(x, c - i)

-----------------------------------------------------------------------------
(* Archiving *)

DownstreamOfForecast(x, r, c) ==
    /\ r = "gfs" /\ Do(x, r, "tracker") => Task(x, r, "tracker", c)
    /\ r = "gfs" /\ Do(x, r, "genesis") => Task(x, r, "genesis", c)
    /\ r = "gfs" /\ Do(x, r, "genesis_fsu") => Task(x, r, "genesis_fsu", c)
    /\ r = "gfs" /\ Do(x, r, "ocean") => Meta(x, r, "ocean_prod", c)
    /\ r = "gfs" /\ Do(x, r, "ice") => Meta(x, r, "ice_prod", c)

\* Mistaken variant: without the boundary points.
WavePoints_NoBoundary(x, r, c) == Do(x, r, "wave") => Task(x, r, "wavepostpnt", c)

WavePoints(x, r, c) ==
    Do(x, r, "wave") =>
        /\ Task(x, r, "wavepostpnt", c)
        /\ Do(x, r, "wave_bnd") => /\ Task(x, r, "wavepostbndpnt", c)
                                   /\ Task(x, r, "wavepostbndpntbll", c)

WaveGrids(x, r, c) == Do(x, r, "wave") => Meta(x, r, "wavepostgridded", c)

arch_vrfy(x, r, c) ==
    /\ x.exp.mode = "cycled" /\ r \in {"gfs", "gdas"} => Task(x, r, "atmanlprod", c)
    /\ x.exp.mode = "cycled" /\ r = "gdas" /\ Do(x, r, "fit2obs")
          => Task(x, r, "fit2obs", c)
    /\ DownstreamOfForecast(x, r, c)
    /\ Meta(x, r, "atmos_prod", c)
    /\ WaveGrids(x, r, c)
    /\ WavePoints(x, r, c)

\* What the archive and the cleanup of a cycled experiment both wait for.
Verified(x, r, c) ==
    x.exp.mode = "cycled" =>
        /\ Task(x, r, "atmanlprod", c)
        /\ r = "gdas" /\ Do(x, r, "fit2obs") => Task(x, r, "fit2obs", c)
        /\ r = "gdas" /\ Do(x, r, "verfozn") => Task(x, r, "verfozn", c)
        /\ r = "gdas" /\ Do(x, r, "verfrad") => Task(x, r, "verfrad", c)
        /\ Do(x, r, "vminmon") => Task(x, r, "vminmon", c)

DownstreamProducts(x, r, c) ==
    /\ Do(x, r, "gempak") /\ r = "gdas" => Task(x, r, "gempakmetancdc", c)
    /\ Do(x, r, "gempak") /\ r = "gfs" =>
          /\ x.exp.mode = "cycled" /\ Do(x, r, "goes") =>
                /\ Task(x, r, "npoess_pgrb2_0p25deg", c)
                /\ Meta(x, r, "gempakgrb2spec", c)
          /\ Do(x, r, "wave") => Meta(x, r, "wavegempak", c)
    /\ Do(x, r, "awips") /\ r = "gfs" =>
          /\ Meta(x, r, "awips_20km_1p0deg", c)
          /\ Task(x, r, "fbwind", c)
          /\ Do(x, r, "wave") => /\ Task(x, r, "waveawipsbulls", c)
                                 /\ Task(x, r, "waveawipsgridded", c)
    /\ Do(x, r, "metp") /\ r = "gfs" =>
          \/ ~TaskValid(x, r, "metp", c)
          \/ Meta(x, r, "metp", c)

_arch_tars_deps(x, r, c) ==
    /\ Verified(x, r, c)
    /\ x.exp.mode = "cycled" /\ r = "gdas" /\ Do(x, r, "anlstat")
          => Task(x, r, "anlstat", c)
    /\ Meta(x, r, "atmos_prod", c)
    /\ DownstreamOfForecast(x, r, c)
    /\ WaveGrids(x, r, c)
    /\ WavePoints(x, r, c)
    /\ DownstreamProducts(x, r, c)
    /\ Task(x, r, "arch_vrfy", c)

arch_tars(x, r, c) == _arch_tars_deps(x, r, c)

globus_arch(x, r, c) == Meta(x, r, "arch_tars", c)

globus_earc(x, r, c) == Meta(x, r, "earc_tars", c)

-----------------------------------------------------------------------------
(* Cleanup *)
\* The next forecast of the gfs has begun from the restart files, when that
\* cycle is there; cycles from the second to the one but last before the first
\* gfs cycle do not wait.
NextForecast(x, c) ==
    x.exp.every >= 1 =>
        \/ Task(x, "gfs", "fcst_seg0", c + x.exp.every)
        \/ ~CycleExists(x, c + x.exp.every)
        \/ c \in 1 .. x.exp.gfs0 - 2

CleanupEnkf(x, r, c) ==
    LET full == /\ ~Do(x, r, "enkfonly_atm") => Task(x, r, "earc_vrfy", c)
                /\ IF Do(x, r, "archcom")
                   THEN Meta(x, r, IF Do(x, r, "globusarch") THEN "globus_earc"
                                   ELSE "earc_tars", c)
                   ELSE Do(x, r, "enkfonly_atm") => Meta(x, r, "epmn", c)
        half == /\ c = 0
                /\ Meta(x, r, "epmn", c)
                /\ ~Do(x, r, "jediatmvar") /\ ~Do(x, r, "enkfonly_atm")
                      => Task(x, r, "echgres", c)
    IN  IF r = "enkfgdas" THEN NextForecast(x, c) /\ (half \/ full) ELSE full

\* wavepostgridded is added to a list that is no longer used, and not waited for.
CleanupDet(x, r, c) ==
    LET full == /\ Verified(x, r, c)
                /\ DownstreamOfForecast(x, r, c)
                /\ WavePoints(x, r, c)
                /\ DownstreamProducts(x, r, c)
                /\ Task(x, r, "arch_vrfy", c)
                /\ Do(x, r, "archcom") =>
                      IF Do(x, r, "globusarch") THEN Task(x, r, "globus_arch", c)
                      ELSE Meta(x, r, "arch_tars", c)
    IN  /\ x.exp.mode = "cycled" /\ r = "gdas" => NextForecast(x, c)
        /\ Meta(x, r, "atmos_prod", c)
        /\ \/ x.exp.mode = "cycled" /\ r = "gdas" /\ c = 0
           \/ full

cleanup(x, r, c) ==
    IF r \in {"enkfgdas", "enkfgfs"} THEN CleanupEnkf(x, r, c)
                                     ELSE CleanupDet(x, r, c)

-----------------------------------------------------------------------------
(* Ensemble *)

BiasForEnkfOnly(x, r, c) ==
    Do(x, r, "enkfonly_atm") => Task(x, Det(r), "prepatmanlbias", c)

eobs(x, r, c) == /\ Task(x, Det(r), "prep", c)
                 /\ Meta(x, "enkfgdas", "epmn", c - 1)
                 /\ BiasForEnkfOnly(x, r, c)

ediag(x, r, c) == Task(x, r, "eobs", c)

eupd(x, r, c) == Task(x, r, "ediag", c)

atmensanlinit(x, r, c) == /\ Task(x, Det(r), "prep", c)
                          /\ Meta(x, "enkfgdas", "epmn", c - 1)
                          /\ BiasForEnkfOnly(x, r, c)

atmensanlobs(x, r, c) ==
    Task(x, r, "atmensanlinit", c) /\ Meta(x, "enkfgdas", "epmn", c - 1)

atmensanlsol(x, r, c) ==
    Task(x, r, "atmensanlobs", c) /\ Meta(x, "enkfgdas", "epmn", c - 1)

atmensanlletkf(x, r, c) ==
    Task(x, r, "atmensanlinit", c) /\ Meta(x, "enkfgdas", "epmn", c - 1)

atmensanlfv3inc(x, r, c) ==
    /\ Task(x, r, IF Do(x, r, "jediatmens_split_obssol") THEN "atmensanlsol"
                  ELSE "atmensanlletkf", c)
    /\ Meta(x, "enkfgdas", "epmn", c - 1)

atmensanlfinal(x, r, c) == Task(x, r, "atmensanlfv3inc", c)

ecen(x, r, c) ==
    /\ ~Do(x, r, "enkfonly_atm") => Task(x, Det(r), "analcalc", c)
    /\ Task(x, r, "eupd", c)

ecen_fv3jedi(x, r, c) ==
    Task(x, Det(r), "atmanlfinal", c) /\ Task(x, r, "atmensanlfinal", c)

\* The method asks whether an ensemble task is of the gdas before it waits for
\* esfc_regrid: it never does.
esfc_gcycle(x, r, c) ==
    /\ IF Do(x, r, "jediatmens") THEN Task(x, r, "atmensanlfinal", c)
       ELSE IF Do(x, r, "enkfonly_atm") THEN Task(x, r, "eupd", c)
       ELSE Task(x, Det(r), IF Do(x, r, "jediatmvar") THEN "atmanlfinal"
                            ELSE "anal", c)
    /\ Do(x, r, "jedisnowda") => Task(x, r, "esnowanl", c)

esfc_regrid(x, r, c) == Task(x, "enkfgdas", "eupd", c)

efcs(x, r, c) ==
    \/ /\ IF Do(x, r, "jediatmens")
          THEN ~Do(x, r, "enkfonly_atm") => Task(x, r, "ecen_fv3jedi", c)
          ELSE Meta(x, r, "ecmn", c)
       /\ Task(x, r, "esfc_gcycle", c)
       /\ Do(x, r, "gsisoilda") /\ r = "enkfgdas" => Task(x, r, "esfc_regrid", c)
       /\ Do(x, r, "hybvar_ocn") => Task(x, r, "marineanlecen", c)
       /\ Do(x, r, "jedisoildaens") => Task(x, r, "soilanlens", c)
    \/ Task(x, r, "stage_ic", c)

echgres(x, r, c) ==
    /\ r = "enkfgdas"
    /\ Meta(x, "gdas", "fcst", c)
    /\ Task(x, r, "fcst_mem001", c)

epos(x, r, c) == Meta(x, r, "fcst", c)

earc_vrfy(x, r, c) ==
    IF r = "enkfgdas"
    THEN /\ Meta(x, r, "epmn", c)
         /\ ~Do(x, r, "jediatmvar") => Task(x, r, "echgres", c)
    ELSE Task(x, r, "esfc_gcycle", c)

earc_tars(x, r, c) ==
    LET letkf == Do(x, r, "letkf_ocn") \/ Do(x, r, "letkf_ocn_inc")
    IN  IF r = "enkfgdas"
        THEN /\ Meta(x, r, "epmn", c)
             /\ ~Do(x, r, "jediatmens") /\ ~Do(x, r, "enkfonly_atm")
                   => Task(x, r, "echgres", c)
             /\ letkf => Task(x, r, "marineanlletkf", c)
        ELSE /\ Task(x, r, "esfc_gcycle", c)
             /\ Meta(x, r, "ecmn", c)
             /\ Do(x, r, "hybvar_ocn") => /\ Task(x, "enkfgfs", "marineanlecen", c)
                                          /\ Task(x, "gfs", "marineanlfinal", c)
             /\ letkf => Task(x, "enkfgfs", "marineanlletkf", c)

-----------------------------------------------------------------------------
(* Tasks.get_task: the method with the name of the task.                      *)

ForecastJobs == {"fcst_seg0", "fcst_seg1"}

AtmosphereReady(x, r, n, c) ==
    \/ n = "prep" /\ prep(x, r, c)
    \/ n = "prep_sfc" /\ prep_sfc(x, r, c)
    \/ n = "fetch" /\ fetch(x, r, c)
    \/ n = "stage_ic" /\ stage_ic(x, r, c)
    \/ n = "fetchatmanlbias" /\ fetchatmanlbias(x, r, c)
    \/ n = "prepatmanlbias" /\ prepatmanlbias(x, r, c)
    \/ n = "waveinit" /\ waveinit(x, r, c)
    \/ n = "waveprep" /\ waveprep(x, r, c)
    \/ n = "aerosol_init" /\ aerosol_init(x, r, c)
    \/ n = "anal" /\ anal(x, r, c)
    \/ n = "sfcanl_gcycle" /\ sfcanl_gcycle(x, r, c)
    \/ n = "sfcanl_regrid" /\ sfcanl_regrid(x, r, c)
    \/ n = "analcalc" /\ analcalc(x, r, c)
    \/ n = "analdiag" /\ analdiag(x, r, c)
    \/ n = "wdqms" /\ wdqms(x, r, c)
    \/ n = "atmanlinit" /\ atmanlinit(x, r, c)
    \/ n = "atmanlvar" /\ atmanlvar(x, r, c)
    \/ n = "atmanlfv3inc" /\ atmanlfv3inc(x, r, c)
    \/ n = "atmanlfinal" /\ atmanlfinal(x, r, c)
    \/ n = "analcalc_fv3jedi" /\ analcalc_fv3jedi(x, r, c)

ComponentReady(x, r, n, c) ==
    \/ n = "aeroanlgenb" /\ aeroanlgenb(x, r, c)
    \/ n = "aeroanlinit" /\ aeroanlinit(x, r, c)
    \/ n = "aeroanlvar" /\ aeroanlvar(x, r, c)
    \/ n = "aeroanlfinal" /\ aeroanlfinal(x, r, c)
    \/ n = "snowanl" /\ snowanl(x, r, c)
    \/ n = "esnowanl" /\ esnowanl(x, r, c)
    \/ n = "soilanlvar" /\ soilanlvar(x, r, c)
    \/ n = "soilanlens" /\ soilanlens(x, r, c)
    \/ n = "prepoceanobs" /\ prepoceanobs(x, r, c)
    \/ n = "marinebmatinit" /\ marinebmatinit(x, r, c)
    \/ n = "marinebmat" /\ marinebmat(x, r, c)
    \/ n = "marineanlinit" /\ marineanlinit(x, r, c)
    \/ n = "marineanlvar" /\ marineanlvar(x, r, c)
    \/ n = "marineanlletkf" /\ marineanlletkf(x, r, c)
    \/ n = "marineanlecen" /\ marineanlecen(x, r, c)
    \/ n = "marineanlchkpt" /\ marineanlchkpt(x, r, c)
    \/ n = "marineanlfinal" /\ marineanlfinal(x, r, c)

ProductReady(x, r, n, c) ==
    \/ n \in ForecastJobs /\ fcst(x, r, n, c)
    \/ n = "atmanlupp" /\ atmanlupp(x, r, c)
    \/ n = "atmanlprod" /\ atmanlprod(x, r, c)
    \/ n \in {"atmupp", "goesupp"} /\ _upptask(x, r, c)
    \/ n \in {"atmos_prod", "ocean_prod", "ice_prod"} /\ _atmosoceaniceprod(x, r, c)
    \/ n = "wavepostgridded" /\ wavepostgridded(x, r, c)
    \/ n \in {"wavepostbndpnt", "wavepostbndpntbll"} /\ _wavepostbndpnt(x, r, c)
    \/ n = "wavepostpnt" /\ wavepostpnt(x, r, c)
    \/ n = "wavegempak" /\ wavegempak(x, r, c)
    \/ n = "waveawipsbulls" /\ waveawipsbulls(x, r, c)
    \/ n = "waveawipsgridded" /\ waveawipsgridded(x, r, c)
    \/ n = "postsnd" /\ postsnd(x, r, c)
    \/ n = "fbwind" /\ fbwind(x, r, c)
    \/ n = "awips_20km_1p0deg" /\ awips_20km_1p0deg(x, r, c)
    \/ n = "gempak" /\ gempak(x, r, c)
    \/ n = "gempakmetancdc" /\ gempakmetancdc(x, r, c)
    \/ n = "gempakgrb2spec" /\ gempakpgrb2spec(x, r, c)
    \/ n = "npoess_pgrb2_0p25deg" /\ npoess_pgrb2_0p25deg(x, r, c)
    \/ n = "verfozn" /\ verfozn(x, r, c)
    \/ n = "verfrad" /\ verfrad(x, r, c)
    \/ n = "vminmon" /\ vminmon(x, r, c)
    \/ n = "anlstat" /\ anlstat(x, r, c)
    \/ n = "tracker" /\ tracker(x, r, c)
    \/ n = "genesis" /\ genesis(x, r, c)
    \/ n = "genesis_fsu" /\ genesis_fsu(x, r, c)
    \/ n = "fit2obs" /\ fit2obs(x, r, c)
    \/ n = "metp" /\ metp(x, r, c)
    \/ n = "arch_vrfy" /\ arch_vrfy(x, r, c)
    \/ n = "arch_tars" /\ arch_tars(x, r, c)
    \/ n = "globus_arch" /\ globus_arch(x, r, c)
    \/ n = "cleanup" /\ cleanup(x, r, c)

EnsembleReady(x, r, n, c) ==
    \/ n = "eobs" /\ eobs(x, r, c)
    \/ n = "ediag" /\ ediag(x, r, c)
    \/ n = "eupd" /\ eupd(x, r, c)
    \/ n = "atmensanlinit" /\ atmensanlinit(x, r, c)
    \/ n = "atmensanlobs" /\ atmensanlobs(x, r, c)
    \/ n = "atmensanlsol" /\ atmensanlsol(x, r, c)
    \/ n = "atmensanlletkf" /\ atmensanlletkf(x, r, c)
    \/ n = "atmensanlfv3inc" /\ atmensanlfv3inc(x, r, c)
    \/ n = "atmensanlfinal" /\ atmensanlfinal(x, r, c)
    \/ n = "ecmn" /\ ecen(x, r, c)
    \/ n = "ecen_fv3jedi" /\ ecen_fv3jedi(x, r, c)
    \/ n = "esfc_gcycle" /\ esfc_gcycle(x, r, c)
    \/ n = "esfc_regrid" /\ esfc_regrid(x, r, c)
    \/ n \in MemberJobs /\ efcs(x, r, c)
    \/ n = "echgres" /\ echgres(x, r, c)
    \/ n = "epmn" /\ epos(x, r, c)
    \/ n = "earc_vrfy" /\ earc_vrfy(x, r, c)
    \/ n = "earc_tars" /\ earc_tars(x, r, c)
    \/ n = "globus_earc" /\ globus_earc(x, r, c)

GfsReady(x, r, n, c) == \/ AtmosphereReady(x, r, n, c)
                        \/ ComponentReady(x, r, n, c)
                        \/ ProductReady(x, r, n, c)
                        \/ EnsembleReady(x, r, n, c)

\* The jobs of the document for a task: the document names some of them, or
\* their metatask, otherwise than the list of tasks.
GfsJobNames(e, r, task) ==
    IF task \in {"fcst", "efcs"} THEN Members(e, r, "fcst")
    ELSE {CASE task = "ecen" -> "ecmn"
            [] task = "epos" -> "epmn"
            [] task = "gempakpgrb2spec" -> "gempakgrb2spec"
            [] OTHER -> task}

-----------------------------------------------------------------------------
(* The cycledefs a task names.                                                *)

GfsCycledefs(e, r, task) ==
    LET gfsEnsemble == "hybvar" \in e.options[r] /\ "enkfgfs" \in e.runs
        both == IF r \in {"gdas", "enkfgdas"} THEN {"gdas_half", "gdas"}
                                              ELSE {Det(r)}
    IN  CASE task \in {"fetch", "stage_ic"} ->
                IF r \in {"gdas", "enkfgdas"} THEN {"gdas_half"} ELSE {r}
          [] task \in {"prep", "atmanlinit"} ->
                IF r = "gfs" /\ gfsEnsemble /\ e.every # 1 THEN {"gdas"} ELSE {r}
          [] task = "aeroanlgenb" -> {"gdas_half", "gdas"}
          [] task = "atmensanlinit" -> {"gdas"}
          [] task = "aerosol_init" -> {"gfs_seq"}
          [] task = "metp" -> {"metp", "last_gfs"}
          [] task \in {"waveinit", "waveprep"} ->
                IF r = "gdas" THEN {"gdas_half", "gdas"} ELSE {r}
          [] task = "fcst" -> IF e.mode = "cycled" THEN both ELSE {r}
          [] task \in {"atmupp", "goesupp", "atmos_prod", "ocean_prod",
                       "ice_prod", "efcs", "echgres", "epos", "cleanup"} -> both
          [] OTHER -> {Det(r)}
=============================================================================
