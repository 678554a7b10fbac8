------------------------------- MODULE GfsApps -------------------------------
(* The experiments of the GFS: which runs an experiment has, which tasks each *)
(* of them, under which options, and at which cycles.                         *)
(* dev/workflow/applications/ (applications.py, gfs_cycled.py and             *)
(* gfs_forecast_only.py), the cycledefs of dev/workflow/rocoto/               *)
(* gfs_cycled_xml.py and gfs_forecast_only_xml.py, and the rules by which     *)
(* parm/config/gfs/config.base.j2 turns switches off or on.                   *)
(*                                                                            *)
(* A case s is what a user sets up: s.mode, s.app, s.switches (those set to   *)
(* YES), s.eupd (EUPD_CYC), s.hour0, s.last (the cycle of EDATE), s.gfs0 and  *)
(* s.every (SDATE_GFS and INTERVAL_GFS in cycles), s.nseg, s.nmem.            *)
EXTENDS GfsTasks, FiniteSets

Set(s, switch) == switch \in s.switches

\* {o} when p holds: a list to which o is added under a condition.
When(p, opts) == IF p THEN opts ELSE {}

-----------------------------------------------------------------------------
(* config.base, sourced with RUN = r *)

Components(app) ==
    CASE app = "ATM"   -> {"atm"}
      [] app = "ATMA"  -> {"atm", "aero"}
      [] app = "ATMW"  -> {"atm", "wave"}
      [] app = "S2S"   -> {"atm", "ocean", "ice"}
      [] app = "S2SA"  -> {"atm", "ocean", "ice", "aero"}
      [] app = "S2SW"  -> {"atm", "ocean", "ice", "wave"}
      [] app = "S2SWA" -> {"atm", "ocean", "ice", "wave", "aero"}

IsEnkf(r) == r \in {"enkfgdas", "enkfgfs"}

\* Ensembles have neither waves nor aerosols.
ComponentsOf(s, r) ==
    Components(s.app) \ When(IsEnkf(r), {"wave", "aero"})

SoilSwitches == {"gsisoilda", "land_iau", "jedisoildavar", "jedisoildaens"}

\* The switches that hold for run r once config.base has been read.
BaseSwitches(s, r) ==
    LET soil == When(r \in {"gdas", "enkfgdas"}, s.switches \cap SoilSwitches)
        monitor == {"fit2obs", "verfozn", "verfrad", "vminmon"}
        on == (s.switches \ SoilSwitches) \cup monitor \cup soil
        statistics == \/ Set(s, "jediatmvar")
                      \/ "aero" \in ComponentsOf(s, r)
                      \/ Set(s, "jediocnvar") \/ Set(s, "jedisnowda")
    IN  (on \cup When(statistics, {"anlstat"}))
            \ ( When(soil \cap {"jedisoildavar", "jedisoildaens"} # {},
                     {"gsisoilda"})
           \cup When(Set(s, "jediatmvar"), monitor)
           \cup When(Set(s, "enkfonly_atm"),
                     {"verfozn", "verfrad", "vminmon", "metp", "fit2obs",
                      "tracker", "genesis"}))

-----------------------------------------------------------------------------
(* applications.py and the _get_run_options of the GFS *)

EnsRuns(s) ==
    IF ~Set(s, "hybvar") THEN {}
    ELSE CASE s.eupd = "both" -> {"gfs", "gdas"}
           [] s.eupd \in {"gfs", "gdas"} -> {s.eupd}

\* GFSCycledAppConfig.__init__, GFSForecastOnlyAppConfig.__init__
Runs(s) ==
    IF s.mode = "forecast-only" THEN {"gfs"}
    ELSE When(s.every > 0, {"gfs"})
         \cup When(s.every > 0 /\ "gfs" \in EnsRuns(s), {"enkfgfs"})
         \cup {"gdas"}
         \cup When("gdas" \in EnsRuns(s), {"enkfgdas"})

\* Archiving goes through globus only when it is asked for, and the aerosol
\* forecast and analysis are done in the runs of aero_fcst_runs, aero_anl_runs.
RunOptions(s, r) ==
    LET base == BaseSwitches(s, r)
        comps == ComponentsOf(s, r)
    IN  (base \ {"globusarch", "land_iau"})
        \cup When({"archcom", "globusarch"} \subseteq base, {"globusarch"})
        \cup When("land_iau" \in base, {"gsiliau"})
        \cup When(r = "gfs", {"wave_bnd"})
        \cup (comps \cap {"wave", "ocean", "ice"})
        \cup When("aero" \in comps /\ r \in s.aeroFcstRuns, {"aero_fcst"})
        \cup When("aero" \in comps /\ r \in {"gdas", "gfs"}, {"aero_anl"})

-----------------------------------------------------------------------------
(* get_task_names of the cycled application *)

DetTasks(o, r) ==
    {"prep", "sfcanl_gcycle", "atmanlupp", "atmanlprod", "fcst", "atmos_prod",
     "arch_vrfy", "cleanup"}
    \cup When("prep_sfc" \in o, {"prep_sfc"})
    \cup (IF "jediatmvar" \in o
          THEN {"atmanlinit", "atmanlvar", "atmanlfv3inc", "atmanlfinal",
                IF "jediatmens" \in o THEN "analcalc_fv3jedi" ELSE "analcalc"}
          ELSE {"anal", "analcalc"})
    \cup When("jediocnvar" \in o,
              {"prepoceanobs", "marinebmatinit", "marinebmat", "marineanlinit",
               "marineanlvar", "marineanlchkpt", "marineanlfinal"})
    \cup When("jedisnowda" \in o, {"snowanl"})
    \cup When("jedisoildavar" \in o, {"soilanlvar"})
    \cup When("wave" \in o, {"waveinit", "wavepostgridded", "wavepostpnt"})
    \cup When("wave" \in o /\ "wave_bnd" \in o,
              {"wavepostbndpnt", "wavepostbndpntbll"})
    \cup When("aero_anl" \in o, {"aeroanlinit", "aeroanlvar", "aeroanlfinal"})
    \cup When("upp" \in o, {"atmupp"})
    \cup When("vminmon" \in o, {"vminmon"})
    \cup When("archcom" \in o, {"arch_tars"})
    \cup When("archcom" \in o /\ "globusarch" \in o, {"globus_arch"})

GdasTasks(o) ==
    {"stage_ic"}
    \cup When("jediatmvar" \notin o, {"analdiag"})
    \cup When("wdqms" \in o, {"wdqms"})
    \cup When("aero_anl" \in o, {"aeroanlgenb"})
    \cup When("gsisoilda" \in o, {"sfcanl_regrid"})
    \cup (o \cap {"fit2obs", "verfozn", "verfrad", "anlstat"})
    \cup When("gempak" \in o, {"gempak", "gempakmetancdc"})

GfsOnlyTasks(o) ==
    When("ocean" \in o, {"ocean_prod"})
    \cup When("ice" \in o, {"ice_prod"})
    \cup When("goes" \in o, {"goesupp"})
    \cup (o \cap {"tracker", "genesis", "genesis_fsu", "metp"})
    \cup When("wave" \in o /\ "gempak" \in o, {"wavegempak"})
    \cup When("wave" \in o /\ "awips" \in o, {"waveawipsbulls", "waveawipsgridded"})
    \cup When("bufrsnd" \in o, {"postsnd"})
    \cup When("gempak" \in o, {"gempak"})
    \cup When("gempak" \in o /\ "goes" \in o,
              {"npoess_pgrb2_0p25deg", "gempakpgrb2spec"})
    \cup When("awips" \in o, {"awips_20km_1p0deg", "fbwind"})

EnsembleAnalysis(o) ==
    IF "jediatmens" \in o
    THEN {"atmensanlinit", "atmensanlfv3inc", "atmensanlfinal"}
         \cup (IF "jediatmens_split_obssol" \in o
               THEN {"atmensanlobs", "atmensanlsol"} ELSE {"atmensanlletkf"})
    ELSE {"eobs", "eupd", "ecen", "ediag"}

EnkfTasks(o, r) ==
    IF "enkfonly_atm" \in o
    THEN {"stage_ic", "efcs", "epos", "esfc_gcycle", "cleanup"}
         \cup EnsembleAnalysis(o) \cup When("archcom" \in o, {"earc_tars"})
    ELSE {"stage_ic", "esfc_gcycle", "earc_vrfy", "cleanup"}
         \cup EnsembleAnalysis(o)
         \cup When("jediatmens" \in o, {"ecen_fv3jedi"})
         \cup When(r = "enkfgdas", {"efcs", "epos"})
         \cup When("jediatmens" \notin o /\ r = "enkfgdas", {"echgres"})
         \cup When("jediocnvar" \in o /\ {"letkf_ocn", "letkf_ocn_inc"} \cap o # {},
                   {"marineanlletkf"})
         \cup When("jediocnvar" \in o /\ "hybvar" \in o, {"marineanlecen"})
         \cup When("jedisnowda" \in o, {"esnowanl"})
         \cup When("gsisoilda" \in o /\ r = "enkfgdas", {"esfc_regrid"})
         \cup When("jedisoildaens" \in o, {"soilanlens"})
         \cup When("archcom" \in o, {"earc_tars"})
         \cup When("archcom" \in o /\ "globusarch" \in o, {"globus_earc"})

CycledTasks(o, r) ==
    IF IsEnkf(r) THEN EnkfTasks(o, r)
    ELSE IF r = "gdas" /\ "enkfonly_atm" \in o
         THEN {"prep", "fetchatmanlbias", "prepatmanlbias"}
    ELSE DetTasks(o, r) \cup (IF r = "gdas" THEN GdasTasks(o) ELSE GfsOnlyTasks(o))

\* get_task_names of the forecast-only application
ForecastOnlyTasks(o) ==
    {"stage_ic", "fcst", "atmos_prod", "arch_vrfy", "cleanup"}
    \cup When("fetch" \in o, {"fetch"})
    \cup When("aero_fcst" \in o /\ "exp_warm_start" \notin o, {"aerosol_init"})
    \cup When("wave" \in o, {"waveinit", "wavepostgridded", "wavepostpnt"})
    \cup When("wave" \in o /\ "wave_bnd" \in o,
              {"wavepostbndpnt", "wavepostbndpntbll"})
    \cup When("upp" \in o, {"atmupp"})
    \cup (GfsOnlyTasks(o) \ {"npoess_pgrb2_0p25deg", "gempakpgrb2spec"})
    \cup When("archcom" \in o, {"arch_tars"})
    \cup When("archcom" \in o /\ "globusarch" \in o, {"globus_arch"})

TaskNames(s, o, r) ==
    IF s.mode = "cycled" THEN CycledTasks(o, r) ELSE ForecastOnlyTasks(o)

-----------------------------------------------------------------------------
(* _get_app_configs: the settings that are read for run r, and those each task*)
(* looks up (get_resource and self._configs in gfs_tasks.py).                 *)

AnalysisConfigs(o) ==
    (IF "jediatmvar" \in o
     THEN {"atmanlinit", "atmanlvar", "atmanlfv3inc", "atmanlfinal",
           IF "jediatmens" \in o THEN "analcalc_fv3jedi" ELSE "analcalc"}
     ELSE {"anal", "analdiag", "analcalc"})
    \cup When("jediocnvar" \in o,
              {"prepoceanobs", "marinebmatinit", "marinebmat", "marineanlinit",
               "marineanlvar", "marineanlchkpt", "marineanlfinal"}
              \cup When({"letkf_ocn", "letkf_ocn_inc"} \cap o # {}, {"marineanlletkf"})
              \cup When("hybvar" \in o, {"marineanlecen"}))
    \cup When("aero_anl" \in o,
              {"aeroanlgenb", "aeroanlinit", "aeroanlvar", "aeroanlfinal"})
    \cup When("jedisnowda" \in o,
              {"snowanl"} \cup When("hybvar" \in o, {"esnowanl"}))
    \cup When("gsisoilda" \in o,
              {"sfcanl_regrid"} \cup When("hybvar" \in o, {"esfc_regrid"}))
    \cup When("jedisoildavar" \in o, {"soilanlvar"})
    \cup When("jedisoildaens" \in o, {"soilanlens"})

EnsembleConfigs(o) ==
    When("hybvar" \in o,
         (IF "jediatmens" \in o
          THEN {"atmensanlinit", "atmensanlobs", "atmensanlsol", "atmensanlletkf",
                "atmensanlfv3inc", "atmensanlfinal", "ecen_fv3jedi"}
          ELSE {"eobs", "ediag", "eupd", "echgres", "ecen"})
         \cup {"esfc_gcycle", "efcs", "epos", "earc_vrfy"})
    \cup When("archcom" \in o /\ {"hybvar", "enkfonly_atm"} \cap o # {},
              {"earc_tars", "earc_groups"})

WaveConfigs(o) ==
    When("wave" \in o,
         {"waveinit", "wavepostgridded", "wavepostpnt"}
         \cup When("wave_bnd" \in o, {"wavepostbndpnt", "wavepostbndpntbll"})
         \cup When("gempak" \in o, {"wavegempak"})
         \cup When("awips" \in o, {"waveawipsbulls", "waveawipsgridded"}))

\* Mistaken variant: without the settings of the soundings.
MonitorConfigs_NoSoundings(o) ==
    (o \cap {"tracker", "genesis", "genesis_fsu", "metp"})
    \cup When("gempak" \in o, {"gempak"})
    \cup When("awips" \in o, {"awips", "fbwind"})
    \cup When({"ocean", "ice"} \cap o # {}, {"oceanice_products"})

MonitorConfigs(o) ==
    (o \cap {"tracker", "genesis", "genesis_fsu", "metp"})
    \cup When("bufrsnd" \in o, {"postsnd"})
    \cup When("gempak" \in o, {"gempak"})
    \cup When("awips" \in o, {"awips", "fbwind"})
    \cup When({"ocean", "ice"} \cap o # {}, {"oceanice_products"})

CycledConfigs(o) ==
    {"prep", "stage_ic", "sfcanl_gcycle", "fcst", "upp", "atmos_products",
     "arch_vrfy", "cleanup"}
    \cup When("enkfonly_atm" \in o, {"fetch", "prepatmanlbias"})
    \cup (o \cap {"prep_sfc", "wdqms", "fit2obs", "verfozn", "verfrad",
                  "vminmon", "anlstat"})
    \cup AnalysisConfigs(o) \cup EnsembleConfigs(o)
    \cup WaveConfigs(o) \cup MonitorConfigs(o)
    \cup When("gempak" \in o /\ "goes" \in o, {"npoess"})
    \cup When("archcom" \in o, {"arch_tars"})
    \cup When("globusarch" \in o, {"globus"})

ForecastOnlyConfigs(o) ==
    {"stage_ic", "fcst", "arch_vrfy", "cleanup", "atmos_products"}
    \cup When("fetch" \in o, {"fetch"})
    \cup When({"upp", "goes"} \cap o # {}, {"upp"})
    \cup When("aero_fcst" \in o /\ "exp_warm_start" \notin o, {"aerosol_init"})
    \cup WaveConfigs(o) \cup MonitorConfigs(o)
    \cup When("archcom" \in o,
              {"arch_tars"} \cup When("globusarch" \in o, {"globus"}))

AppConfigs(s, o) ==
    IF s.mode = "cycled" THEN CycledConfigs(o) ELSE ForecastOnlyConfigs(o)

TaskConfigs(task) ==
    CASE task = "fetchatmanlbias" -> {"fetch"}
      [] task \in {"atmanlupp", "atmupp", "goesupp"} -> {"upp"}
      [] task \in {"atmanlprod", "atmos_prod"} -> {"atmos_products"}
      [] task \in {"ocean_prod", "ice_prod"} -> {"oceanice_products"}
      [] task = "wavegempak" -> {"wavegempak", "wavepostgridded"}
      [] task = "awips_20km_1p0deg" -> {"awips"}
      [] task = "gempak" -> {"gempak", "atmos_products"}
      [] task \in {"gempakmetancdc", "gempakpgrb2spec"} -> {"gempak"}
      [] task = "npoess_pgrb2_0p25deg" -> {"npoess"}
      [] task = "globus_arch" -> {"globus"}
      [] task = "globus_earc" -> {"globus", "earc_groups"}
      [] task = "earc_tars" -> {"earc_groups", "arch_tars"}
      [] OTHER -> {task}

-----------------------------------------------------------------------------
(* get_cycledefs                                                              *)

HourOf(s, c) == (s.hour0 + c) % 4

\* From SDATE_GFS every INTERVAL_GFS, up to the last one by EDATE.
GfsCycles(s) == {c \in s.gfs0 .. s.last : (c - s.gfs0) % s.every = 0}

LastGfs(s) == s.gfs0 + ((s.last - s.gfs0) \div s.every) * s.every

\* Once a day at 18z, whatever the hours of the forecasts; the last one may be
\* after EDATE.  The forecast-only document takes EDATE for the last forecast.
MetpCycles(s) ==
    LET lastGfs == IF s.mode = "cycled" THEN LastGfs(s) ELSE s.last
        first == s.gfs0 - HourOf(s, s.gfs0) + 3
        final == lastGfs - HourOf(s, lastGfs) + 3
    IN  IF s.every < 4 THEN {c \in first .. final : (c - first) % 4 = 0}
                       ELSE GfsCycles(s)

\* The cycles of group g: none when the document does not define the group.
CyclesIn(s, g) ==
    CASE g = "gdas_half" /\ s.mode = "cycled" -> {0}
      [] g = "gdas" /\ s.mode = "cycled" -> 1 .. s.last
      [] g = "gfs" /\ s.every > 0 -> GfsCycles(s)
      [] g = "gfs_seq" /\ s.every > 0 -> GfsCycles(s) \ {s.gfs0}
      [] g = "metp" /\ s.every > 0 /\ Set(s, "metp") /\ ~Set(s, "enkfonly_atm")
             -> MetpCycles(s)
      [] OTHER -> {}

Groups == {"gdas_half", "gdas", "gfs", "gfs_seq", "metp"}

-----------------------------------------------------------------------------
(* The document: get_wf_tasks adds every task of every run.                   *)

FcstSegments(s) == IF s.nseg = 1 THEN {"fcst_seg0"} ELSE {"fcst_seg0", "fcst_seg1"}

GfsExperiment(s) ==
    LET e == [app |-> s.app, mode |-> s.mode, hour0 |-> s.hour0, last |-> s.last,
              gfs0 |-> s.gfs0, every |-> s.every, runs |-> Runs(s),
              options |-> [r \in Runs(s) |-> RunOptions(s, r)],
              parts |-> [r \in Runs(s) |->
                           [fcst |-> IF IsEnkf(r) THEN s.members
                                     ELSE IF r = "gfs" THEN FcstSegments(s)
                                     ELSE {"fcst_seg0"}]],
              lastSegment |-> [r \in Runs(s) |->
                                  IF r = "gfs" /\ s.nseg = 2 THEN "fcst_seg1"
                                  ELSE "fcst_seg0"],
              metatasks |-> GfsMetatasks,
              cycles |-> UNION {CyclesIn(s, g) : g \in Groups}, jobs |-> {}]
        JobsOfTask(r, t) ==
            GfsJobNames(e, r, t) \X UNION {CyclesIn(s, g) : g \in GfsCycledefs(e, r, t)}
        jobs == UNION {{<<r, nc[1], nc[2]>> :
                          nc \in UNION {JobsOfTask(r, t) :
                                          t \in TaskNames(s, e.options[r], r)}}
                       : r \in Runs(s)}
    IN  [e EXCEPT !.jobs = jobs]

-----------------------------------------------------------------------------
(* What the archive of a GFS cycle needs.  A task arch_tars is one job for    *)
(* each tarball; the template of a tarball (parm/archive/<type>.yaml.j2) lists*)
(* files that are required, and _create_fileset of archive.py raises when one *)
(* of them is missing.  A file is given here by the task that writes it.      *)

Jedi(o, t, gsi) == IF "jediatmvar" \in o THEN t ELSE gsi

-----------------------------------------------------------------------------
(* GFSTasks.arch_tars: the tarballs of a run, and the dataset they are.        *)

GfsTarballs(o, mode) ==
    {"gfsa", "gfs_flux", "gfs_netcdfb", "gfs_pgrb2b"}
    \cup When(mode = "cycled", {"gfs_netcdfa", "gfs_restarta"})
    \cup When("wave" \in o, {"gfswave"})
    \cup When("aero_fcst" \in o, {"chem"})
    \cup When("ocean" \in o, {"ocean_6hravg", "ocean_native"})
    \cup When({"ocean", "jediocnvar"} \subseteq o /\ mode = "cycled",
              {"gfsocean_analysis"})
    \cup When("ice" \in o, {"ice_6hravg", "ice_native"})
    \cup When("bufrsnd" \in o, {"gfs_downstream"})

GdasTarballs(o) ==
    {"gdas", "gdas_restarta", "gdas_restartb"}
    \cup When("ice" \in o, {"gdasice", "gdasice_restart"})
    \cup When("ocean" \in o, {"gdasocean", "gdasocean_restart"})
    \cup When({"ocean", "jediocnvar"} \subseteq o, {"gdasocean_analysis"})
    \cup When("wave" \in o, {"gdaswave", "gdaswave_restart"})

Tarballs(o, r, mode) ==
    CASE r = "gfs"  -> GfsTarballs(o, mode)
      [] r = "gdas" -> GdasTarballs(o)
      [] r \in {"enkfgdas", "enkfgfs"} -> {r}

-----------------------------------------------------------------------------
(* Who writes the required files of a tarball.                                 *)

MarineAnalysis ==
    {"prepoceanobs", "marinebmatinit", "marinebmat", "marineanlinit",
     "marineanlvar", "marineanlchkpt", "marineanlfinal"}

\* gdas.yaml.j2: logs, analysis, statistics, forecast and products.
GdasFiles(o) ==
    {"prep", "atmanlprod", "sfcanl_gcycle", "fcst_seg0", "atmos_prod"}
    \cup Jedi(o, {"atmanlinit", "atmanlvar", "atmanlfv3inc", "atmanlfinal"},
                 {"anal", "analdiag"})
    \cup When({"jediatmvar", "aero_anl", "jedisnowda"} \cap o # {}, {"anlstat"})
    \cup When("jediocnvar" \in o, MarineAnalysis)
    \cup When("aero_anl" \in o,
              {"aeroanlgenb", "aeroanlinit", "aeroanlvar", "aeroanlfinal"})
    \cup When("jedisnowda" \in o, {"snowanl"})
    \cup When("gsisoilda" \in o, {"sfcanl_regrid"})
    \cup (o \cap {"verfrad", "vminmon"})

\* gfsa.yaml.j2; the logs it lists are those that are there.
GfsFiles(o, mode) ==
    {"fcst_seg0", "atmos_prod"}
    \cup When(mode = "cycled",
              {"atmanlprod"}
              \cup Jedi(o, {"atmanlinit", "atmanlfinal"}, {"anal"})
              \cup When("aero_anl" \in o, {"aeroanlfinal"})
              \cup When("jediocnvar" \in o, {"marineanlfinal"})
              \cup When("jedisnowda" \in o, {"snowanl"})
              \cup (o \cap {"vminmon"}))

WaveFiles(o) ==
    {"wavepostgridded", "wavepostpnt"}
    \cup When("wave_bnd" \in o, {"wavepostbndpnt", "wavepostbndpntbll"})

\* enkf.yaml.j2 and the templates of the groups of members.
EnkfFiles(o, r) ==
    {"esfc_gcycle"}
    \cup When(r = "enkfgdas", MemberJobs \cup {"epmn"})
    \cup When(r = "enkfgdas" /\ {"jediatmens", "enkfonly_atm"} \cap o = {},
              {"echgres"})
    \cup When("gsisoilda" \in o, {"esfc_regrid"})
    \cup (IF "jediatmens" \notin o THEN {"ecmn", "eobs", "ediag", "eupd"}
          ELSE {"atmensanlinit", "atmensanlfv3inc", "atmensanlfinal"}
               \cup (IF "jediatmens_split_obssol" \in o
                     THEN {"atmensanlobs", "atmensanlsol"} ELSE {"atmensanlletkf"})
               \cup When("enkfonly_atm" \notin o, {"ecen_fv3jedi"}))
    \cup When("hybvar_ocn" \in o, {"marineanlecen"})
    \cup When({"letkf_ocn", "letkf_ocn_inc"} \cap o # {}, {"marineanlletkf"})
    \cup When("jedisnowda" \in o, {"esnowanl"})

\* analcalc and atmanlupp are left out: the next task waits for their last file.
RequiredFiles(t, o, mode) ==
    CASE t = "gdas" -> GdasFiles(o)
      [] t \in {"gfsa", "gfs_pgrb2b"} -> GfsFiles(o, mode)
      [] t = "gdas_restarta" ->
            {"sfcanl_gcycle"} \cup Jedi(o, {"atmanlfv3inc", "atmanlfinal"}, {"anal"})
      [] t = "gdas_restartb" -> {"sfcanl_gcycle", "fcst_seg0"}
      [] t = "gfs_restarta" -> {"sfcanl_gcycle"}
      [] t = "gfs_netcdfa" -> Jedi(o, {"atmanlfv3inc"}, {"anal"})
      [] t \in {"gdasocean_analysis", "gfsocean_analysis"} ->
            {"marinebmat", "marineanlvar", "marineanlchkpt", "marineanlfinal"}
      [] t \in {"gdaswave", "gfswave"} -> WaveFiles(o)
      [] t = "ocean_native" -> {"ocean_prod"}
      [] t = "ice_native" -> {"ice_prod"}
      [] t = "gfs_downstream" ->
            {"postsnd"} \cup When("gempak" \in o, {"gempak"})
      [] t \in {"enkfgdas", "enkfgfs"} -> EnkfFiles(o, t)
      [] OTHER -> {"fcst_seg0"}
=============================================================================
