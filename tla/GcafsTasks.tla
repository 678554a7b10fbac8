------------------------------ MODULE GcafsTasks ------------------------------
(* The aerosol forecast system: dev/workflow/rocoto/gcafs_tasks.py, one       *)
(* operator per method of GCAFSTasks that a list of tasks names;              *)
(* applications/gcafs_cycled.py and gcafs_forecast_only.py;                   *)
(* rocoto/gcafs_cycled_xml.py and gcafs_forecast_only_xml.py.                 *)
(*                                                                            *)
(* A case s: s.mode, s.switches, s.aeroAnlRuns (AERO_ANL_RUNS), s.hour0,      *)
(* s.last, s.gfs0, s.every and s.nseg, as in GfsApps.                         *)
EXTENDS RocotoTerms, FiniteSets

When(p, names) == IF p THEN names ELSE {}

-----------------------------------------------------------------------------
(* Staging, observations, emissions *)

\* The analysis of the operational GFS comes from outside and is there.
fetch(x, r, c) == TRUE

stage_ic(x, r, c) == Do(x, r, "fetch") => Task(x, r, "fetch", c)

prep(x, r, c) ==
    /\ Meta(x, "gcdas", "atmos_prod", c - 1)
    /\ ForecastData(x, "gcdas", c - 1)
    /\ Meta(x, "gcdas", "fcst", c - 1)
    /\ Do(x, r, "prep_sfc") => Task(x, r, "prep_sfc", c)

prep_emissions(x, r, c) == TRUE

aerosol_init(x, r, c) ==
    Data(x, r, "stage_ic", c) /\ ForecastData(x, r, c - x.exp.every)

-----------------------------------------------------------------------------
(* Analyses *)

offlineanl(x, r, c) == Task(x, r, "fetch", c) /\ Meta(x, "gcdas", "fcst", c - 1)

sfcanl_gcycle(x, r, c) ==
    Task(x, "gcdas", IF Do(x, r, "jediatmvar") THEN "atmanlfinal" ELSE "offlineanl", c)

aeroanlgenb(x, r, c) == Meta(x, r, "fcst", c)

aeroanlinit(x, r, c) ==
    Task(x, "gcdas", "aeroanlgenb", c - 1) /\ Task(x, "gcdas", "prep", c)

aeroanlvar(x, r, c) == Task(x, r, "aeroanlinit", c)

aeroanlfinal(x, r, c) ==
    Task(x, r, "aeroanlvar", c) /\ Task(x, r, "sfcanl_gcycle", c)

analcalc(x, r, c) == /\ Task(x, r, "offlineanl", c)
                     /\ Task(x, r, "sfcanl_gcycle", c)
                     /\ Task(x, r, "aeroanlfinal", c)

anlstat(x, r, c) == Do(x, r, "aero_anl") => Task(x, r, "aeroanlfinal", c)

-----------------------------------------------------------------------------
(* Forecast and products *)

\* aerosol_init is asked of the cycle before, and when that is there, of one
\* that may be the first, for which the task is not defined.
_fcst_forecast_only(x, r, c) ==
    /\ Task(x, r, "stage_ic", c)
    /\ Do(x, r, "wave") => Task(x, r, "wave_init", c)
    /\ Do(x, r, "aero_fcst") =>
          /\ Task(x, r, "prep_emissions", c)
          /\ \/ Task(x, r, "aerosol_init", c - x.exp.every)
             \/ ~CycleExists(x, c - x.exp.every)

\* Both runs start from the analysis of the gcdas.
_fcst_cycled(x, r, c) ==
    /\ \/ /\ Task(x, "gcdas", "sfcanl_gcycle", c)
          /\ Do(x, r, "use_aero_anl") => Task(x, "gcdas", "aeroanlfinal", c)
       \/ r = "gcdas" /\ Task(x, r, "stage_ic", c)
    /\ Do(x, r, "aero_fcst") => Task(x, r, "prep_emissions", c)

\* The metatask is serial: a segment waits for the one before it.
fcst(x, r, n, c) ==
    LET f == IF x.exp.mode = "cycled" THEN "fcst" ELSE Mem("fcst", "000")
    IN  /\ n = Seg(f, "1") => Task(x, r, Seg(f, "0"), c)
        /\ IF x.exp.mode = "cycled" THEN _fcst_cycled(x, r, c)
                                    ELSE _fcst_forecast_only(x, r, c)

atmanlupp(x, r, c) == Task(x, r, "analcalc", c)

\* The master file of the analysis, which atmanlupp writes.
atmanlprod(x, r, c) == Data(x, r, "atmanlupp", c)

_upptask(x, r, c) == ForecastData(x, r, c)

_atmosoceaniceprod(x, r, c) == ForecastData(x, r, c) \/ Meta(x, r, "fcst", c)

\* Verification of a cycle without a forecast waits for that of the last cycle
\* with one, as far back as the interval of the forecasts.
metp(x, r, c) ==
    \/ Task(x, r, "arch_vrfy", c)
    \/ /\ x.exp.every < 4
       /\ ~TaskValid(x, r, "arch_vrfy", c)
       /\ \E k \in 1 .. x.exp.every : /\ Task(x, r, "arch_vrfy", c - k)
                                      /\ \A i \in 1 .. k - 1 : ~CycleExists(x, c - i)

-----------------------------------------------------------------------------
(* Archive and cleanup *)

arch_vrfy(x, r, c) == Meta(x, r, "atmos_prod", c)

arch_tars(x, r, c) ==
    /\ x.exp.mode = "cycled" /\ {"anlstat", "aero_anl"} \subseteq x.exp.options[r]
          => Task(x, r, "anlstat", c)
    /\ x.exp.mode = "cycled" /\ r = "gcdas" /\ Do(x, r, "aero_anl")
          => Task(x, r, "aeroanlgenb", c) /\ Task(x, r, "atmanlprod", c)
    /\ Meta(x, r, "atmos_prod", c)
    /\ Do(x, r, "metp") /\ r = "gcafs" =>
          ~TaskValid(x, r, "metp", c) \/ Meta(x, r, "metp", c)
    /\ Task(x, r, "arch_vrfy", c)

cleanup(x, r, c) ==
    /\ Meta(x, r, "atmos_prod", c)
    /\ Task(x, r, "arch_vrfy", c)
    /\ Do(x, r, "archcom") =>
          Task(x, r, IF Do(x, r, "globusarch") THEN "globus_arch" ELSE "arch_tars", c)

-----------------------------------------------------------------------------
(* Tasks.get_task.  The list names a task globus_arch, for which there is no   *)
(* method: setup_workflow ends with an error, and no case asks for it.         *)

TaskReady(x, r, n, c) ==
    \/ n = "fetch" /\ fetch(x, r, c)
    \/ n = "stage_ic" /\ stage_ic(x, r, c)
    \/ n = "prep" /\ prep(x, r, c)
    \/ n = "prep_emissions" /\ prep_emissions(x, r, c)
    \/ n = "aerosol_init" /\ aerosol_init(x, r, c)
    \/ n = "offlineanl" /\ offlineanl(x, r, c)
    \/ n = "sfcanl_gcycle" /\ sfcanl_gcycle(x, r, c)
    \/ n = "aeroanlgenb" /\ aeroanlgenb(x, r, c)
    \/ n = "aeroanlinit" /\ aeroanlinit(x, r, c)
    \/ n = "aeroanlvar" /\ aeroanlvar(x, r, c)
    \/ n = "aeroanlfinal" /\ aeroanlfinal(x, r, c)
    \/ n = "analcalc" /\ analcalc(x, r, c)
    \/ n = "anlstat" /\ anlstat(x, r, c)
    \/ \E m \in DOMAIN x.exp.parts[r] : n \in x.exp.parts[r][m] /\ fcst(x, r, n, c)
    \/ n = "atmanlupp" /\ atmanlupp(x, r, c)
    \/ n = "atmanlprod" /\ atmanlprod(x, r, c)
    \/ n \in {"atmupp", "goesupp"} /\ _upptask(x, r, c)
    \/ n = "atmos_prod" /\ _atmosoceaniceprod(x, r, c)
    \/ n = "metp" /\ metp(x, r, c)
    \/ n = "arch_vrfy" /\ arch_vrfy(x, r, c)
    \/ n = "arch_tars" /\ arch_tars(x, r, c)
    \/ n = "cleanup" /\ cleanup(x, r, c)

-----------------------------------------------------------------------------
(* The applications *)

Runs(s) == IF s.mode = "forecast-only" THEN {"gcafs"}
           ELSE {"gcdas"} \cup When(s.every > 0, {"gcafs"})

\* config.base: the analysis of aerosols is done in the runs of AERO_ANL_RUNS,
\* with its statistics.
_get_run_options(s, r) ==
    s.switches \cup {"atm", "aero_fcst"}
               \cup When(r \in s.aeroAnlRuns, {"aero_anl", "anlstat"})
               \cup When("jediatmvar" \in s.switches, {"anlstat"})

CycledConfigs(o) ==
    {"fetch", "offlineanl", "stage_ic", "sfcanl_gcycle", "fcst", "upp",
     "atmos_products", "arch_vrfy", "cleanup"}
    \cup When("aero_fcst" \in o, {"aero", "prep_emissions"})
    \cup When("archcom" \in o, {"arch_tars"})
    \cup When("aero_anl" \in o, {"aeroanlgenb", "aeroanlinit", "aeroanlvar",
                                 "aeroanlfinal", "prep", "analcalc"})
    \cup (o \cap {"metp", "anlstat"})

\* The forecast-only list ends before arch_tars, arch_vrfy and cleanup, which
\* are commented out.
ForecastOnlyTasks(o) ==
    {"stage_ic", "fcst", "atmos_prod"}
    \cup When("aero_fcst" \in o, {"prep_emissions", "aerosol_init"})

ForecastOnlyConfigs(o) ==
    {"stage_ic", "fcst", "atmos_products", "aero", "aerosol_init",
     "prep_emissions", "arch_vrfy", "cleanup"}
    \cup When("archcom" \in o, {"arch_tars"})

GcdasTasks(o) ==
    {"stage_ic", "fetch", "offlineanl", "sfcanl_gcycle"}
    \cup When("aero_anl" \in o,
              {"aeroanlgenb", "aeroanlinit", "aeroanlvar", "aeroanlfinal", "prep",
               "analcalc", "atmanlupp", "atmanlprod"})
    \cup When("anlstat" \in o, {"anlstat"})

CycledTasks(o, r) ==
    {"fcst", "atmos_prod", "arch_vrfy", "cleanup"}
    \cup When(r = "gcdas", GcdasTasks(o))
    \cup When("aero_fcst" \in o, {"prep_emissions"})
    \cup When("upp" \in o, {"atmupp"})
    \cup When(r = "gcafs" /\ "goes" \in o, {"goesupp"})
    \cup When(r = "gcafs" /\ "metp" \in o, {"metp"})
    \cup When("archcom" \in o, {"arch_tars"})

get_task_names(s, o, r) ==
    IF s.mode = "cycled" THEN CycledTasks(o, r) ELSE ForecastOnlyTasks(o)

_get_app_configs(s, o) ==
    IF s.mode = "cycled" THEN CycledConfigs(o) ELSE ForecastOnlyConfigs(o)

\* The settings a task looks up: its own, with few exceptions.
TaskConfigs(task) ==
    CASE task \in {"atmanlupp", "atmupp", "goesupp"} -> {"upp"}
      [] task \in {"atmanlprod", "atmos_prod"} -> {"atmos_products"}
      [] OTHER -> {task}

-----------------------------------------------------------------------------
(* Archive: master_gcdas.yaml.j2 and master_gcafs.yaml.j2                     *)

\* The files that are required in a tarball of run r, by the task that writes
\* them.  config.base has the forecast do the work of UPP.
RequiredFiles(o, r) ==
    {"fcst_seg0", "atmos_prod"}
    \cup When(r = "gcdas" /\ "aero_anl" \in o,
              {"aeroanlgenb", "aeroanlinit", "aeroanlvar", "aeroanlfinal",
               "analcalc", "atmanlprod"})

-----------------------------------------------------------------------------
(* Cycles *)

GcafsCycles(s) == {c \in s.gfs0 .. s.last : (c - s.gfs0) % s.every = 0}

MetpCycles(s) ==
    LET Hour18(c) == c - ((s.hour0 + c) % 4) + 3
        lastGcafs == s.gfs0 + ((s.last - s.gfs0) \div s.every) * s.every
        first == Hour18(s.gfs0)
    IN  IF s.every < 4
        THEN {c \in first .. Hour18(lastGcafs) : (c - first) % 4 = 0}
        ELSE GcafsCycles(s)

CyclesIn(s, g) ==
    CASE g = "gcdas_half" /\ s.mode = "cycled" -> {0}
      [] g = "gcdas" /\ s.mode = "cycled" -> 1 .. s.last
      [] g = "gcafs" /\ s.every > 0 -> GcafsCycles(s)
      [] g = "gcafs_seq" /\ s.every > 0 -> GcafsCycles(s) \ {s.gfs0}
      [] g = "metp" /\ s.every > 0 /\ "metp" \in s.switches -> MetpCycles(s)
      [] OTHER -> {}

\* The cycledefs a task names; last_gfs is called last_gcafs in the document.
Cycledefs(s, r, task) ==
    CASE task \in {"fcst", "atmos_prod", "prep_emissions"} ->
            IF r = "gcdas" THEN {"gcdas_half", "gcdas"} ELSE {r}
      [] task = "stage_ic" -> IF r = "gcdas" THEN {"gcdas_half"} ELSE {r}
      [] task = "fetch" -> {"gcdas"} \cup When("fetch" \in s.switches, {"gcdas_half"})
      [] task = "aeroanlgenb" -> {"gcdas_half", "gcdas"}
      [] task \in {"offlineanl", "sfcanl_gcycle"} -> {"gcdas"}
      [] task = "aerosol_init" -> {"gcafs_seq"}
      [] task = "metp" -> {"metp", "last_gfs"}
      [] OTHER -> {r}

-----------------------------------------------------------------------------
(* The document *)

Experiment(s) ==
    LET runs == Runs(s)
        options == [r \in runs |-> _get_run_options(s, r)]
        f == IF s.mode = "cycled" THEN "fcst" ELSE Mem("fcst", "000")
        lastSeg == [r \in runs |-> IF r = "gcafs" /\ s.nseg = 2 THEN Seg(f, "1")
                                   ELSE Seg(f, "0")]
        parts == [r \in runs |-> [n \in {f} |-> {Seg(f, "0"), lastSeg[r]}]]
        CyclesOf(r, t) == UNION {CyclesIn(s, g) : g \in Cycledefs(s, r, t)}
        JobsOf(r, t) == {<<r, n, c>> : n \in IF t = "fcst" THEN parts[r][f] ELSE {t},
                                       c \in CyclesOf(r, t)}
    IN  [net |-> s.net, mode |-> s.mode, every |-> s.every, hour0 |-> s.hour0,
         options |-> options, parts |-> parts, lastSegment |-> lastSeg,
         metatasks |-> {f, "atmos_prod", "atmupp", "goesupp", "metp"},
         cycles |-> UNION {CyclesIn(s, g) : g \in {"gcdas_half", "gcdas", "gcafs",
                                                   "gcafs_seq", "metp"}},
         jobs |-> UNION {UNION {JobsOf(r, t) : t \in get_task_names(s, options[r], r)}
                         : r \in runs}]
==============================================================================
