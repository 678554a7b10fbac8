------------------------------ MODULE GefsTasks ------------------------------
(* The ensemble forecast system: dev/workflow/rocoto/gefs_tasks.py, one       *)
(* operator per method of GEFSTasks with its name; which tasks there are,     *)
(* applications/gefs.py; at which cycles, rocoto/gefs_xml.py.                 *)
(*                                                                            *)
(* A case s: s.app, s.switches, s.members, s.nseg, s.last and s.every.        *)
EXTENDS MemberTerms, FiniteSets

When(p, names) == IF p THEN names ELSE {}

-----------------------------------------------------------------------------
(* Dependencies *)

stage_ic(x, r, c) == TRUE

gen_control_ic(x, r, c) == Task(x, r, "stage_ic", c)

waveinit(x, r, c) == TRUE

prep_emissions(x, r, c) == TRUE

WaveAndAerosols(x, r, c) ==
    /\ Do(x, r, "wave") => Task(x, r, "wave_init", c)
    /\ Do(x, r, "aero_fcst") => Task(x, r, "prep_emissions", c)

fcst(x, r, c) ==
    /\ Task(x, r, IF Do(x, r, "gefs_real_time") THEN "gen_control_ic"
                  ELSE "stage_ic", c)
    /\ WaveAndAerosols(x, r, c)

efcs(x, r, c) == Task(x, r, "stage_ic", c) /\ WaveAndAerosols(x, r, c)

_atmosoceaniceprod(x, r, m, c) == \/ Data(x, r, LastForecast(x, m), c)
                                  \/ Task(x, r, LastForecast(x, m), c)

\* {run}_fcst_mem{m} is the name of a metatask.
postsnd(x, r, m, c) == Task(x, r, Forecast(m), c)

\* The job of the same member and hours, when both tasks group the hours alike.
gempak(x, r, m, c) == Task(x, r, Mem("atmos_prod", m), c)

atmos_ensstat(x, r, c) ==
    \A m \in x.exp.members : Task(x, r, Mem("atmos_prod", m), c)

awips(x, r, c) == Hours(x, r, "atmos_ensstat", c)

\* The log the wave model writes for the last hours.
wavepostgridded(x, r, m, c) == Data(x, r, LastForecast(x, m), c)

wave_stat(x, r, c) ==
    \A m \in x.exp.members : Task(x, r, Mem("wavepostgridded", m), c)

wave_stat_pnt(x, r, c) == Meta(x, r, "wave_stat", c)

extractvars(x, r, m, c) ==
    /\ Do(x, r, "wave") => Meta(x, r, Within("wavepostgridded", m), c)
    /\ Do(x, r, "ocean") => Meta(x, r, Within("ocean_prod", m), c)
    /\ Do(x, r, "ice") => Meta(x, r, Within("ice_prod", m), c)
    /\ Do(x, r, "atm") => Meta(x, r, Within("atmos_prod", m), c)

arch_vrfy(x, r, c) ==
    /\ Meta(x, r, "atmos_prod", c)
    /\ Meta(x, r, "atmos_ensstat", c)
    /\ Do(x, r, "ice") => Meta(x, r, "ice_prod", c)
    /\ Do(x, r, "ocean") => Meta(x, r, "ocean_prod", c)
    /\ Do(x, r, "wave") => /\ Meta(x, r, "wavepostgridded", c)
                           /\ Task(x, r, "wave_stat_pnt", c)
    /\ Do(x, r, "extractvars") => Meta(x, r, "extractvars", c)

\* Mistaken variant: the members and not the statistics of the ensemble.
arch_tars_Members(x, r, c) ==
    /\ Meta(x, r, "atmos_prod", c)
    /\ Do(x, r, "ice") => Meta(x, r, "ice_prod", c)
    /\ Do(x, r, "ocean") => Meta(x, r, "ocean_prod", c)
    /\ Do(x, r, "wave") => Meta(x, r, "wavepostgridded", c)
    /\ Do(x, r, "extractvars") => Meta(x, r, "extractvars", c)

arch_tars(x, r, c) ==
    /\ Meta(x, r, "atmos_prod", c)
    /\ Meta(x, r, "atmos_ensstat", c)
    /\ Do(x, r, "ice") => Meta(x, r, "ice_prod", c)
    /\ Do(x, r, "ocean") => Meta(x, r, "ocean_prod", c)
    /\ Do(x, r, "wave") => /\ Meta(x, r, "wavepostgridded", c)
                           /\ Task(x, r, "wave_stat_pnt", c)
    /\ Do(x, r, "extractvars") => Meta(x, r, "extractvars", c)

\* The document names this task 'globus_arch', without the run.
BareGlobus == "globus_arch without its run"

globus(x, r, c) == Task(x, r, "arch_vrfy", c)

\* Mistaken variant: the tarballs are forgotten.
cleanup_NoTarballs(x, r, c) == Task(x, r, "arch_vrfy", c)

cleanup(x, r, c) ==
    /\ Do(x, r, "archcom") =>
          Task(x, r, IF Do(x, r, "globusarch") THEN "globus_arch" ELSE "arch_tars", c)
    /\ Task(x, r, "arch_vrfy", c)

-----------------------------------------------------------------------------
(* Tasks.get_task *)

MemberReady(x, r, n, m, c) ==
    \/ \E k \in x.exp.segments :
          /\ n = Seg(Forecast(m), k)
          /\ Serial(x, r, m, k, c)
          /\ IF m = Control THEN fcst(x, r, c) ELSE efcs(x, r, c)
    \/ /\ n \in {Mem("atmos_prod", m), Mem("ocean_prod", m), Mem("ice_prod", m)}
       /\ _atmosoceaniceprod(x, r, m, c)
    \/ n = Mem("postsnd", m) /\ postsnd(x, r, m, c)
    \/ n = Mem("gempak", m) /\ gempak(x, r, m, c)
    \/ n = Mem("wavepostgridded", m) /\ wavepostgridded(x, r, m, c)
    \/ n = Mem("extractvars", m) /\ extractvars(x, r, m, c)

TaskReady(x, r, n, c) ==
    \/ n = "stage_ic" /\ stage_ic(x, r, c)
    \/ n = "gen_control_ic" /\ gen_control_ic(x, r, c)
    \/ n = "wave_init" /\ waveinit(x, r, c)
    \/ n = "prep_emissions" /\ prep_emissions(x, r, c)
    \/ \E m \in x.exp.members : MemberReady(x, r, n, m, c)
    \/ n = "atmos_ensstat" /\ atmos_ensstat(x, r, c)
    \/ n = "awips" /\ awips(x, r, c)
    \/ n = "wave_stat" /\ wave_stat(x, r, c)
    \/ n = "wave_stat_pnt" /\ wave_stat_pnt(x, r, c)
    \/ n = "arch_vrfy" /\ arch_vrfy(x, r, c)
    \/ n = "arch_tars" /\ arch_tars(x, r, c)
    \/ n = BareGlobus /\ globus(x, r, c)
    \/ n = "cleanup" /\ cleanup(x, r, c)

-----------------------------------------------------------------------------
(* applications/gefs.py *)

Components(app) ==
    CASE app = "ATM"   -> {"atm"}
      [] app = "S2SW"  -> {"atm", "ocean", "ice", "wave"}
      [] app = "S2SWA" -> {"atm", "ocean", "ice", "wave", "aero_fcst"}

_get_run_options(s) ==
    s.switches \cup Components(s.app)
               \cup When(Cardinality(s.members) > 1, {"nens"})

_get_app_configs(o) ==
    {"stage_ic", "fcst", "atmos_products", "arch_vrfy", "cleanup"}
    \cup When("gefs_real_time" \in o, {"gen_control_ic"})
    \cup When("bufrsnd" \in o, {"postsnd"})
    \cup When("gempak" \in o, {"gempak"})
    \cup When("nens" \in o, {"efcs", "atmos_ensstat"})
    \cup When({"nens", "awips"} \subseteq o, {"awips"})
    \cup When("wave" \in o, {"waveinit", "wavepostgridded", "wave_stat", "wave_stat_pnt"})
    \cup When({"ocean", "ice"} \cap o # {}, {"oceanice_products"})
    \cup When("aero_fcst" \in o, {"prep_emissions"})
    \cup When("extractvars" \in o, {"extractvars"})
    \cup When("archcom" \in o, {"arch_tars"})
    \cup When({"archcom", "globusarch"} \subseteq o, {"globus"})

get_task_names(o) ==
    {"stage_ic", "fcst", "atmos_prod", "arch_vrfy", "cleanup"}
    \cup When("gefs_real_time" \in o, {"gen_control_ic"})
    \cup When("wave" \in o, {"waveinit", "wavepostgridded", "wave_stat", "wave_stat_pnt"})
    \cup When("aero_fcst" \in o, {"prep_emissions"})
    \cup When("nens" \in o, {"efcs", "atmos_ensstat"})
    \cup When({"nens", "awips"} \subseteq o, {"awips"})
    \cup When("bufrsnd" \in o, {"postsnd"})
    \cup When("gempak" \in o, {"gempak"})
    \cup When("ocean" \in o, {"ocean_prod"})
    \cup When("ice" \in o, {"ice_prod"})
    \cup When("extractvars" \in o, {"extractvars"})
    \cup When("archcom" \in o, {"arch_tars"})
    \cup When({"archcom", "globusarch"} \subseteq o, {"globus"})

\* The settings a task looks up: its own, with few exceptions.
TaskConfigs(task) ==
    CASE task = "atmos_prod" -> {"atmos_products"}
      [] task \in {"ocean_prod", "ice_prod"} -> {"oceanice_products"}
      [] task = "gempak" -> {"gempak", "atmos_products"}
      [] task = "wave_stat" -> {"wave_stat", "wavepostgridded"}
      [] OTHER -> {task}

\* The names of the document that are not those of the list of tasks.
Named(t) == CASE t = "waveinit" -> "wave_init"
              [] t = "globus" -> BareGlobus
              [] OTHER -> t

\* The metatasks that are repeated for each member.
OfEachMember == {"atmos_prod", "ocean_prod", "ice_prod", "postsnd", "gempak",
                 "wavepostgridded", "extractvars"}

Experiment(s) ==
    LET o == _get_run_options(s)
    IN  EnsembleExperiment(s, o, OfEachMember, {Named(t) : t \in get_task_names(o)})
==============================================================================
