------------------------------ MODULE SfsTasks ------------------------------
(* The seasonal forecast system: dev/workflow/rocoto/sfs_tasks.py, one        *)
(* operator per method of SFSTasks with its name; which tasks there are,      *)
(* applications/sfs.py; at which cycles, rocoto/sfs_xml.py.                   *)
(*                                                                            *)
(* A case s: s.app, s.switches, s.members, s.nseg, s.last and s.every.        *)
EXTENDS MemberTerms, FiniteSets

When(p, names) == IF p THEN names ELSE {}

-----------------------------------------------------------------------------
(* Dependencies *)

stage_ic(x, r, c) == TRUE

waveinit(x, r, c) == TRUE

prep_emissions(x, r, c) == TRUE

fcst(x, r, c) ==
    /\ Task(x, r, "stage_ic", c)
    /\ Do(x, r, "wave") => Task(x, r, "wave_init", c)
    /\ Do(x, r, "aero_fcst") => Task(x, r, "prep_emissions", c)

efcs(x, r, c) ==
    /\ Task(x, r, "stage_ic", c)
    /\ Do(x, r, "wave") => Task(x, r, "wave_init", c)
    /\ Do(x, r, "aero_fcst") => Task(x, r, "prep_emissions", c)

atmos_post(x, r, m, c) == Meta(x, r, Forecast(m), c)

ocn_post(x, r, m, c) == Meta(x, r, Within("ocean_prod", m), c)

ice_post(x, r, m, c) == Meta(x, r, Within("ice_prod", m), c)

\* The name of the history of the ice has a stray '$', and is never there.
_atmosoceaniceprod(x, r, component, m, c) ==
    \/ component # "ice" /\ Data(x, r, LastForecast(x, m), c)
    \/ Task(x, r, LastForecast(x, m), c)

wavepostgridded(x, r, m, c) == Data(x, r, LastForecast(x, m), c)

wavepostbndpnt(x, r, m, c) == Meta(x, r, Forecast(m), c)

wavepostbndpntbll(x, r, m, c) ==
    \/ Data(x, r, Seg(Forecast(m), "0"), c)
    \/ Meta(x, r, Forecast(m), c)

wavepostpnt(x, r, m, c) ==
    /\ Meta(x, r, Forecast(m), c)
    /\ Do(x, r, "wave_bnd") => Task(x, r, Mem("wave_post_bndpnt_bull", m), c)

extractvars(x, r, m, c) ==
    /\ Do(x, r, "wave") => Meta(x, r, Within("wave_post_grid", m), c)
    /\ Do(x, r, "ocean") => Meta(x, r, Within("ocean_prod", m), c)
    /\ Do(x, r, "ice") => Meta(x, r, Within("ice_prod", m), c)
    /\ Do(x, r, "atm") => Meta(x, r, Within("atmos_prod", m), c)

\* The part of the dependencies that arch_tars and cleanup share.
Products(x, r, c) ==
    /\ Meta(x, r, "atmos_post", c)
    /\ Do(x, r, "ice") => Meta(x, r, "ice_prod", c)
    /\ Do(x, r, "ocean") => Meta(x, r, "ocean_prod", c)
    /\ Do(x, r, "wave") =>
          /\ Meta(x, r, "wave_post_grid", c)
          /\ Meta(x, r, "wave_post_pnt", c)
          /\ Do(x, r, "wave_bnd") => /\ Meta(x, r, "wave_post_bndpnt", c)
                                     /\ Meta(x, r, "wave_post_bndpnt_bull", c)
    /\ Do(x, r, "extractvars") => Meta(x, r, "extractvars", c)

arch_tars(x, r, c) ==
    /\ Products(x, r, c)
    /\ Do(x, r, "ice") => Meta(x, r, "ice_post", c)
    /\ Do(x, r, "ocean") => Meta(x, r, "ocn_post", c)

globus(x, r, c) == Task(x, r, "arch_tars", c)

cleanup(x, r, c) ==
    /\ Products(x, r, c)
    /\ Meta(x, r, "ocn_post", c)
    /\ Meta(x, r, "ice_post", c)
    /\ Do(x, r, "archcom") =>
          Task(x, r, IF Do(x, r, "globusarch") THEN "globus_arch" ELSE "arch_tars", c)

-----------------------------------------------------------------------------
(* Tasks.get_task *)

MemberReady(x, r, n, m, c) ==
    \/ \E k \in x.exp.segments :
          /\ n = Seg(Forecast(m), k)
          /\ Serial(x, r, m, k, c)
          /\ IF m = Control THEN fcst(x, r, c) ELSE efcs(x, r, c)
    \/ n = Mem("atmos_post", m) /\ atmos_post(x, r, m, c)
    \/ n = Mem("ocn_post", m) /\ ocn_post(x, r, m, c)
    \/ n = Mem("ice_post", m) /\ ice_post(x, r, m, c)
    \/ n = Mem("ocean_prod", m) /\ _atmosoceaniceprod(x, r, "ocean", m, c)
    \/ n = Mem("ice_prod", m) /\ _atmosoceaniceprod(x, r, "ice", m, c)
    \/ n = Mem("wave_post_grid", m) /\ wavepostgridded(x, r, m, c)
    \/ n = Mem("wave_post_bndpnt", m) /\ wavepostbndpnt(x, r, m, c)
    \/ n = Mem("wave_post_bndpnt_bull", m) /\ wavepostbndpntbll(x, r, m, c)
    \/ n = Mem("wave_post_pnt", m) /\ wavepostpnt(x, r, m, c)
    \/ n = Mem("extractvars", m) /\ extractvars(x, r, m, c)

TaskReady(x, r, n, c) ==
    \/ n = "stage_ic" /\ stage_ic(x, r, c)
    \/ n = "wave_init" /\ waveinit(x, r, c)
    \/ n = "prep_emissions" /\ prep_emissions(x, r, c)
    \/ \E m \in x.exp.members : MemberReady(x, r, n, m, c)
    \/ n = "arch_tars" /\ arch_tars(x, r, c)
    \/ n = "globus_arch" /\ globus(x, r, c)
    \/ n = "cleanup" /\ cleanup(x, r, c)

-----------------------------------------------------------------------------
(* applications/sfs.py *)

Components(app) ==
    CASE app = "ATM"   -> {"atm"}
      [] app = "S2S"   -> {"atm", "ocean", "ice"}
      [] app = "S2SWA" -> {"atm", "ocean", "ice", "wave", "aero_fcst"}

_get_run_options(s) ==
    s.switches \cup Components(s.app)
               \cup When(Cardinality(s.members) > 1, {"nens"})

Wave(o) == When("wave" \in o,
                {"waveinit", "wavepostgridded", "wavepostpnt"}
                \cup When("wave_bnd" \in o, {"wavepostbndpnt", "wavepostbndpntbll"}))

_get_app_configs(o) ==
    {"stage_ic", "fcst", "atmos_post", "ocn_post", "ice_post", "arch_vrfy", "cleanup"}
    \cup When("nens" \in o, {"efcs"})
    \cup When({"ocean", "ice"} \cap o # {}, {"oceanice_products"})
    \cup Wave(o)
    \cup When("aero_fcst" \in o, {"prep_emissions"})
    \cup When("extractvars" \in o, {"extractvars"})
    \cup When("archcom" \in o, {"arch_tars"})
    \cup When({"archcom", "globusarch"} \subseteq o, {"globus"})

get_task_names(o) ==
    {"stage_ic", "fcst", "atmos_post", "ocn_post", "ice_post", "cleanup"}
    \cup Wave(o)
    \cup When("aero_fcst" \in o, {"prep_emissions"})
    \cup When("nens" \in o, {"efcs"})
    \cup When("ocean" \in o, {"ocean_prod"})
    \cup When("ice" \in o, {"ice_prod"})
    \cup When("extractvars" \in o, {"extractvars"})
    \cup When("archcom" \in o, {"arch_tars"})
    \cup When({"archcom", "globusarch"} \subseteq o, {"globus"})

\* The settings a task looks up: its own, with few exceptions.
TaskConfigs(task) ==
    CASE task \in {"ocean_prod", "ice_prod"} -> {"oceanice_products"}
      [] task = "wavepostbndpntbll" -> {"wavepostbndpntbll", "wave"}
      [] OTHER -> {task}

\* The names of the document that are not those of the list of tasks.
Named(t) == CASE t = "waveinit" -> "wave_init"
              [] t = "wavepostgridded" -> "wave_post_grid"
              [] t = "wavepostbndpnt" -> "wave_post_bndpnt"
              [] t = "wavepostbndpntbll" -> "wave_post_bndpnt_bull"
              [] t = "wavepostpnt" -> "wave_post_pnt"
              [] t = "globus" -> "globus_arch"
              [] OTHER -> t

\* The metatasks that are repeated for each member.
OfEachMember ==
    {"atmos_post", "ocn_post", "ice_post", "ocean_prod", "ice_prod",
     "wave_post_grid", "wave_post_bndpnt", "wave_post_bndpnt_bull",
     "wave_post_pnt", "extractvars"}

Experiment(s) ==
    LET o == _get_run_options(s)
    IN  EnsembleExperiment(s, o, OfEachMember, {Named(t) : t \in get_task_names(o)})
==============================================================================
