------------------------------ MODULE Workflow ------------------------------
(* Experiments run by rocoto: the tasks and dependencies of the GFS, the GEFS, *)
(* the SFS and the GCAFS, under the engine of RocotoRounds.                   *)
EXTENDS RocotoRounds, GfsApps

CONSTANT Cases    \* the cases, by name; a case is of the net s.net

Gefs == INSTANCE GefsTasks
Sfs == INSTANCE SfsTasks
Gcafs == INSTANCE GcafsTasks

-----------------------------------------------------------------------------
(* What a user may set up                                                     *)

\* The tasks and the jobs of the four systems that are not of a member.
JobsOfNoMember ==
    {"aeroanlfinal", "aeroanlgenb", "aeroanlinit", "aeroanlvar", "aerosol_init",
     "anal", "analcalc", "analcalc_fv3jedi", "analdiag", "anlstat", "arch_tars",
     "arch_vrfy", "atmanlfinal", "atmanlfv3inc", "atmanlinit", "atmanlprod",
     "atmanlupp", "atmanlvar", "atmensanlfinal", "atmensanlfv3inc",
     "atmensanlinit", "atmensanlletkf", "atmensanlobs", "atmensanlsol",
     "atmos_ensstat", "atmos_post", "atmos_prod", "atmupp", "awips",
     "awips_20km_1p0deg", "cleanup", "earc_tars", "earc_vrfy", "ecen",
     "ecen_fv3jedi", "echgres", "ecmn", "ediag", "efcs", "eobs", "epmn", "epos",
     "esfc_gcycle", "esfc_regrid", "esnowanl", "eupd", "extractvars", "fbwind",
     "fcst", "fcst_mem000_seg0", "fcst_mem000_seg1", "fcst_seg0", "fcst_seg1",
     "fetch", "fetchatmanlbias", "fit2obs", "gempak", "gempakgrb2spec",
     "gempakmetancdc", "gempakpgrb2spec", "gen_control_ic", "genesis",
     "genesis_fsu", "globus_arch", "globus_earc", "goesupp", "ice_post",
     "ice_prod", "marineanlchkpt", "marineanlecen", "marineanlfinal",
     "marineanlinit", "marineanlletkf", "marineanlvar", "marinebmat",
     "marinebmatinit", "metp", "npoess_pgrb2_0p25deg",
     "ocean_prod", "ocn_post", "offlineanl", "postsnd", "prep",
     "prep_emissions", "prep_sfc", "prepatmanlbias", "prepoceanobs",
     "sfcanl_gcycle", "sfcanl_regrid", "snowanl", "soilanlens", "soilanlvar",
     "stage_ic", "tracker", "verfozn", "verfrad", "vminmon", "wave_init",
     "wave_post_bndpnt", "wave_post_bndpnt_bull", "wave_post_grid",
     "wave_post_pnt", "wave_stat", "wave_stat_pnt", "waveawipsbulls",
     "waveawipsgridded", "wavegempak", "waveinit", "wavepostbndpnt",
     "wavepostbndpntbll", "wavepostgridded", "wavepostpnt", "waveprep", "wdqms",
     Gefs!BareGlobus}

ASSUME MembersAssumption == MemberJobs \cap JobsOfNoMember = {}

\* An ensemble with members is asked for with DOHYBVAR.
GfsCase(s) == /\ s.mode \in {"cycled", "forecast-only"}
              /\ s.members \subseteq MemberJobs
              /\ s.last \in Nat
              /\ "hybvar" \in s.switches => s.members # {}

MemberTasks == Gefs!OfEachMember \cup Sfs!OfEachMember

\* Names of jobs and metatasks that name no member.
OtherNames ==
    {"stage_ic", "gen_control_ic", "wave_init", "prep_emissions", "atmos_ensstat",
     "awips", "wave_stat", "wave_stat_pnt", "arch_vrfy", "arch_tars", "globus_arch",
     Gefs!BareGlobus, "cleanup", "earc_vrfy", "earc_tars", "globus_earc",
     "anal", "atmanlvar", "eobs", "eupd", "atmensanlobs", "atmensanlletkf",
     "aeroanlvar", "marineanlvar", "marineanlletkf", "marineanlecen"}
    \cup ForecastJobs

\* The names of a document with members M differ: rocoto takes no other.
NamesApart(M) ==
    \A m, q \in M :
        /\ \A t, u \in MemberTasks : Mem(t, m) = Mem(u, q) => t = u /\ m = q
        /\ \A t \in MemberTasks, k \in {"0", "1"} : Mem(t, m) # Seg(Mem("fcst", q), k)
        /\ Mem("fcst", m) \notin MemberTasks
        /\ \A n \in OtherNames :
              n # Mem("fcst", m) /\ \A t \in MemberTasks : n # t \o "_" \o m
        /\ \A n \in OtherNames \cup MemberJobs :
              /\ \A k \in {"0", "1"} : n # Seg(Mem("fcst", m), k)
              /\ \A t \in MemberTasks : n # Mem(t, m)

\* The control is always a member.
EnsembleCase(s) == /\ "000" \in s.members
                   /\ NamesApart(s.members)

GcafsCase(s) == /\ s.mode \in {"cycled", "forecast-only"}
                /\ s.last \in Nat

ASSUME CasesAssumption ==
    \A name \in DOMAIN Cases :
        LET s == Cases[name]
        IN  \/ s.net = "gfs" /\ GfsCase(s)
            \/ s.net \in {"gefs", "sfs"} /\ EnsembleCase(s)
            \/ s.net = "gcafs" /\ GcafsCase(s)

\* The jobs of the forecasts of the GCAFS, written out.
ASSUME SegmentNames ==
    /\ Seg("fcst", "0") = "fcst_seg0" /\ Seg("fcst", "1") = "fcst_seg1"
    /\ Seg(Mem("fcst", "000"), "0") = "fcst_mem000_seg0"
    /\ Seg(Mem("fcst", "000"), "1") = "fcst_mem000_seg1"

-----------------------------------------------------------------------------
(* The experiments                                                            *)

\* get_task_names and get_wf_tasks of the application of the net.
ExperimentOf(s) ==
    CASE s.net = "gfs"   -> GfsExperiment(s)
      [] s.net = "gefs"  -> Gefs!Experiment(s)
      [] s.net = "sfs"   -> Sfs!Experiment(s)
      [] s.net = "gcafs" -> Gcafs!Experiment(s)

Experiment == [name \in DOMAIN Cases |-> ExperimentOf(Cases[name])]

WorkflowJobs(e) == Experiment[e].jobs

WorkflowReady(e, j, D, B) ==
    LET x == [exp |-> Experiment[e], done |-> D, begun |-> B]
    IN  \/ Cases[e].net = "gfs"   /\ GfsReady(x, j[1], j[2], j[3])
        \/ Cases[e].net = "gefs"  /\ Gefs!TaskReady(x, j[1], j[2], j[3])
        \/ Cases[e].net = "sfs"   /\ Sfs!TaskReady(x, j[1], j[2], j[3])
        \/ Cases[e].net = "gcafs" /\ Gcafs!TaskReady(x, j[1], j[2], j[3])

Options(r) == Experiment[exp].options[r]

\* Of these tasks of run r at cycle c, those the document has and that are not
\* done.
Undone(r, tasks, c) == {n \in tasks : <<r, n, c>> \in WorkflowJobs(exp) \ done}

-----------------------------------------------------------------------------
(* The order of the jobs                                                      *)

\* The run whose forecasts the analyses cycle.
Cycling == IF Cases[exp].net = "gcafs" THEN "gcdas" ELSE "gdas"

Analyses == {"anal", "atmanlvar", "eobs", "eupd", "atmensanlobs", "atmensanlletkf"}

\* An analysis of the atmosphere starts from a whole background: the products
\* of the gdas forecast of the cycle before and, where there is an ensemble,
\* every member and its statistics; that of the aerosols from the forecast and
\* its background errors.  Nothing in the analysis scripts checks it, and only
\* prep, two tasks earlier, waits for the first of them.
AnalysesHaveBackground ==
    \A j \in begun :
        /\ j[2] \in Analyses =>
              /\ Undone("gdas", {"atmos_prod"}, j[3] - 1) = {}
              /\ IsEnkf(j[1]) \/ "hybvar" \in Options(j[1]) =>
                    Undone("enkfgdas", MemberJobs \cup {"epmn"}, j[3] - 1) = {}
        /\ j[2] = "aeroanlvar" =>
              Undone(Cycling, {"fcst_seg0", "aeroanlgenb"}, j[3] - 1) = {}

\* The same for the ocean and the ice: the marine analysis reads the history
\* of the whole gdas forecast, its ensemble those of the members.
MarineAnalysesHaveBackground ==
    \A j \in begun :
        /\ j[2] \in {"marineanlvar", "marineanlletkf"} =>
              Undone("gdas", {"fcst_seg0"}, j[3] - 1) = {}
        /\ j[2] = "marineanlletkf" => Undone("enkfgdas", MemberJobs, j[3] - 1) = {}
        /\ j[2] = "marineanlecen" /\ "hybvar_ocn" \in Options(j[1]) =>
              Undone("enkfgdas", MemberJobs, j[3] - 1) = {}

\* The analyses whose increments and restart files a forecast starts from.
Increments ==
    {"anal", "atmanlfv3inc", "atmanlfinal", "sfcanl_gcycle", "sfcanl_regrid",
     "marineanlchkpt", "marineanlfinal", "aeroanlfinal", "snowanl", "soilanlvar",
     "eupd", "ecmn", "atmensanlfinal", "ecen_fv3jedi", "esfc_gcycle",
     "esfc_regrid", "esnowanl", "marineanlecen", "soilanlens"}

\* A forecast of a cycled experiment starts when every increment of its run and
\* cycle is there; both runs of the GCAFS take those of the gcdas.  The forecast
\* script takes the increments it finds, so one that comes late is lost without
\* an error.
ForecastsHaveIncrements ==
    \A j \in begun : j[2] \in ForecastJobs \cup MemberJobs =>
        Undone(IF Cases[exp].net = "gcafs" THEN "gcdas" ELSE j[1], Increments, j[3])
            = {}

\* What is made of each member of the GEFS and the SFS.
MemberProducts ==
    {Mem(t, m) : m \in Experiment[exp].members,
                 t \in {"atmos_prod", "ocean_prod", "ice_prod", "wavepostgridded",
                        "atmos_post", "ocn_post", "ice_post", "wave_post_grid",
                        "wave_post_pnt", "extractvars"}}

\* An archive of the GEFS or the SFS starts when the products of every member
\* and the statistics of the ensemble are all there.  The templates name the
\* files of a member by patterns: what is not there yet is left out of the
\* tarball without an error.
MembersArchivedWhole ==
    Cases[exp].net \in {"gefs", "sfs"} =>
        \A j \in begun : j[2] = "arch_tars" =>
            Undone(j[1], MemberProducts \cup {"atmos_ensstat", "wave_stat"}, j[3]) = {}

-----------------------------------------------------------------------------
(* Archive and cleanup                                                        *)

ArchiveJobs == {"arch_tars", "earc_tars"}

\* Tasks that write files a tarball requires, of the cycle of that tarball, and
\* that no dependency of arch_tars reaches: bufr soundings of gfs_downstream,
\* restart files at the end of the forecast, the log of aeroanlgenb.
NotAwaited == {"postsnd", "gempak", "fcst_seg0", "fcst_seg1", "aeroanlgenb"}

\* The files the tarballs of run r require, by the task that writes them.
Required(r) ==
    LET o == Options(r)
        mode == Experiment[exp].mode
    IN  CASE Cases[exp].net = "gfs" ->
                UNION {RequiredFiles(t, o, mode) : t \in Tarballs(o, r, mode)}
          [] Cases[exp].net = "gcafs" -> Gcafs!RequiredFiles(o, r)
          [] OTHER -> {}

Missing(j) == Undone(j[1], Required(j[1]), j[3])

\* When the tarballs of a cycle are made their required files are there:
\* a missing one is a FileNotFoundError.  All but those of NotAwaited.
RequiredFilesMade ==
    \A j \in begun : j[2] \in ArchiveJobs => Missing(j) \subseteq NotAwaited

\* archive.py collects the required files when the task starts.
EveryRequiredFileMade ==
    \A j \in begun : j[2] \in ArchiveJobs => Missing(j) = {}

Archives == {"arch_vrfy", "arch_tars", "globus_arch", Gefs!BareGlobus,
             "earc_vrfy", "earc_tars", "globus_earc"}

\* The cleanup of a run and cycle removes what was to be archived only when
\* every archive of that run and cycle has been made and has been handed over.
CleanupAfterArchives ==
    \A j \in begun : j[2] = "cleanup" => Undone(j[1], Archives, j[3]) = {}

AllTasks == {j[2] : j \in WorkflowJobs(exp)} \ {"cleanup"}

\* JGLOBAL_CLEANUP: "cleanup is only executed after the entire cycle is
\* successfully completed."
CleanupAfterCycle ==
    \A j \in begun : j[2] = "cleanup" => Undone(j[1], AllTasks, j[3]) = {}

-----------------------------------------------------------------------------
(* The document                                                               *)

\* Every task finds the settings it looks up among those the application read
\* for its run: a setting that is not there is a KeyError of setup_workflow.
ConfigsSourced ==
    LET s == Cases[exp]
    IN  \A r \in DOMAIN Experiment[exp].options :
            LET o == Options(r)
            IN  CASE s.net = "gfs" ->
                        \A t \in TaskNames(s, o, r) : TaskConfigs(t) \subseteq AppConfigs(s, o)
                  [] s.net = "gefs" ->
                        \A t \in Gefs!get_task_names(o) :
                            Gefs!TaskConfigs(t) \subseteq Gefs!_get_app_configs(o)
                  [] s.net = "sfs" ->
                        \A t \in Sfs!get_task_names(o) :
                            Sfs!TaskConfigs(t) \subseteq Sfs!_get_app_configs(o)
                  [] s.net = "gcafs" ->
                        \A t \in Gcafs!get_task_names(s, o, r) :
                            Gcafs!TaskConfigs(t) \subseteq Gcafs!_get_app_configs(s, o)

\* Every task of the document gets to run, in every cycle it is defined for.
\* A dependency on a task that the document lacks at that cycle holds up the
\* task, its cleanup, and with them the experiment.
EveryJobRuns == <>(done = Jobs(exp))
=============================================================================
