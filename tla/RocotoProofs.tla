---------------------------- MODULE RocotoProofs ----------------------------
(* Theorems about experiments run by rocoto.  About the engine and its rounds,*)
(* for every set of experiments, jobs, dependencies and cyclethrottle; about  *)
(* the documents of the GFS, the GEFS, the SFS and the GCAFS, for every case  *)
(* that meets the assumptions of Workflow, whatever is switched on.           *)
(* The dependencies are monotone (ReadyMonotone), so that what a job that has *)
(* begun waited for holds in every state (BegunReady).  Each property of      *)
(* Workflow then follows from the chain of the dependencies of its system.    *)
EXTENDS Workflow, FiniteSetTheorems, TLAPS

-----------------------------------------------------------------------------
(* What a call preserves                                                      *)

\* Only jobs of the experiment are submitted.
LEMMA SubmittableAreJobs ==
    ASSUME NEW e, NEW D, NEW B
    PROVE  Submittable(e, D, B) \subseteq Jobs(e) \ B
BY DEF Submittable

\* The first call finds nothing submitted.
LEMMA InitType == Init => TypeOK
BY DEF Init, TypeOK

\* A call keeps the types.
LEMMA CallType == ASSUME TypeOK, [Call]_vars PROVE TypeOK'
<1>1. CASE Call
  <2>1. begun' \subseteq Jobs(exp)
    BY <1>1, SubmittableAreJobs DEF Call, TypeOK
  <2>2. done' \subseteq begun'
    BY <1>1 DEF Call
  <2> QED  BY <1>1, <2>1, <2>2 DEF Call, TypeOK
<1>2. CASE UNCHANGED vars
  BY <1>2 DEF vars, TypeOK
<1> QED  BY <1>1, <1>2

\* The engine submits jobs of the experiment only, and only those it submitted
\* are ever done.
THEOREM TypeCorrect == Spec => []TypeOK
<1>1. Init => TypeOK
  BY InitType
<1>2. TypeOK /\ [Call]_vars => TypeOK'
  BY CallType
<1> QED  BY <1>1, <1>2, PTL DEF Spec

-----------------------------------------------------------------------------
(* Dependencies                                                               *)

\* A dependency that holds goes on to hold when more jobs end or begin.  It is
\* so for every dependency the generator writes: what a dependency says of jobs
\* is never negated, only what it says of cycles and of the document is.
Monotone(e) ==
    \A j \in Jobs(e) : \A D1, B1 \in SUBSET Jobs(e) : \A D2, B2 \in SUBSET Jobs(e) :
        D1 \subseteq D2 /\ B1 \subseteq B2 /\ Ready(e, j, D1, B1) => Ready(e, j, D2, B2)

\* The dependency of a job that has begun holds.
BegunReady == \A j \in begun : Ready(exp, j, done, begun)

\* A call keeps what the jobs that have begun depended on.
LEMMA CallKeepsReady ==
    ASSUME \A e \in Experiments : Monotone(e), TypeOK, BegunReady, [Call]_vars
    PROVE  BegunReady'
<1>1. CASE UNCHANGED vars
  BY <1>1 DEF vars, BegunReady
<1>2. CASE Call
  <2>1. TypeOK'
    BY CallType
  <2> SUFFICES ASSUME NEW j \in begun' PROVE Ready(exp, j, done', begun')
    BY <1>2 DEF BegunReady, Call
  <2>2. j \in Jobs(exp) /\ exp \in Experiments /\ exp' = exp
    BY <1>2, <2>1 DEF TypeOK, Call
  <2>3. /\ done \in SUBSET Jobs(exp) /\ begun \in SUBSET Jobs(exp)
        /\ done' \in SUBSET Jobs(exp) /\ begun' \in SUBSET Jobs(exp)
    BY <2>1, <2>2 DEF TypeOK
  <2>4. done \subseteq done' /\ begun \subseteq begun'
    BY <1>2 DEF Call
  <2>5. CASE j \in begun
    <3>1. Ready(exp, j, done, begun)
      BY <2>5 DEF BegunReady
    <3> QED  BY <2>2, <2>3, <2>4, <3>1 DEF Monotone
  <2>6. CASE j \notin begun
    <3>1. Ready(exp, j, done', begun)
      BY <1>2, <2>6 DEF Call, Submittable
    <3> QED  BY <2>2, <2>3, <2>4, <3>1 DEF Monotone
  <2> QED  BY <2>5, <2>6
<1> QED  BY <1>1, <1>2

\* Whatever calls come when, and however many jobs are late, no job begins
\* before what its dependency names, and the dependency never ceases to hold.
THEOREM DependenciesHold ==
    ASSUME \A e \in Experiments : Monotone(e)
    PROVE  Spec => []BegunReady
<1>1. Init => TypeOK /\ BegunReady
  BY InitType DEF Init, BegunReady
<1>2. TypeOK /\ BegunReady /\ [Call]_vars => (TypeOK /\ BegunReady)'
  BY CallType, CallKeepsReady
<1> QED  BY <1>1, <1>2, PTL DEF Spec

-----------------------------------------------------------------------------
(* What cannot begin before a late job ends                                   *)

\* Cycles that are active when D is done are active when more is: the cycles
\* before them that are open are fewer.
LEMMA ActiveGrows ==
    ASSUME NEW e, IsFiniteSet(Jobs(e)), NEW D1, NEW D2, D1 \subseteq D2
    PROVE  Active(e, D1) \subseteq Active(e, D2)
<1> SUFFICES ASSUME NEW c \in Active(e, D1) PROVE c \in Active(e, D2)
  OBVIOUS
<1> DEFINE Before(D) == {b \in Incomplete(e, D) : b < c}
<1>1. IsFiniteSet(Jobs(e) \ D1)
  BY FS_Subset
<1>2. IsFiniteSet(Incomplete(e, D1))
  <2> DEFINE date == [j \in Jobs(e) \ D1 |-> CycleOf(j)]
  <2>1. date \in Surjection(Jobs(e) \ D1, Incomplete(e, D1))
    BY DEF Surjection, Incomplete
  <2> QED  BY ONLY <1>1, <2>1, FS_Surjection
<1>3. Before(D2) \subseteq Before(D1) /\ Before(D1) \subseteq Incomplete(e, D1)
  BY DEF Incomplete
<1>4. IsFiniteSet(Before(D1))
  BY <1>2, <1>3, FS_Subset
<1>5. /\ Cardinality(Before(D2)) <= Cardinality(Before(D1))
      /\ IsFiniteSet(Before(D2))
  BY <1>3, <1>4, FS_Subset
<1>6. Cardinality(Before(D1)) \in Nat /\ Cardinality(Before(D2)) \in Nat
  BY <1>4, <1>5, FS_CardinalityType
<1>7. c \in Cycles(e) /\ Cardinality(Before(D1)) < CycleThrottle
  BY DEF Active
<1>8. Cardinality(Before(D2)) < CycleThrottle
  BY <1>5, <1>6, <1>7, ThrottleAssumption
<1> QED  BY <1>7, <1>8 DEF Active

\* B holds all that can begin as long as h is not done.
Closed(e, h, B) == Submittable(e, B \ {h}, B) = {}

Beside(e, h, B) == exp = e /\ h \notin done => begun \subseteq B

\* A call begins nothing outside B while h is late.
LEMMA CallStaysBeside ==
    ASSUME NEW e \in Experiments, IsFiniteSet(Jobs(e)), Monotone(e),
           NEW h, NEW B \in SUBSET Jobs(e), Closed(e, h, B),
           TypeOK, Beside(e, h, B), [Call]_vars
    PROVE  Beside(e, h, B)'
<1>1. CASE UNCHANGED vars
  BY <1>1 DEF vars, Beside
<1>2. CASE Call
  <2> SUFFICES ASSUME exp' = e, h \notin done', NEW j \in begun' PROVE j \in B
    BY DEF Beside
  <2>1. exp = e /\ h \notin done /\ begun \subseteq B
    BY <1>2 DEF Call, Beside
  <2>2. CASE j \in begun
    BY <2>1, <2>2
  <2>3. CASE j \notin begun
    <3> SUFFICES ASSUME j \notin B PROVE FALSE
      OBVIOUS
    <3>1. /\ j \in Jobs(e) /\ CycleOf(j) \in Active(e, done')
          /\ Ready(e, j, done', begun)
      BY <1>2, <2>1, <2>3 DEF Call, Submittable
    <3>2. done' \subseteq B \ {h}
      BY <1>2, <2>1 DEF Call
    <3>3. CycleOf(j) \in Active(e, B \ {h})
      BY <3>1, <3>2, ActiveGrows
    <3>4. /\ done' \in SUBSET Jobs(e) /\ begun \in SUBSET Jobs(e)
          /\ B \ {h} \in SUBSET Jobs(e)
      BY <2>1, <3>2
    <3>5. Ready(e, j, B \ {h}, B)
      BY <2>1, <3>1, <3>2, <3>4 DEF Monotone
    <3>6. j \in Submittable(e, B \ {h}, B)
      BY <3>1, <3>3, <3>5 DEF Submittable
    <3> QED  BY <3>6 DEF Closed
  <2> QED  BY <2>2, <2>3
<1> QED  BY <1>1, <1>2

\* In any behaviour of rocoto, what has begun when h is not done is in every
\* set B that is closed for h.
THEOREM NothingElseBegins ==
    ASSUME NEW e \in Experiments, IsFiniteSet(Jobs(e)), Monotone(e),
           NEW h, NEW B \in SUBSET Jobs(e), Closed(e, h, B)
    PROVE  Spec => []Beside(e, h, B)
<1>1. Init => TypeOK /\ Beside(e, h, B)
  BY InitType DEF Init, Beside
<1>2. TypeOK /\ Beside(e, h, B) /\ [Call]_vars => (TypeOK /\ Beside(e, h, B))'
  BY CallType, CallStaysBeside
<1> QED  BY <1>1, <1>2, PTL DEF Spec

-----------------------------------------------------------------------------
(* The rounds                                                                 *)

NoJobAssumption == \A e \in Experiments : NoJob \notin Jobs(e)

\* What happens in a round is a call.
LEMMA RoundIsCall ==
    ASSUME TypeOK, NEW h, RoundWithout(h), h \notin done
    PROVE  Call
<1>1. done \subseteq done' /\ done' \subseteq begun
  BY DEF RoundWithout, TypeOK
<1> QED  BY <1>1 DEF RoundWithout, Call

\* Every step of the rounds is a call or changes nothing of rocoto.
LEMMA NextIsCall ==
    ASSUME NoJobAssumption, RoundsTypeOK, [RoundsNext]_roundVars
    PROVE  [Call]_vars
<1>1. TypeOK /\ NoJob \notin done
  BY DEF NoJobAssumption, RoundsTypeOK, TypeOK
<1>2. CASE Round
  BY <1>1, <1>2, RoundIsCall DEF Round
<1>3. CASE \E j \in begun \ done : Delay(j)
  BY <1>1, <1>3, RoundIsCall DEF Delay
<1>4. CASE RoundBesideLate
  BY <1>1, <1>4, RoundIsCall DEF RoundBesideLate, RoundsTypeOK
<1>5. CASE LateEnds
  BY <1>1, <1>5, RoundIsCall DEF LateEnds
<1>6. CASE UNCHANGED roundVars
  BY <1>6 DEF roundVars, vars
<1> QED  BY <1>2, <1>3, <1>4, <1>5, <1>6 DEF RoundsNext

\* A step of the rounds keeps the types.
LEMMA RoundsNextType ==
    ASSUME NoJobAssumption, RoundsTypeOK, [RoundsNext]_roundVars
    PROVE  RoundsTypeOK'
<1>1. TypeOK'
  BY NextIsCall, CallType DEF RoundsTypeOK
<1>2. CASE Round
  BY <1>1, <1>2 DEF Round, RoundsTypeOK
<1>3. ASSUME NEW j \in begun \ done, Delay(j) PROVE RoundsTypeOK'
  BY <1>1, <1>3 DEF Delay, RoundWithout, RoundsTypeOK, TypeOK
<1>4. CASE RoundBesideLate
  BY <1>1, <1>4 DEF RoundBesideLate, RoundWithout, RoundsTypeOK, TypeOK
<1>5. CASE LateEnds
  BY <1>1, <1>5 DEF LateEnds, RoundsTypeOK
<1>6. CASE UNCHANGED roundVars
  BY <1>6 DEF roundVars, vars, RoundsTypeOK, TypeOK
<1> QED  BY <1>2, <1>3, <1>4, <1>5, <1>6 DEF RoundsNext

\* The rounds start with nothing submitted and no job late.
LEMMA RoundsInitType == RoundsInit => RoundsTypeOK
BY InitType DEF RoundsInit, RoundsTypeOK

\* In the rounds too jobs are submitted once and done after; a late job is one
\* that runs.
THEOREM RoundsTypeCorrect ==
    ASSUME NoJobAssumption
    PROVE  RoundsSpec => []RoundsTypeOK
<1>1. RoundsTypeOK /\ [RoundsNext]_roundVars => RoundsTypeOK'
  BY RoundsNextType
<1> QED  BY <1>1, RoundsInitType, PTL DEF RoundsSpec

\* Every behaviour of the rounds is one of rocoto.
THEOREM RoundsAreRocoto ==
    ASSUME NoJobAssumption
    PROVE  RoundsSpec => Implements
<1>1. RoundsInit => IsRocoto!Init
  BY DEF RoundsInit, Init, IsRocoto!Init
<1>2. RoundsTypeOK /\ [RoundsNext]_roundVars => [IsRocoto!Call]_(IsRocoto!vars)
  <2>1. ASSUME NEW S PROVE IsRocoto!Cardinality(S) = Cardinality(S)
    BY DEF Cardinality, IsRocoto!Cardinality
  <2>2. ASSUME NEW e, NEW D PROVE IsRocoto!Active(e, D) = Active(e, D)
    BY <2>1 DEF Active, IsRocoto!Active, Cycles, IsRocoto!Cycles, Incomplete,
       IsRocoto!Incomplete, CycleOf, IsRocoto!CycleOf
  <2>3. ASSUME NEW e, NEW D, NEW B
        PROVE  IsRocoto!Submittable(e, D, B) = Submittable(e, D, B)
    BY <2>2 DEF Submittable, IsRocoto!Submittable, CycleOf, IsRocoto!CycleOf
  <2>4. Call => IsRocoto!Call
    BY <2>3 DEF Call, IsRocoto!Call
  <2> QED  BY <2>4, NextIsCall DEF vars, IsRocoto!vars
<1> QED
  BY <1>1, <1>2, RoundsTypeCorrect, PTL DEF RoundsSpec, Implements, IsRocoto!Spec

\* When only the late job runs and nothing may be submitted, all that has begun
\* in this round is all that can begin before the late job ends.
THEOREM WaitingIsClosed ==
    ASSUME RoundsTypeOK, Waiting
    PROVE  begun \in SUBSET Jobs(exp) /\ Closed(exp, late, begun)
BY DEF RoundsTypeOK, TypeOK, Waiting, Closed

-----------------------------------------------------------------------------
(* The dependencies of the four systems are monotone                          *)
\* The same experiment, with at least as many jobs begun and done.
More(x, y) == /\ x.exp = y.exp
              /\ x.done \subseteq y.done /\ x.begun \subseteq y.begun

\* The words of the dependencies, when more jobs have begun or ended.
LEMMA TermsMonotone ==
    ASSUME NEW x, NEW y, More(x, y)
    PROVE  /\ x.exp = y.exp
           /\ \A r, n, c : Task(x, r, n, c) => Task(y, r, n, c)
           /\ \A r, n, c : Meta(x, r, n, c) => Meta(y, r, n, c)
           /\ \A r, n, c : Hours(x, r, n, c) => Hours(y, r, n, c)
           /\ \A r, n, c : Data(x, r, n, c) => Data(y, r, n, c)
           /\ \A r, c : ForecastData(x, r, c) => ForecastData(y, r, c)
           /\ \A r, o : Do(x, r, o) <=> Do(y, r, o)
           /\ \A c : CycleExists(x, c) <=> CycleExists(y, c)
           /\ \A r, n, c : TaskValid(x, r, n, c) <=> TaskValid(y, r, n, c)
BY DEF More, Task, Meta, Hours, Data, ForecastData, Do, CycleExists, TaskValid

\* A dependency of the GFS that holds goes on to hold: by kind of task.
LEMMA AtmosphereMonotone ==
    ASSUME NEW x, NEW y, More(x, y), NEW r, NEW n, NEW c, AtmosphereReady(x, r, n, c)
    PROVE  AtmosphereReady(y, r, n, c)
BY TermsMonotone
   DEF AtmosphereReady, prep, prep_sfc, fetch, stage_ic, fetchatmanlbias, prepatmanlbias,
   waveinit,
       waveprep, aerosol_init, anal, sfcanl_gcycle, sfcanl_regrid, analcalc, analdiag, wdqms,
       atmanlinit, atmanlvar, atmanlfv3inc, atmanlfinal, analcalc_fv3jedi,
       GdasBackground, EnsembleBackground

\* The analyses of the aerosols, the land and the ocean.
LEMMA ComponentMonotone ==
    ASSUME NEW x, NEW y, More(x, y), NEW r, NEW n, NEW c, ComponentReady(x, r, n, c)
    PROVE  ComponentReady(y, r, n, c)
BY TermsMonotone
   DEF ComponentReady, aeroanlgenb, aeroanlinit, aeroanlvar, aeroanlfinal, snowanl,
   esnowanl,
       soilanlvar, soilanlens, prepoceanobs, marinebmatinit, marinebmat, marineanlinit,
       marineanlvar, marineanlletkf, marineanlecen, marineanlchkpt, marineanlfinal

\* The tasks of the ensemble.
LEMMA EnsembleMonotone ==
    ASSUME NEW x, NEW y, More(x, y), NEW r, NEW n, NEW c, EnsembleReady(x, r, n, c)
    PROVE  EnsembleReady(y, r, n, c)
BY TermsMonotone
   DEF EnsembleReady, eobs, ediag, eupd, atmensanlinit, atmensanlobs, atmensanlsol,
       atmensanlletkf, atmensanlfv3inc, atmensanlfinal, ecen, ecen_fv3jedi, esfc_gcycle,
       esfc_regrid, efcs, echgres, epos, earc_vrfy, earc_tars, globus_earc, BiasForEnkfOnly

\* The verification of the forecasts.
LEMMA MetpMonotone ==
    ASSUME NEW x, NEW y, More(x, y), NEW r, NEW c, metp(x, r, c)
    PROVE  metp(y, r, c)
BY TermsMonotone DEF metp

\* What the archives and the cleanup wait for.
LEMMA ArchivesMonotone ==
    ASSUME NEW x, NEW y, More(x, y), NEW r, NEW c
    PROVE  /\ Verified(x, r, c) => Verified(y, r, c)
           /\ DownstreamOfForecast(x, r, c) => DownstreamOfForecast(y, r, c)
           /\ DownstreamProducts(x, r, c) => DownstreamProducts(y, r, c)
           /\ WavePoints(x, r, c) => WavePoints(y, r, c)
           /\ WaveGrids(x, r, c) => WaveGrids(y, r, c)
           /\ NextForecast(x, c) => NextForecast(y, c)
BY TermsMonotone
   DEF Verified, DownstreamOfForecast, DownstreamProducts, WavePoints, WaveGrids,
   NextForecast

\* The cleanup.
LEMMA CleanupMonotone ==
    ASSUME NEW x, NEW y, More(x, y), NEW r, NEW c, cleanup(x, r, c)
    PROVE  cleanup(y, r, c)
BY TermsMonotone, ArchivesMonotone DEF cleanup, CleanupDet, CleanupEnkf

\* The forecasts, their products and the archives.
LEMMA ProductMonotone ==
    ASSUME NEW x, NEW y, More(x, y), NEW r, NEW n, NEW c, ProductReady(x, r, n, c)
    PROVE  ProductReady(y, r, n, c)
BY TermsMonotone, ArchivesMonotone, MetpMonotone, CleanupMonotone
   DEF ProductReady, WaveJob, _fcst_forecast_only, _fcst_cycled, fcst, atmanlupp,
   atmanlprod,
       _upptask, _atmosoceaniceprod, wavepostgridded, _wavepostbndpnt, wavepostpnt, wavegempak,
       waveawipsbulls, waveawipsgridded, postsnd, fbwind, awips_20km_1p0deg, gempak,
       gempakmetancdc, gempakpgrb2spec, npoess_pgrb2_0p25deg, verfozn, verfrad, vminmon, anlstat,
       tracker, genesis, genesis_fsu, fit2obs, arch_vrfy, _arch_tars_deps, arch_tars, globus_arch

\* The words of the dependencies of the GEFS.
LEMMA GefsTermsMonotone ==
    ASSUME NEW x, NEW y, More(x, y)
    PROVE  /\ x.exp = y.exp
           /\ \A r, n, c : Gefs!Task(x, r, n, c) => Gefs!Task(y, r, n, c)
           /\ \A r, n, c : Gefs!Meta(x, r, n, c) => Gefs!Meta(y, r, n, c)
           /\ \A r, n, c : Gefs!Hours(x, r, n, c) => Gefs!Hours(y, r, n, c)
           /\ \A r, n, c : Gefs!Data(x, r, n, c) => Gefs!Data(y, r, n, c)
           /\ \A r, o : Gefs!Do(x, r, o) <=> Gefs!Do(y, r, o)
           /\ \A m : Gefs!LastForecast(x, m) = Gefs!LastForecast(y, m)
BY DEF More, Gefs!Task, Gefs!Meta, Gefs!Hours, Gefs!Data, Gefs!Do, Gefs!LastForecast

\* The same for the GEFS.
LEMMA GefsMonotone ==
    ASSUME NEW x, NEW y, More(x, y), NEW r, NEW n, NEW c, Gefs!TaskReady(x, r, n, c)
    PROVE  Gefs!TaskReady(y, r, n, c)
BY GefsTermsMonotone
   DEF Gefs!TaskReady, Gefs!MemberReady, Gefs!Serial, Gefs!stage_ic, Gefs!gen_control_ic,
   Gefs!waveinit,
       Gefs!prep_emissions, Gefs!WaveAndAerosols, Gefs!fcst, Gefs!efcs, Gefs!_atmosoceaniceprod,
       Gefs!postsnd, Gefs!gempak, Gefs!atmos_ensstat, Gefs!awips, Gefs!wavepostgridded,
       Gefs!wave_stat, Gefs!wave_stat_pnt, Gefs!extractvars, Gefs!arch_vrfy, Gefs!arch_tars,
       Gefs!globus, Gefs!cleanup

\* The words of the dependencies of the SFS.
LEMMA SfsTermsMonotone ==
    ASSUME NEW x, NEW y, More(x, y)
    PROVE  /\ x.exp = y.exp
           /\ \A r, n, c : Sfs!Task(x, r, n, c) => Sfs!Task(y, r, n, c)
           /\ \A r, n, c : Sfs!Meta(x, r, n, c) => Sfs!Meta(y, r, n, c)
           /\ \A r, n, c : Sfs!Data(x, r, n, c) => Sfs!Data(y, r, n, c)
           /\ \A r, o : Sfs!Do(x, r, o) <=> Sfs!Do(y, r, o)
           /\ \A m : Sfs!LastForecast(x, m) = Sfs!LastForecast(y, m)
BY DEF More, Sfs!Task, Sfs!Meta, Sfs!Data, Sfs!Do, Sfs!LastForecast

\* The same for the SFS.
LEMMA SfsMonotone ==
    ASSUME NEW x, NEW y, More(x, y), NEW r, NEW n, NEW c, Sfs!TaskReady(x, r, n, c)
    PROVE  Sfs!TaskReady(y, r, n, c)
BY SfsTermsMonotone
   DEF Sfs!TaskReady, Sfs!MemberReady, Sfs!Serial, Sfs!stage_ic, Sfs!waveinit,
   Sfs!prep_emissions,
       Sfs!fcst, Sfs!efcs, Sfs!atmos_post, Sfs!ocn_post, Sfs!ice_post,
       Sfs!_atmosoceaniceprod,
       Sfs!wavepostgridded, Sfs!wavepostbndpnt, Sfs!wavepostbndpntbll, Sfs!wavepostpnt,
       Sfs!extractvars, Sfs!Products, Sfs!arch_tars, Sfs!globus, Sfs!cleanup

\* The words of the dependencies of the GCAFS.
LEMMA GcafsTermsMonotone ==
    ASSUME NEW x, NEW y, More(x, y)
    PROVE  /\ x.exp = y.exp
           /\ \A r, n, c : Gcafs!Task(x, r, n, c) => Gcafs!Task(y, r, n, c)
           /\ \A r, n, c : Gcafs!Meta(x, r, n, c) => Gcafs!Meta(y, r, n, c)
           /\ \A r, n, c : Gcafs!Data(x, r, n, c) => Gcafs!Data(y, r, n, c)
           /\ \A r, c : Gcafs!ForecastData(x, r, c) => Gcafs!ForecastData(y, r, c)
           /\ \A r, o : Gcafs!Do(x, r, o) <=> Gcafs!Do(y, r, o)
           /\ \A c : Gcafs!CycleExists(x, c) <=> Gcafs!CycleExists(y, c)
           /\ \A r, n, c : Gcafs!TaskValid(x, r, n, c) <=> Gcafs!TaskValid(y, r, n, c)
BY DEF More, Gcafs!Task, Gcafs!Meta, Gcafs!Data, Gcafs!ForecastData, Gcafs!Do,
   Gcafs!CycleExists, Gcafs!TaskValid

\* The same for the GCAFS.
LEMMA GcafsMonotone ==
    ASSUME NEW x, NEW y, More(x, y), NEW r, NEW n, NEW c, Gcafs!TaskReady(x, r, n, c)
    PROVE  Gcafs!TaskReady(y, r, n, c)
BY GcafsTermsMonotone
   DEF Gcafs!TaskReady, Gcafs!fetch, Gcafs!stage_ic, Gcafs!prep, Gcafs!prep_emissions,
       Gcafs!aerosol_init, Gcafs!offlineanl, Gcafs!sfcanl_gcycle, Gcafs!aeroanlgenb,
       Gcafs!aeroanlinit, Gcafs!aeroanlvar, Gcafs!aeroanlfinal, Gcafs!analcalc,
       Gcafs!anlstat,
       Gcafs!_fcst_forecast_only, Gcafs!_fcst_cycled, Gcafs!fcst, Gcafs!atmanlupp,
       Gcafs!atmanlprod, Gcafs!_upptask, Gcafs!_atmosoceaniceprod, Gcafs!metp,
       Gcafs!arch_vrfy,
       Gcafs!arch_tars, Gcafs!cleanup

\* No dependency of any of the systems ceases to hold as jobs begin and end.
LEMMA ReadyMonotone ==
    ASSUME NEW e, NEW j, NEW D1, NEW B1, NEW D2, NEW B2, D1 \subseteq D2, B1 \subseteq B2,
           WorkflowReady(e, j, D1, B1)
    PROVE  WorkflowReady(e, j, D2, B2)
<1> DEFINE x == [exp |-> Experiment[e], done |-> D1, begun |-> B1]
           y == [exp |-> Experiment[e], done |-> D2, begun |-> B2]
<1>1. More(x, y)
  BY DEF More
<1> HIDE DEF x, y
<1>2. GfsReady(x, j[1], j[2], j[3]) => GfsReady(y, j[1], j[2], j[3])
  BY <1>1, AtmosphereMonotone, ComponentMonotone, ProductMonotone, EnsembleMonotone
     DEF GfsReady
<1>3. Gefs!TaskReady(x, j[1], j[2], j[3]) => Gefs!TaskReady(y, j[1], j[2], j[3])
  BY <1>1, GefsMonotone
<1>4. Sfs!TaskReady(x, j[1], j[2], j[3]) => Sfs!TaskReady(y, j[1], j[2], j[3])
  BY <1>1, SfsMonotone
<1>5. Gcafs!TaskReady(x, j[1], j[2], j[3]) => Gcafs!TaskReady(y, j[1], j[2], j[3])
  BY <1>1, GcafsMonotone
<1> QED
  BY <1>2, <1>3, <1>4, <1>5 DEF WorkflowReady, x, y

-----------------------------------------------------------------------------
(* The document of the GFS                                                    *)
\* Jobs whose names are not those of their tasks.
Renamings == {"ecmn", "epmn", "gempakgrb2spec"}

\* Job n of run r at cycle c is in the document of GFS case s.
InGfs(s, r, n, c) ==
    /\ r \in Runs(s)
    /\ \E t \in TaskNames(s, RunOptions(s, r), r) :
          /\ n \in GfsJobNames(GfsExperiment(s), r, t)
          /\ \E g \in GfsCycledefs(GfsExperiment(s), r, t) : c \in CyclesIn(s, g)

\* The parts of the experiment of a GFS case.
LEMMA GfsFields ==
    ASSUME NEW s
    PROVE  LET e == GfsExperiment(s)
           IN  /\ e.app = s.app /\ e.mode = s.mode /\ e.every = s.every
               /\ e.gfs0 = s.gfs0 /\ e.last = s.last /\ e.runs = Runs(s)
               /\ e.options = [r \in Runs(s) |-> RunOptions(s, r)]
               /\ e.parts = [r \in Runs(s) |->
                               [fcst |-> IF IsEnkf(r) THEN s.members
                                         ELSE IF r = "gfs" THEN FcstSegments(s)
                                         ELSE {"fcst_seg0"}]]
               /\ e.lastSegment = [r \in Runs(s) |->
                                      IF r = "gfs" /\ s.nseg = 2 THEN "fcst_seg1"
                                      ELSE "fcst_seg0"]
               /\ e.metatasks = GfsMetatasks
               /\ e.cycles = UNION {CyclesIn(s, g) : g \in Groups}
BY DEF GfsExperiment

\* The jobs of the metatask fcst of run r.
ForecastsOf(s, r) == IF IsEnkf(r) THEN s.members
                     ELSE IF r = "gfs" THEN FcstSegments(s) ELSE {"fcst_seg0"}

\* The jobs of a metatask of the GFS.
LEMMA GfsMembers ==
    ASSUME NEW s, NEW r \in Runs(s), NEW n
    PROVE  Members(GfsExperiment(s), r, n) =
               IF n = "fcst" THEN ForecastsOf(s, r) ELSE {n}
<1> DEFINE e == GfsExperiment(s)
           f == ForecastsOf(s, r)
<1>1. e.parts = [q \in Runs(s) |->
                   [fcst |-> IF IsEnkf(q) THEN s.members
                             ELSE IF q = "gfs" THEN FcstSegments(s)
                             ELSE {"fcst_seg0"}]]
  BY GfsFields
<1> HIDE DEF e
<1>2. e.parts[r] = [fcst |-> f]
  BY <1>1 DEF ForecastsOf
<1> HIDE DEF f
<1>3. Members(e, r, n) = IF n = "fcst" THEN f ELSE {n}
  BY <1>2 DEF Members
<1> QED  BY <1>3 DEF e, f

\* The jobs of the document of the GFS, by run, task and cycle.
LEMMA GfsDocument ==
    ASSUME NEW s, NEW j
    PROVE  j \in GfsExperiment(s).jobs <=>
               /\ j = <<j[1], j[2], j[3]>>
               /\ InGfs(s, j[1], j[2], j[3])
<1> DEFINE e0 == [app |-> s.app, mode |-> s.mode, hour0 |-> s.hour0, last |-> s.last,
              gfs0 |-> s.gfs0, every |-> s.every, runs |-> Runs(s),
              options |-> [r \in Runs(s) |-> RunOptions(s, r)],
              parts |-> [r \in Runs(s) |->
                           [fcst |-> IF IsEnkf(r) THEN s.members
                                     ELSE IF r = "gfs" THEN FcstSegments(s)
                                     ELSE {"fcst_seg0"}]],
              lastSegment |-> [r \in Runs(s) |->
                                  IF r = "gfs" /\ s.nseg = 2 THEN "fcst_seg1"
                                  ELSE "fcst_seg0"],
              metatasks |-> GfsMetatasks,
              cycles |-> UNION {CyclesIn(s, g) : g \in Groups}, jobs |-> {}]
           e == GfsExperiment(s)
           J0(r, t) == GfsJobNames(e0, r, t) \X UNION {CyclesIn(s, g) : g \in GfsCycledefs(e0, r, t)}
<1>1. /\ e.parts = e0.parts /\ e.options = e0.options /\ e.runs = e0.runs
      /\ e.every = e0.every /\ e.mode = e0.mode
  BY GfsFields
<1>2. /\ \A r, t : GfsJobNames(e, r, t) = GfsJobNames(e0, r, t)
      /\ \A r, t : GfsCycledefs(e, r, t) = GfsCycledefs(e0, r, t)
  BY <1>1 DEF GfsJobNames, GfsCycledefs, Members
<1>3. e.jobs = UNION {{<<r, nc[1], nc[2]>> :
                          nc \in UNION {J0(r, t) : t \in TaskNames(s, e0.options[r], r)}}
                       : r \in Runs(s)}
  BY DEF GfsExperiment
<1>4. \A r \in Runs(s) : e0.options[r] = RunOptions(s, r)
  OBVIOUS
<1> HIDE DEF e0, e
<1>5. ASSUME j \in e.jobs
      PROVE  j = <<j[1], j[2], j[3]>> /\ InGfs(s, j[1], j[2], j[3])
  <2>1. PICK r \in Runs(s) :
          j \in {<<r, nc[1], nc[2]>> :
                   nc \in UNION {J0(r, t) : t \in TaskNames(s, e0.options[r], r)}}
    BY <1>3, <1>5
  <2>2. PICK t \in TaskNames(s, e0.options[r], r) : \E nc \in J0(r, t) : j = <<r, nc[1], nc[2]>>
    BY <2>1
  <2>3. PICK nc \in J0(r, t) : j = <<r, nc[1], nc[2]>>
    BY <2>2
  <2>4. /\ nc[1] \in GfsJobNames(e, r, t)
        /\ \E g \in GfsCycledefs(e, r, t) : nc[2] \in CyclesIn(s, g)
    BY <1>2
  <2>5. t \in TaskNames(s, RunOptions(s, r), r)
    BY <1>4
  <2> QED  BY <2>3, <2>4, <2>5 DEF InGfs, e
<1>6. ASSUME j = <<j[1], j[2], j[3]>>, InGfs(s, j[1], j[2], j[3])
      PROVE  j \in e.jobs
  <2>1. PICK t \in TaskNames(s, RunOptions(s, j[1]), j[1]) :
          /\ j[2] \in GfsJobNames(e, j[1], t)
          /\ \E g \in GfsCycledefs(e, j[1], t) : j[3] \in CyclesIn(s, g)
    BY <1>6 DEF InGfs, e
  <2>2. j[1] \in Runs(s) /\ t \in TaskNames(s, e0.options[j[1]], j[1])
    BY <1>4, <1>6 DEF InGfs
  <2>3. <<j[2], j[3]>> \in J0(j[1], t)
    BY <1>2, <2>1
  <2>4. <<j[1], <<j[2], j[3]>>[1], <<j[2], j[3]>>[2]>> = j
    BY <1>6
  <2> QED  BY <1>3, <2>2, <2>3, <2>4
<1> QED  BY <1>5, <1>6 DEF e

\* Task t of run r is in the document at cycle c.
Planned(s, r, t, c) ==
    /\ t \in TaskNames(s, RunOptions(s, r), r)
    /\ \E g \in GfsCycledefs(GfsExperiment(s), r, t) : c \in CyclesIn(s, g)

\* The task of the list that a job of the document comes from.
LEMMA GfsTaskOfJob ==
    ASSUME NEW s, s.members \subseteq MemberJobs,
           NEW r, NEW n, NEW c, <<r, n, c>> \in GfsExperiment(s).jobs
    PROVE  /\ r \in Runs(s)
           /\ n \in MemberJobs => IsEnkf(r)
           /\ n \in ForecastJobs => ~IsEnkf(r)
           /\ n \in MemberJobs \cup ForecastJobs => n \in ForecastsOf(s, r)
           /\ n \notin MemberJobs \cup ForecastJobs \cup Renamings => Planned(s, r, n, c)
           /\ n = "epmn" => Planned(s, r, "epos", c)
           /\ n = "ecmn" => Planned(s, r, "ecen", c)
<1> DEFINE e == GfsExperiment(s)
<1>1. InGfs(s, r, n, c)
  BY GfsDocument
<1>2. PICK t \in TaskNames(s, RunOptions(s, r), r) :
          /\ n \in GfsJobNames(e, r, t)
          /\ \E g \in GfsCycledefs(e, r, t) : c \in CyclesIn(s, g)
  BY <1>1 DEF InGfs
<1>3. r \in Runs(s)
  BY <1>1 DEF InGfs
<1>4. Members(e, r, "fcst") = ForecastsOf(s, r)
  BY <1>3, GfsMembers
<1>5. CASE t \in {"fcst", "efcs"}
  <2>1. n \in Members(e, r, "fcst")
    BY <1>2, <1>5 DEF GfsJobNames
  <2>2. /\ IsEnkf(r) => n \in MemberJobs /\ n \in s.members
        /\ ~IsEnkf(r) => n \in ForecastJobs
    BY <1>4, <2>1 DEF ForecastsOf, FcstSegments, ForecastJobs
  <2> QED  BY <1>3, <1>4, <2>1, <2>2, MembersAssumption
     DEF JobsOfNoMember, ForecastJobs, Renamings
<1>6. CASE t \notin {"fcst", "efcs"}
  <2>1. n = (CASE t = "ecen" -> "ecmn"
               [] t = "epos" -> "epmn"
               [] t = "gempakpgrb2spec" -> "gempakgrb2spec"
               [] OTHER -> t)
    BY <1>2, <1>6 DEF GfsJobNames
  <2>2. t \notin MemberJobs \cup ForecastJobs \cup Renamings
    <3>1. t \in TaskNames(s, RunOptions(s, r), r)
      OBVIOUS
    <3> QED
      BY <3>1, MembersAssumption DEF TaskNames, CycledTasks, ForecastOnlyTasks,
         EnkfTasks, DetTasks, GdasTasks,
         GfsOnlyTasks, EnsembleAnalysis, When, JobsOfNoMember, ForecastJobs, Renamings
  <2> QED
    BY <1>2, <1>3, <2>1, <2>2, MembersAssumption
       DEF JobsOfNoMember, ForecastJobs, Renamings, Planned
<1> QED  BY <1>5, <1>6

-----------------------------------------------------------------------------
\* A state of the GFS experiment of case s in which only jobs that have begun
\* are done, and what a job that has begun depends on holds.
Ordered(x, s) ==
    /\ x.exp = GfsExperiment(s)
    /\ x.done \subseteq x.begun /\ x.begun \subseteq x.exp.jobs
    /\ \A r, n, c : <<r, n, c>> \in x.begun => GfsReady(x, r, n, c)

\* The job is done, if there is one.
Ended(x, r, n, c) == <<r, n, c>> \in x.exp.jobs => <<r, n, c>> \in x.done

\* What a dependency on a task or a metatask says of its jobs.
LEMMA GfsEnded ==
    ASSUME NEW s, s.members \subseteq MemberJobs, NEW x, Ordered(x, s), NEW r, NEW c
    PROVE  /\ \A n : Task(x, r, n, c) => <<r, n, c>> \in x.done
           /\ \A n : Meta(x, r, n, c) /\ n # "fcst" /\ r \in Runs(s)
                  => <<r, n, c>> \in x.done
           /\ \A n : Meta(x, r, n, c) /\ n # "fcst" => Ended(x, r, n, c)
           /\ \A n \in MemberJobs \cup ForecastJobs :
                  Meta(x, r, "fcst", c) => Ended(x, r, n, c)
<1>1. ASSUME NEW n, r \in Runs(s)
      PROVE  /\ Meta(x, r, n, c) /\ n # "fcst" => <<r, n, c>> \in x.done
             /\ Meta(x, r, "fcst", c) /\ n \in ForecastsOf(s, r) => <<r, n, c>> \in x.done
  <2>1. \A m : Members(x.exp, r, m) = IF m = "fcst" THEN ForecastsOf(s, r) ELSE {m}
    BY <1>1, GfsMembers DEF Ordered
  <2> QED  BY <2>1 DEF Meta
<1>2. ASSUME NEW n, <<r, n, c>> \in x.exp.jobs
      PROVE  r \in Runs(s) /\ (n \in MemberJobs \cup ForecastJobs => n \in ForecastsOf(s, r))
  BY <1>2, GfsTaskOfJob DEF Ordered
<1>3. ASSUME NEW n, <<r, n, c>> \in x.exp.jobs
      PROVE  /\ Meta(x, r, n, c) /\ n # "fcst" => <<r, n, c>> \in x.done
             /\ n \in MemberJobs \cup ForecastJobs /\ Meta(x, r, "fcst", c)
                   => <<r, n, c>> \in x.done
  BY <1>1, <1>2, <1>3
<1> QED  BY <1>1, <1>3 DEF Task, Ended

\* What a job that has begun waited for is the dependency of its task.
LEMMA GfsWaits ==
    ASSUME NEW s, NEW x, Ordered(x, s), NEW r, NEW n, NEW c, <<r, n, c>> \in x.begun
    PROVE  \/ AtmosphereReady(x, r, n, c) \/ ComponentReady(x, r, n, c)
           \/ ProductReady(x, r, n, c) \/ EnsembleReady(x, r, n, c)
BY DEF Ordered, GfsReady

\* The dependency of each job that has begun is that of its own task.
LEMMA AtmosphereWaits ==
    ASSUME NEW s, NEW x, Ordered(x, s), NEW r, NEW c
    PROVE  /\ <<r, "prep", c>> \in x.begun => prep(x, r, c)
           /\ <<r, "stage_ic", c>> \in x.begun => stage_ic(x, r, c)
           /\ <<r, "anal", c>> \in x.begun => anal(x, r, c)
           /\ <<r, "sfcanl_gcycle", c>> \in x.begun => sfcanl_gcycle(x, r, c)
           /\ <<r, "sfcanl_regrid", c>> \in x.begun => sfcanl_regrid(x, r, c)
           /\ <<r, "analcalc", c>> \in x.begun => analcalc(x, r, c)
           /\ <<r, "analdiag", c>> \in x.begun => analdiag(x, r, c)
           /\ <<r, "atmanlinit", c>> \in x.begun => atmanlinit(x, r, c)
           /\ <<r, "atmanlvar", c>> \in x.begun => atmanlvar(x, r, c)
           /\ <<r, "atmanlfv3inc", c>> \in x.begun => atmanlfv3inc(x, r, c)
           /\ <<r, "atmanlfinal", c>> \in x.begun => atmanlfinal(x, r, c)
           /\ <<r, "analcalc_fv3jedi", c>> \in x.begun => analcalc_fv3jedi(x, r, c)
BY GfsWaits, MembersAssumption DEF AtmosphereReady, ComponentReady, ProductReady,
   EnsembleReady, ForecastJobs,
   JobsOfNoMember

\* The same for the analyses of the aerosols, the land and the ocean.
LEMMA ComponentWaits ==
    ASSUME NEW s, NEW x, Ordered(x, s), NEW r, NEW c
    PROVE  /\ <<r, "aeroanlgenb", c>> \in x.begun => aeroanlgenb(x, r, c)
           /\ <<r, "aeroanlinit", c>> \in x.begun => aeroanlinit(x, r, c)
           /\ <<r, "aeroanlvar", c>> \in x.begun => aeroanlvar(x, r, c)
           /\ <<r, "aeroanlfinal", c>> \in x.begun => aeroanlfinal(x, r, c)
           /\ <<r, "snowanl", c>> \in x.begun => snowanl(x, r, c)
           /\ <<r, "esnowanl", c>> \in x.begun => esnowanl(x, r, c)
           /\ <<r, "soilanlvar", c>> \in x.begun => soilanlvar(x, r, c)
           /\ <<r, "soilanlens", c>> \in x.begun => soilanlens(x, r, c)
           /\ <<r, "prepoceanobs", c>> \in x.begun => prepoceanobs(x, r, c)
           /\ <<r, "marinebmatinit", c>> \in x.begun => marinebmatinit(x, r, c)
           /\ <<r, "marinebmat", c>> \in x.begun => marinebmat(x, r, c)
           /\ <<r, "marineanlinit", c>> \in x.begun => marineanlinit(x, r, c)
           /\ <<r, "marineanlvar", c>> \in x.begun => marineanlvar(x, r, c)
           /\ <<r, "marineanlletkf", c>> \in x.begun => marineanlletkf(x, r, c)
           /\ <<r, "marineanlecen", c>> \in x.begun => marineanlecen(x, r, c)
           /\ <<r, "marineanlchkpt", c>> \in x.begun => marineanlchkpt(x, r, c)
           /\ <<r, "marineanlfinal", c>> \in x.begun => marineanlfinal(x, r, c)
<1>1. {"aeroanlgenb", "aeroanlinit", "aeroanlvar", "aeroanlfinal", "snowanl",
        "esnowanl", "soilanlvar", "soilanlens", "prepoceanobs",
        "marinebmatinit", "marinebmat", "marineanlinit", "marineanlvar",
        "marineanlletkf", "marineanlecen", "marineanlchkpt",
        "marineanlfinal"} \cap MemberJobs = {}
  BY MembersAssumption DEF JobsOfNoMember
<1>2. /\ <<r, "aeroanlgenb", c>> \in x.begun => aeroanlgenb(x, r, c)
      /\ <<r, "aeroanlinit", c>> \in x.begun => aeroanlinit(x, r, c)
      /\ <<r, "aeroanlvar", c>> \in x.begun => aeroanlvar(x, r, c)
      /\ <<r, "aeroanlfinal", c>> \in x.begun => aeroanlfinal(x, r, c)
      /\ <<r, "snowanl", c>> \in x.begun => snowanl(x, r, c)
      /\ <<r, "esnowanl", c>> \in x.begun => esnowanl(x, r, c)
  BY <1>1, GfsWaits DEF AtmosphereReady, ComponentReady, ProductReady, EnsembleReady,
     ForecastJobs
<1>3. /\ <<r, "soilanlvar", c>> \in x.begun => soilanlvar(x, r, c)
      /\ <<r, "soilanlens", c>> \in x.begun => soilanlens(x, r, c)
      /\ <<r, "prepoceanobs", c>> \in x.begun => prepoceanobs(x, r, c)
      /\ <<r, "marinebmatinit", c>> \in x.begun => marinebmatinit(x, r, c)
      /\ <<r, "marinebmat", c>> \in x.begun => marinebmat(x, r, c)
      /\ <<r, "marineanlinit", c>> \in x.begun => marineanlinit(x, r, c)
  BY <1>1, GfsWaits DEF AtmosphereReady, ComponentReady, ProductReady, EnsembleReady,
     ForecastJobs
<1>4. /\ <<r, "marineanlvar", c>> \in x.begun => marineanlvar(x, r, c)
      /\ <<r, "marineanlletkf", c>> \in x.begun => marineanlletkf(x, r, c)
      /\ <<r, "marineanlecen", c>> \in x.begun => marineanlecen(x, r, c)
      /\ <<r, "marineanlchkpt", c>> \in x.begun => marineanlchkpt(x, r, c)
      /\ <<r, "marineanlfinal", c>> \in x.begun => marineanlfinal(x, r, c)
  BY <1>1, GfsWaits DEF AtmosphereReady, ComponentReady, ProductReady, EnsembleReady,
     ForecastJobs
<1> QED  BY <1>2, <1>3, <1>4

\* The same for the tasks of the ensemble.
LEMMA EnsembleWaits ==
    ASSUME NEW s, NEW x, Ordered(x, s), NEW r, NEW c
    PROVE  /\ <<r, "eobs", c>> \in x.begun => eobs(x, r, c)
           /\ <<r, "ediag", c>> \in x.begun => ediag(x, r, c)
           /\ <<r, "eupd", c>> \in x.begun => eupd(x, r, c)
           /\ <<r, "atmensanlinit", c>> \in x.begun => atmensanlinit(x, r, c)
           /\ <<r, "atmensanlobs", c>> \in x.begun => atmensanlobs(x, r, c)
           /\ <<r, "atmensanlsol", c>> \in x.begun => atmensanlsol(x, r, c)
           /\ <<r, "atmensanlletkf", c>> \in x.begun => atmensanlletkf(x, r, c)
           /\ <<r, "atmensanlfv3inc", c>> \in x.begun => atmensanlfv3inc(x, r, c)
           /\ <<r, "atmensanlfinal", c>> \in x.begun => atmensanlfinal(x, r, c)
           /\ <<r, "ecen_fv3jedi", c>> \in x.begun => ecen_fv3jedi(x, r, c)
           /\ <<r, "esfc_gcycle", c>> \in x.begun => esfc_gcycle(x, r, c)
           /\ <<r, "esfc_regrid", c>> \in x.begun => esfc_regrid(x, r, c)
           /\ <<r, "echgres", c>> \in x.begun => echgres(x, r, c)
           /\ <<r, "earc_vrfy", c>> \in x.begun => earc_vrfy(x, r, c)
           /\ <<r, "earc_tars", c>> \in x.begun => earc_tars(x, r, c)
           /\ <<r, "globus_earc", c>> \in x.begun => globus_earc(x, r, c)
           /\ <<r, "ecmn", c>> \in x.begun => ecen(x, r, c)
           /\ <<r, "epmn", c>> \in x.begun => epos(x, r, c)
<1>1. {"eobs", "ediag", "eupd", "atmensanlinit", "atmensanlobs", "atmensanlsol",
        "atmensanlletkf", "atmensanlfv3inc", "atmensanlfinal",
        "ecen_fv3jedi", "esfc_gcycle", "esfc_regrid", "echgres",
        "earc_vrfy", "earc_tars", "globus_earc", "ecmn", "epmn"} \cap MemberJobs = {}
  BY MembersAssumption DEF JobsOfNoMember
<1>2. /\ <<r, "eobs", c>> \in x.begun => eobs(x, r, c)
      /\ <<r, "ediag", c>> \in x.begun => ediag(x, r, c)
      /\ <<r, "eupd", c>> \in x.begun => eupd(x, r, c)
      /\ <<r, "atmensanlinit", c>> \in x.begun => atmensanlinit(x, r, c)
      /\ <<r, "atmensanlobs", c>> \in x.begun => atmensanlobs(x, r, c)
      /\ <<r, "atmensanlsol", c>> \in x.begun => atmensanlsol(x, r, c)
  BY <1>1, GfsWaits DEF AtmosphereReady, ComponentReady, ProductReady, EnsembleReady,
     ForecastJobs
<1>3. /\ <<r, "atmensanlletkf", c>> \in x.begun => atmensanlletkf(x, r, c)
      /\ <<r, "atmensanlfv3inc", c>> \in x.begun => atmensanlfv3inc(x, r, c)
      /\ <<r, "atmensanlfinal", c>> \in x.begun => atmensanlfinal(x, r, c)
      /\ <<r, "ecen_fv3jedi", c>> \in x.begun => ecen_fv3jedi(x, r, c)
      /\ <<r, "esfc_gcycle", c>> \in x.begun => esfc_gcycle(x, r, c)
      /\ <<r, "esfc_regrid", c>> \in x.begun => esfc_regrid(x, r, c)
  BY <1>1, GfsWaits DEF AtmosphereReady, ComponentReady, ProductReady, EnsembleReady,
     ForecastJobs
<1>4. /\ <<r, "echgres", c>> \in x.begun => echgres(x, r, c)
      /\ <<r, "earc_vrfy", c>> \in x.begun => earc_vrfy(x, r, c)
      /\ <<r, "earc_tars", c>> \in x.begun => earc_tars(x, r, c)
      /\ <<r, "globus_earc", c>> \in x.begun => globus_earc(x, r, c)
      /\ <<r, "ecmn", c>> \in x.begun => ecen(x, r, c)
      /\ <<r, "epmn", c>> \in x.begun => epos(x, r, c)
  BY <1>1, GfsWaits DEF AtmosphereReady, ComponentReady, ProductReady, EnsembleReady,
     ForecastJobs
<1> QED  BY <1>2, <1>3, <1>4

\* The same for the forecasts of the members.
LEMMA MembersWait ==
    ASSUME NEW s, NEW x, Ordered(x, s), NEW r, NEW c, NEW n \in MemberJobs,
           <<r, n, c>> \in x.begun
    PROVE  efcs(x, r, c)
BY GfsWaits, MembersAssumption DEF AtmosphereReady, ComponentReady, ProductReady,
   EnsembleReady, ForecastJobs,
   JobsOfNoMember

\* The same for the forecasts, their products and the archives.
LEMMA ProductWaits ==
    ASSUME NEW s, NEW x, Ordered(x, s), NEW r, NEW c
    PROVE  /\ <<r, "atmanlupp", c>> \in x.begun => atmanlupp(x, r, c)
           /\ <<r, "atmanlprod", c>> \in x.begun => atmanlprod(x, r, c)
           /\ <<r, "verfozn", c>> \in x.begun => verfozn(x, r, c)
           /\ <<r, "verfrad", c>> \in x.begun => verfrad(x, r, c)
           /\ <<r, "vminmon", c>> \in x.begun => vminmon(x, r, c)
           /\ <<r, "anlstat", c>> \in x.begun => anlstat(x, r, c)
           /\ <<r, "arch_vrfy", c>> \in x.begun => arch_vrfy(x, r, c)
           /\ <<r, "arch_tars", c>> \in x.begun => arch_tars(x, r, c)
           /\ <<r, "globus_arch", c>> \in x.begun => globus_arch(x, r, c)
           /\ <<r, "cleanup", c>> \in x.begun => cleanup(x, r, c)
           /\ \A n \in ForecastJobs : <<r, n, c>> \in x.begun => fcst(x, r, n, c)
           /\ \A n \in {"atmos_prod", "ocean_prod", "ice_prod"} :
                  <<r, n, c>> \in x.begun => _atmosoceaniceprod(x, r, c)
BY GfsWaits, MembersAssumption DEF AtmosphereReady, ComponentReady, ProductReady,
   EnsembleReady, ForecastJobs,
   JobsOfNoMember

\* What the dependencies of a run see of its options.
LEMMA GfsOptions ==
    ASSUME NEW s, NEW x, Ordered(x, s), NEW r \in Runs(s)
    PROVE  /\ \A o : Do(x, r, o) <=> o \in RunOptions(s, r)
           /\ x.exp.mode = s.mode
<1>1. x.exp.mode = s.mode /\ x.exp.options = [q \in Runs(s) |-> RunOptions(s, q)]
  BY GfsFields DEF Ordered
<1>2. x.exp.options[r] = RunOptions(s, r)
  BY <1>1
<1> QED  BY <1>1, <1>2 DEF Do

\* The runs of the GFS.
LEMMA GfsRunNames ==
    ASSUME NEW s, NEW r \in Runs(s)
    PROVE  /\ r \in {"gfs", "gdas", "enkfgfs", "enkfgdas"}
           /\ IsEnkf(r) => s.mode # "forecast-only" /\ "hybvar" \in s.switches
BY DEF Runs, EnsRuns, When, IsEnkf, Set

\* When the document has an archive job.
LEMMA GfsArchivesPlanned ==
    ASSUME NEW s, GfsCase(s), NEW r, NEW n \in Archives, NEW c,
           <<r, n, c>> \in GfsExperiment(s).jobs
    PROVE  LET o == RunOptions(s, r)
           IN  /\ IF IsEnkf(r)
                  THEN /\ n \in {"earc_vrfy", "earc_tars", "globus_earc"}
                       /\ n = "earc_vrfy" => "enkfonly_atm" \notin o
                       /\ n \in {"earc_tars", "globus_earc"} => "archcom" \in o
                       /\ n = "globus_earc" => "globusarch" \in o
                  ELSE /\ n \in {"arch_vrfy", "arch_tars", "globus_arch"}
                       /\ n \in {"arch_tars", "globus_arch"} => "archcom" \in o
                       /\ n = "globus_arch" => "globusarch" \in o
               /\ r \in {"gdas", "enkfgdas"} => c # 0
<1>1. r \in Runs(s) /\ Planned(s, r, n, c)
  <2>1. n \notin MemberJobs
    BY MembersAssumption DEF JobsOfNoMember, Archives
  <2>2. n \notin ForecastJobs \cup Renamings
    BY DEF Archives, ForecastJobs, Renamings, Gefs!BareGlobus
  <2> QED  BY <2>1, <2>2, GfsTaskOfJob DEF GfsCase
<1>2. n \in TaskNames(s, RunOptions(s, r), r)
  BY <1>1 DEF Planned
<1>3. r \in {"gdas", "enkfgdas"} => c # 0
  <2>1. GfsCycledefs(GfsExperiment(s), r, n) = {Det(r)}
    BY DEF GfsCycledefs, Archives, Gefs!BareGlobus
  <2>2. SUFFICES ASSUME r \in {"gdas", "enkfgdas"} PROVE c # 0
    OBVIOUS
  <2>3. c \in CyclesIn(s, "gdas")
    BY <1>1, <2>1, <2>2 DEF Planned, Det
  <2>4. c \in 1 .. s.last
    BY <2>3 DEF CyclesIn
  <2> QED  BY <2>4 DEF GfsCase
<1>4. CASE IsEnkf(r)
  <2>1. s.mode = "cycled"
    BY <1>1, <1>4, GfsRunNames DEF GfsCase
  <2>2. n \in EnkfTasks(RunOptions(s, r), r)
    BY <1>2, <1>4, <2>1 DEF TaskNames, CycledTasks
  <2> QED
    BY <2>2, <1>3, <1>4 DEF EnkfTasks, EnsembleAnalysis, When, Archives, Gefs!BareGlobus
<1>5. CASE ~IsEnkf(r)
  BY <1>2, <1>3, <1>5 DEF TaskNames, CycledTasks, ForecastOnlyTasks, DetTasks, GdasTasks,
     GfsOnlyTasks, When, Archives, Gefs!BareGlobus
<1> QED  BY <1>4, <1>5

\* A cleanup of the GFS comes after the archives of its run and cycle.
LEMMA GfsCleanup ==
    ASSUME NEW s, GfsCase(s), NEW x, Ordered(x, s),
           NEW r, NEW c, <<r, "cleanup", c>> \in x.begun, NEW n \in Archives
    PROVE  Ended(x, r, n, c)
<1> SUFFICES ASSUME <<r, n, c>> \in x.exp.jobs PROVE <<r, n, c>> \in x.done
  BY DEF Ended
<1> DEFINE o == RunOptions(s, r)
<1>1. s.members \subseteq MemberJobs /\ x.exp = GfsExperiment(s)
  BY DEF GfsCase, Ordered
<1>2. r \in Runs(s)
  BY <1>1, GfsTaskOfJob
<1>3. cleanup(x, r, c)
  BY ProductWaits
<1>4. \A p : Do(x, r, p) <=> p \in o
  BY <1>2, GfsOptions
<1>5. \A m : <<r, m, c>> \in x.done => <<r, m, c>> \in x.begun
  BY DEF Ordered
<1>6. /\ \A m : Task(x, r, m, c) => <<r, m, c>> \in x.done
      /\ \A m : Meta(x, r, m, c) /\ m # "fcst" => <<r, m, c>> \in x.done
  BY <1>1, <1>2, GfsEnded
<1> HIDE DEF o
<1>7. CASE IsEnkf(r)
  <2>1. /\ n \in {"earc_vrfy", "earc_tars", "globus_earc"}
        /\ n = "earc_vrfy" => "enkfonly_atm" \notin o
        /\ n \in {"earc_tars", "globus_earc"} => "archcom" \in o
        /\ n = "globus_earc" => "globusarch" \in o
        /\ r = "enkfgdas" => c # 0
    BY <1>1, <1>7, GfsArchivesPlanned DEF o
  <2>2. CleanupEnkf(x, r, c)
    BY <1>3, <1>7 DEF cleanup, IsEnkf
  <2>3. /\ "enkfonly_atm" \notin o => Task(x, r, "earc_vrfy", c)
        /\ "archcom" \in o => Meta(x, r, IF "globusarch" \in o THEN "globus_earc"
                                         ELSE "earc_tars", c)
    BY <1>4, <2>1, <2>2 DEF CleanupEnkf
  <2>4. CASE "globusarch" \in o /\ n = "globus_earc"
    BY <1>2, <1>6, <2>1, <2>3, <2>4
  <2>5. CASE "globusarch" \in o /\ n = "earc_tars"
    <3>1. <<r, "globus_earc", c>> \in x.begun
      BY <1>2, <1>5, <1>6, <2>1, <2>3, <2>5
    <3>2. Meta(x, r, "earc_tars", c)
      BY <3>1, EnsembleWaits DEF globus_earc
    <3> QED  BY <1>2, <1>6, <2>5, <3>2
  <2>6. CASE "globusarch" \notin o /\ n = "earc_tars"
    BY <1>2, <1>6, <2>1, <2>3, <2>6
  <2>7. CASE n = "earc_vrfy"
    BY <1>6, <2>1, <2>3, <2>7
  <2> QED  BY <2>1, <2>4, <2>5, <2>6, <2>7
<1>8. CASE ~IsEnkf(r)
  <2>1. /\ n \in {"arch_vrfy", "arch_tars", "globus_arch"}
        /\ n \in {"arch_tars", "globus_arch"} => "archcom" \in o
        /\ n = "globus_arch" => "globusarch" \in o
        /\ r = "gdas" => c # 0
    BY <1>1, <1>8, GfsArchivesPlanned DEF o
  <2>2. CleanupDet(x, r, c)
    BY <1>3, <1>8 DEF cleanup, IsEnkf
  <2>3. /\ Task(x, r, "arch_vrfy", c)
        /\ "archcom" \in o => IF "globusarch" \in o THEN Task(x, r, "globus_arch", c)
                              ELSE Meta(x, r, "arch_tars", c)
    BY <1>4, <2>1, <2>2 DEF CleanupDet
  <2>4. CASE "globusarch" \in o /\ n = "arch_tars"
    <3>1. <<r, "globus_arch", c>> \in x.begun
      BY <1>5, <1>6, <2>1, <2>3, <2>4
    <3>2. Meta(x, r, "arch_tars", c)
      BY <3>1, ProductWaits DEF globus_arch
    <3> QED  BY <1>2, <1>6, <2>4, <3>2
  <2>5. CASE "globusarch" \notin o \/ n # "arch_tars"
    BY <1>2, <1>6, <2>1, <2>3, <2>5
  <2> QED  BY <2>4, <2>5
<1> QED  BY <1>7, <1>8

\* Switches that are options of every run when they are set, and only then.
Plain == {"hybvar", "enkfonly_atm", "jediatmvar", "jediatmens", "jediatmens_split_obssol",
          "jediocnvar", "hybvar_ocn", "letkf_ocn", "letkf_ocn_inc", "jedisnowda", "archcom"}

\* The runs see these switches as the case has them.
LEMMA PlainOptions ==
    ASSUME NEW s, NEW r, NEW p \in Plain
    PROVE  p \in RunOptions(s, r) <=> p \in s.switches
BY DEF RunOptions, BaseSwitches, When, SoilSwitches, Plain, ComponentsOf

\* The statistics of the ensemble come after every member.
LEMMA EpmnDone ==
    ASSUME NEW s, GfsCase(s), NEW x, Ordered(x, s), NEW c, Meta(x, "enkfgdas", "epmn", c),
           NEW m \in MemberJobs \cup {"epmn"}
    PROVE  Ended(x, "enkfgdas", m, c)
<1>1. s.members \subseteq MemberJobs
  BY DEF GfsCase
<1>2. CASE "enkfgdas" \in Runs(s)
  <2>1. <<"enkfgdas", "epmn", c>> \in x.done
    BY <1>1, <1>2, GfsEnded
  <2>2. Meta(x, "enkfgdas", "fcst", c)
    BY <2>1, EnsembleWaits DEF Ordered, epos
  <2> QED  BY <1>1, <2>1, <2>2, GfsEnded DEF Ended
<1>3. CASE "enkfgdas" \notin Runs(s)
  BY <1>1, <1>3, GfsTaskOfJob DEF Ended, Ordered
<1> QED  BY <1>2, <1>3

\* The observations are prepared when the background of the gdas is whole.
LEMMA PrepDone ==
    ASSUME NEW s, GfsCase(s), NEW x, Ordered(x, s), NEW r, NEW c, <<r, "prep",
           c>> \in x.done
    PROVE  Ended(x, "gdas", "atmos_prod", c - 1)
<1>1. s.members \subseteq MemberJobs /\ x.exp = GfsExperiment(s)
  BY DEF GfsCase, Ordered
<1>2. <<r, "prep", c>> \in x.begun
  BY DEF Ordered
<1>3. prep(x, r, c) /\ r \in Runs(s)
  BY <1>1, <1>2, AtmosphereWaits, GfsTaskOfJob DEF Ordered
<1>4. CASE "enkfonly_atm" \notin s.switches
  <2>1. Meta(x, "gdas", "atmos_prod", c - 1)
    BY <1>3, <1>4, GfsOptions, PlainOptions DEF prep, GdasBackground, Plain
  <2> QED  BY <1>1, <2>1, GfsEnded
<1>5. CASE "enkfonly_atm" \in s.switches
  <2> SUFFICES ASSUME <<"gdas", "atmos_prod", c - 1>> \in x.exp.jobs PROVE FALSE
    BY DEF Ended
  <2>1. "gdas" \in Runs(s) /\ Planned(s, "gdas", "atmos_prod", c - 1)
    BY <1>1, GfsTaskOfJob, MembersAssumption DEF JobsOfNoMember, ForecastJobs, Renamings
  <2>2. s.mode = "cycled"
    BY <2>1 DEF Runs, GfsCase
  <2>3. "enkfonly_atm" \in RunOptions(s, "gdas")
    BY <1>5, PlainOptions DEF Plain
  <2> QED  BY <2>1, <2>2, <2>3 DEF Planned, TaskNames, CycledTasks, IsEnkf
<1> QED  BY <1>4, <1>5

\* An analysis of the GFS comes after its background.
LEMMA GfsBackground ==
    ASSUME NEW s, GfsCase(s), NEW x, Ordered(x, s), NEW r, NEW c, NEW n,
           <<r, n, c>> \in x.begun
    PROVE  /\ n \in Analyses =>
                 /\ Ended(x, "gdas", "atmos_prod", c - 1)
                 /\ IsEnkf(r) \/ "hybvar" \in RunOptions(s, r) =>
                       \A m \in MemberJobs \cup {"epmn"} : Ended(x, "enkfgdas", m, c - 1)
           /\ n = "aeroanlvar" =>
                 /\ Ended(x, "gdas", "fcst_seg0", c - 1)
                 /\ Ended(x, "gdas", "aeroanlgenb", c - 1)
<1>1. s.members \subseteq MemberJobs /\ x.exp = GfsExperiment(s) /\ x.done \subseteq x.begun
  BY DEF GfsCase, Ordered
<1>2. r \in Runs(s)
  BY <1>1, GfsTaskOfJob DEF Ordered
<1>3. \A q, m, d : Task(x, q, m, d) => <<q, m, d>> \in x.done /\ <<q, m, d>> \in x.begun
  BY <1>1, GfsEnded
<1>4. Do(x, r, "hybvar") <=> "hybvar" \in RunOptions(s, r)
  BY <1>2, GfsOptions
<1>5. CASE n \in {"anal", "atmanlvar"}
  <2>1. Task(x, r, "prep", c) /\ EnsembleBackground(x, r, c)
    BY <1>3, <1>5, AtmosphereWaits DEF anal, atmanlvar, atmanlinit
  <2>2. "hybvar" \in RunOptions(s, r) => Meta(x, "enkfgdas", "epmn", c - 1)
    BY <1>4, <2>1 DEF EnsembleBackground
  <2>3. IsEnkf(r) => "hybvar" \in RunOptions(s, r)
    BY <1>2, GfsRunNames, PlainOptions DEF Plain
  <2> QED  BY <1>3, <1>5, <2>1, <2>2, <2>3, PrepDone, EpmnDone
<1>6. CASE n \in {"eobs", "eupd", "atmensanlobs", "atmensanlletkf"}
  <2>1. Task(x, Det(r), "prep", c) /\ Meta(x, "enkfgdas", "epmn", c - 1)
    BY <1>3, <1>6, EnsembleWaits
       DEF eobs, ediag, eupd, atmensanlobs, atmensanlletkf, atmensanlinit
  <2> QED  BY <1>3, <1>6, <2>1, PrepDone, EpmnDone
<1>7. CASE n = "aeroanlvar"
  <2>1. Task(x, "gdas", "aeroanlgenb", c - 1)
    BY <1>7, ComponentWaits DEF aeroanlvar
  <2>2. Meta(x, "gdas", "fcst", c - 1)
    BY <1>3, <2>1, ComponentWaits DEF aeroanlgenb
  <2> QED  BY <1>1, <1>3, <1>7, <2>1, <2>2, GfsEnded DEF Ended, ForecastJobs, Analyses
<1> QED  BY <1>5, <1>6, <1>7 DEF Analyses

\* With a hybrid analysis of the atmosphere and one of the ocean, that of the
\* ocean is hybrid too.
OceanHybrid(s) == {"jediocnvar", "hybvar"} \subseteq s.switches => "hybvar_ocn" \in s.switches

\* The background errors of the ocean come after the forecasts they are of.
LEMMA MembersDone ==
    ASSUME NEW s, GfsCase(s), NEW x, Ordered(x, s), NEW r, NEW c,
           <<r, "marinebmatinit", c>> \in x.begun
    PROVE  /\ Ended(x, "gdas", "fcst_seg0", c - 1)
           /\ "hybvar_ocn" \in s.switches =>
                 \A m \in MemberJobs : Ended(x, "enkfgdas", m, c - 1)
<1>1. s.members \subseteq MemberJobs /\ x.exp = GfsExperiment(s) /\ x.done \subseteq x.begun
  BY DEF GfsCase, Ordered
<1>2. r \in Runs(s)
  BY <1>1, GfsTaskOfJob DEF Ordered
<1>3. marinebmatinit(x, r, c)
  BY ComponentWaits
<1>4. "hybvar_ocn" \in s.switches => Do(x, r, "hybvar_ocn")
  BY <1>2, GfsOptions, PlainOptions DEF Plain
<1> QED  BY <1>1, <1>3, <1>4, GfsEnded DEF marinebmatinit, ForecastJobs

\* A marine analysis comes after its background.
LEMMA GfsMarineBackground ==
    ASSUME NEW s, GfsCase(s), OceanHybrid(s), NEW x, Ordered(x, s), NEW r, NEW c, NEW n,
           <<r, n, c>> \in x.begun
    PROVE  /\ n \in {"marineanlvar", "marineanlletkf"} =>
                 Ended(x, "gdas", "fcst_seg0", c - 1)
           /\ n = "marineanlletkf" =>
                 \A m \in MemberJobs : Ended(x, "enkfgdas", m, c - 1)
           /\ n = "marineanlecen" /\ "hybvar_ocn" \in RunOptions(s, r) =>
                 \A m \in MemberJobs : Ended(x, "enkfgdas", m, c - 1)
<1>1. s.members \subseteq MemberJobs /\ x.exp = GfsExperiment(s) /\ x.done \subseteq x.begun
  BY DEF GfsCase, Ordered
<1>2. \A q, m, d : Task(x, q, m, d) => <<q, m, d>> \in x.done /\ <<q, m, d>> \in x.begun
  BY <1>1, GfsEnded
<1>3. \A q, d : <<q, "marineanlletkf", d>> \in x.begun =>
          /\ <<Det(q), "marinebmatinit", d>> \in x.begun
          /\ "hybvar_ocn" \in s.switches
  <2> SUFFICES ASSUME NEW q, NEW d, <<q, "marineanlletkf", d>> \in x.begun
               PROVE  /\ <<Det(q), "marinebmatinit", d>> \in x.begun
                      /\ "hybvar_ocn" \in s.switches
    OBVIOUS
  <2>1. <<Det(q), "marinebmatinit", d>> \in x.begun
    BY <1>2, ComponentWaits DEF marineanlletkf, marinebmat
  <2>2. q \in Runs(s) /\ "marineanlletkf" \in TaskNames(s, RunOptions(s, q), q)
    BY <1>1, GfsTaskOfJob, MembersAssumption
       DEF Ordered, Planned, JobsOfNoMember, ForecastJobs, Renamings
  <2>3. "jediocnvar" \in RunOptions(s, q) /\ IsEnkf(q)
    BY <2>2 DEF TaskNames, CycledTasks, ForecastOnlyTasks, DetTasks, GdasTasks,
       GfsOnlyTasks,
       EnkfTasks, EnsembleAnalysis, When
  <2>4. "jediocnvar" \in s.switches /\ "hybvar" \in s.switches
    BY <2>2, <2>3, GfsRunNames, PlainOptions DEF Plain
  <2> QED  BY <2>1, <2>4 DEF OceanHybrid
<1>4. CASE n = "marineanlvar"
  <2>1. Meta(x, "gdas", "fcst", c - 1)
    BY <1>2, <1>4, ComponentWaits DEF marineanlvar, marineanlinit
  <2> QED  BY <1>1, <1>4, <2>1, GfsEnded DEF ForecastJobs
<1>5. CASE n = "marineanlletkf"
  BY <1>3, <1>5, MembersDone
<1>6. CASE n = "marineanlecen"
  <2>1. marineanlecen(x, r, c)
    BY <1>6, ComponentWaits
  <2>2. CASE Do(x, r, "letkf_ocn_inc")
    BY <1>2, <1>3, <1>6, <2>1, <2>2, MembersDone DEF marineanlecen
  <2>3. CASE ~Do(x, r, "letkf_ocn_inc")
    BY <1>2, <1>6, <2>1, <2>3, MembersDone, PlainOptions DEF marineanlecen, Plain
  <2> QED  BY <2>2, <2>3
<1> QED  BY <1>4, <1>5, <1>6

\* When the document has a job that makes increments.
LEMMA IncrementsPlanned ==
    ASSUME NEW s, GfsCase(s), NEW r, NEW n \in Increments, NEW c,
           <<r, n, c>> \in GfsExperiment(s).jobs
    PROVE  LET o == RunOptions(s, r)
           IN  /\ s.mode = "cycled" /\ r \in Runs(s)
               /\ r \in {"gdas", "enkfgdas"} => c # 0
               /\ IF IsEnkf(r)
                  THEN /\ n \in {"eupd", "ecmn", "atmensanlfinal", "ecen_fv3jedi", "esfc_gcycle",
                                 "esfc_regrid", "esnowanl", "marineanlecen", "soilanlens"}
                       /\ n \in {"eupd", "ecmn"} => "jediatmens" \notin o
                       /\ n \in {"atmensanlfinal", "ecen_fv3jedi"} => "jediatmens" \in o
                       /\ n = "ecen_fv3jedi" => "enkfonly_atm" \notin o
                       /\ n = "esfc_regrid" => "gsisoilda" \in o
                       /\ n = "esnowanl" => "jedisnowda" \in o
                       /\ n = "marineanlecen" => {"jediocnvar", "hybvar"} \subseteq o
                       /\ n = "soilanlens" => "jedisoildaens" \in o
                  ELSE /\ n \in {"anal", "atmanlfv3inc", "atmanlfinal", "sfcanl_gcycle",
                                 "sfcanl_regrid", "marineanlchkpt", "marineanlfinal",
                                 "aeroanlfinal", "snowanl", "soilanlvar"}
                       /\ n = "anal" => "jediatmvar" \notin o
                       /\ n \in {"atmanlfv3inc", "atmanlfinal"} => "jediatmvar" \in o
                       /\ n = "sfcanl_regrid" => "gsisoilda" \in o /\ r = "gdas"
                       /\ n \in {"marineanlchkpt", "marineanlfinal"} => "jediocnvar" \in o
                       /\ n = "aeroanlfinal" => "aero_anl" \in o
                       /\ n = "snowanl" => "jedisnowda" \in o
                       /\ n = "soilanlvar" => "jedisoildavar" \in o
<1> DEFINE t == IF n = "ecmn" THEN "ecen" ELSE n
<1>1. r \in Runs(s) /\ Planned(s, r, t, c)
  BY GfsTaskOfJob, MembersAssumption DEF GfsCase, Increments, JobsOfNoMember,
     ForecastJobs, Renamings
<1>2. t \in TaskNames(s, RunOptions(s, r), r)
  BY <1>1 DEF Planned
<1>3. s.mode = "cycled"
  BY <1>2 DEF GfsCase, TaskNames, ForecastOnlyTasks, GfsOnlyTasks, When, Increments
<1>4. r \in {"gdas", "enkfgdas"} => c # 0
  <2>1. GfsCycledefs(GfsExperiment(s), r, t) = {Det(r)}
    BY DEF GfsCycledefs, Increments
  <2>2. SUFFICES ASSUME r \in {"gdas", "enkfgdas"} PROVE c # 0
    OBVIOUS
  <2>3. c \in CyclesIn(s, "gdas")
    BY <1>1, <2>1, <2>2 DEF Planned, Det
  <2>4. c \in 1 .. s.last
    BY <2>3 DEF CyclesIn
  <2> QED  BY <2>4 DEF GfsCase
<1>5. CASE IsEnkf(r)
  <2>1. t \in EnkfTasks(RunOptions(s, r), r)
    BY <1>2, <1>3, <1>5 DEF TaskNames, CycledTasks
  <2> QED
    BY <1>1, <1>3, <1>4, <1>5, <2>1 DEF EnkfTasks, EnsembleAnalysis, When, Increments
<1>6. CASE ~IsEnkf(r)
  BY <1>1, <1>2, <1>3, <1>4, <1>6 DEF TaskNames, CycledTasks, DetTasks, GdasTasks,
     GfsOnlyTasks, When, Increments
<1> QED  BY <1>5, <1>6

\* The analysis of the atmosphere, when its surface has been analysed.
AtmosphereDone(x, s, r, c) ==
    IF "jediatmvar" \in s.switches
    THEN {<<r, "atmanlinit", c>>, <<r, "atmanlvar", c>>, <<r, "atmanlfv3inc", c>>,
          <<r, "atmanlfinal", c>>, <<r, "prep", c>>} \subseteq x.done
    ELSE {<<r, "anal", c>>, <<r, "prep", c>>} \subseteq x.done

\* The analysis of the surface comes after that of the atmosphere.
LEMMA SurfaceIsLast ==
    ASSUME NEW s, GfsCase(s), NEW x, Ordered(x, s), NEW r, NEW c,
           <<r, "sfcanl_gcycle", c>> \in x.begun
    PROVE  AtmosphereDone(x, s, r, c)
<1>1. s.members \subseteq MemberJobs /\ x.exp = GfsExperiment(s) /\ x.done \subseteq x.begun
  BY DEF GfsCase, Ordered
<1>2. r \in Runs(s)
  BY <1>1, GfsTaskOfJob DEF Ordered
<1>3. \A q, m, d : Task(x, q, m, d) => <<q, m, d>> \in x.done /\ <<q, m, d>> \in x.begun
  BY <1>1, GfsEnded
<1>4. Do(x, r, "jediatmvar") <=> "jediatmvar" \in s.switches
  BY <1>2, GfsOptions, PlainOptions DEF Plain
<1>5. sfcanl_gcycle(x, r, c)
  BY AtmosphereWaits
<1>6. CASE "jediatmvar" \in s.switches
  BY <1>3, <1>4, <1>5, <1>6, AtmosphereWaits
     DEF sfcanl_gcycle, atmanlfinal, atmanlfv3inc, atmanlvar, atmanlinit, AtmosphereDone
<1>7. CASE "jediatmvar" \notin s.switches
  BY <1>3, <1>4, <1>5, <1>7, AtmosphereWaits DEF sfcanl_gcycle, anal, AtmosphereDone
<1> QED  BY <1>6, <1>7

\* A forecast of the gdas or the gfs after the first cycle.
LEMMA DetForecast ==
    ASSUME NEW s, GfsCase(s), s.mode = "cycled", NEW x, Ordered(x, s), NEW r, NEW c,
           NEW n \in ForecastJobs, <<r, n, c>> \in x.begun, r = "gdas" => c # 0
    PROVE  LET o == RunOptions(s, r)
           IN  /\ <<r, "sfcanl_gcycle", c>> \in x.done
               /\ "gsisoilda" \in o /\ r = "gdas" => <<r, "sfcanl_regrid", c>> \in x.done
               /\ "jediocnvar" \in o => <<r, "marineanlfinal", c>> \in x.done
               /\ "aero_anl" \in o => <<r, "aeroanlfinal", c>> \in x.done
               /\ "jedisnowda" \in o => <<r, "snowanl", c>> \in x.done
               /\ "jedisoildavar" \in o => <<r, "soilanlvar", c>> \in x.done
<1>1. s.members \subseteq MemberJobs /\ x.exp = GfsExperiment(s) /\ x.done \subseteq x.begun
  BY DEF GfsCase, Ordered
<1>2. r \in Runs(s) /\ ~IsEnkf(r)
  BY <1>1, GfsTaskOfJob DEF Ordered
<1>3. r \in {"gdas", "gfs"}
  BY <1>2, GfsRunNames DEF IsEnkf
<1>4. _fcst_cycled(x, r, c)
  BY <1>2, GfsOptions, ProductWaits DEF fcst
<1>5. ~Task(x, r, "stage_ic", c)
  <2> SUFFICES ASSUME <<r, "stage_ic", c>> \in x.exp.jobs PROVE FALSE
    BY <1>1, GfsEnded DEF Ordered
  <2>1. Planned(s, r, "stage_ic", c)
    BY <1>1, GfsTaskOfJob, MembersAssumption DEF JobsOfNoMember, ForecastJobs, Renamings
  <2>2. "stage_ic" \in CycledTasks(RunOptions(s, r), r)
    BY <2>1 DEF Planned, TaskNames
  <2>3. r # "gfs"
    BY <2>2 DEF CycledTasks, DetTasks, GfsOnlyTasks, IsEnkf, When
  <2>4. \E g \in {"gdas_half"} : c \in CyclesIn(s, g)
    BY <1>3, <2>1, <2>3 DEF Planned, GfsCycledefs
  <2>5. c = 0
    BY <2>4 DEF CyclesIn
  <2> QED  BY <1>3, <2>3, <2>5
<1>6. \A p : Do(x, r, p) <=> p \in RunOptions(s, r)
  BY <1>2, GfsOptions
<1>7. \A m : Task(x, r, m, c) => <<r, m, c>> \in x.done
  BY <1>1, GfsEnded
<1> QED  BY <1>4, <1>5, <1>6, <1>7 DEF _fcst_cycled

\* A deterministic forecast comes after all its increments.
LEMMA DetIncrements ==
    ASSUME NEW s, GfsCase(s), NEW x, Ordered(x, s), NEW r, NEW c,
           NEW n \in ForecastJobs, <<r, n, c>> \in x.begun, NEW m \in Increments
    PROVE  Ended(x, r, m, c)
<1> SUFFICES ASSUME <<r, m, c>> \in x.exp.jobs PROVE <<r, m, c>> \in x.done
  BY DEF Ended
<1> DEFINE o == RunOptions(s, r)
<1>1. s.members \subseteq MemberJobs /\ x.exp = GfsExperiment(s) /\ x.done \subseteq x.begun
  BY DEF GfsCase, Ordered
<1>2. ~IsEnkf(r)
  BY <1>1, GfsTaskOfJob DEF Ordered
<1>3. /\ s.mode = "cycled" /\ (r = "gdas" => c # 0)
      /\ m \in {"anal", "atmanlfv3inc", "atmanlfinal", "sfcanl_gcycle", "sfcanl_regrid",
                "marineanlchkpt", "marineanlfinal", "aeroanlfinal", "snowanl", "soilanlvar"}
      /\ m = "anal" => "jediatmvar" \notin o
      /\ m \in {"atmanlfv3inc", "atmanlfinal"} => "jediatmvar" \in o
      /\ m = "sfcanl_regrid" => "gsisoilda" \in o /\ r = "gdas"
      /\ m \in {"marineanlchkpt", "marineanlfinal"} => "jediocnvar" \in o
      /\ m = "aeroanlfinal" => "aero_anl" \in o
      /\ m = "snowanl" => "jedisnowda" \in o
      /\ m = "soilanlvar" => "jedisoildavar" \in o
  BY <1>1, <1>2, IncrementsPlanned
<1>4. /\ <<r, "sfcanl_gcycle", c>> \in x.done
      /\ "gsisoilda" \in o /\ r = "gdas" => <<r, "sfcanl_regrid", c>> \in x.done
      /\ "jediocnvar" \in o => <<r, "marineanlfinal", c>> \in x.done
      /\ "aero_anl" \in o => <<r, "aeroanlfinal", c>> \in x.done
      /\ "jedisnowda" \in o => <<r, "snowanl", c>> \in x.done
      /\ "jedisoildavar" \in o => <<r, "soilanlvar", c>> \in x.done
  BY <1>3, DetForecast
<1>5. AtmosphereDone(x, s, r, c)
  BY <1>1, <1>4, SurfaceIsLast
<1>6. "jediatmvar" \in o <=> "jediatmvar" \in s.switches
  BY PlainOptions DEF Plain
<1>7. <<r, "marineanlfinal", c>> \in x.done => <<r, "marineanlchkpt", c>> \in x.done
  BY <1>1, ComponentWaits, GfsEnded DEF marineanlfinal
<1> HIDE DEF o
<1> QED  BY <1>3, <1>4, <1>5, <1>6, <1>7 DEF AtmosphereDone

\* A forecast of an ensemble after the first cycle.
LEMMA EnkfForecast ==
    ASSUME NEW s, GfsCase(s), NEW x, Ordered(x, s), NEW r, NEW c,
           NEW n \in MemberJobs, <<r, n, c>> \in x.begun, r = "enkfgdas" => c # 0
    PROVE  LET o == RunOptions(s, r)
           IN  /\ "jediatmens" \notin o => <<r, "ecmn", c>> \in x.done
               /\ "jediatmens" \in o /\ "enkfonly_atm" \notin o
                     => <<r, "ecen_fv3jedi", c>> \in x.done
               /\ <<r, "esfc_gcycle", c>> \in x.done
               /\ "gsisoilda" \in o => <<r, "esfc_regrid", c>> \in x.done
               /\ "hybvar_ocn" \in o => <<r, "marineanlecen", c>> \in x.done
               /\ "jedisoildaens" \in o => <<r, "soilanlens", c>> \in x.done
<1> DEFINE o == RunOptions(s, r)
<1>1. s.members \subseteq MemberJobs /\ x.exp = GfsExperiment(s) /\ x.done \subseteq x.begun
  BY DEF GfsCase, Ordered
<1>2. r \in Runs(s) /\ IsEnkf(r)
  BY <1>1, GfsTaskOfJob DEF Ordered
<1>3. "gsisoilda" \in o => r = "enkfgdas"
  BY <1>2 DEF RunOptions, BaseSwitches, SoilSwitches, When, ComponentsOf, IsEnkf
<1>4. efcs(x, r, c)
  BY MembersWait
<1>5. ~Task(x, r, "stage_ic", c)
  <2> SUFFICES ASSUME <<r, "stage_ic", c>> \in x.exp.jobs PROVE FALSE
    BY <1>1, GfsEnded DEF Ordered
  <2>1. Planned(s, r, "stage_ic", c)
    BY <1>1, GfsTaskOfJob, MembersAssumption DEF JobsOfNoMember, ForecastJobs, Renamings
  <2>2. r \in {"enkfgdas", "enkfgfs"}
    BY <1>2 DEF IsEnkf
  <2>3. \E g \in IF r = "enkfgdas" THEN {"gdas_half"} ELSE {"enkfgfs"} : c \in CyclesIn(s, g)
    BY <2>1, <2>2 DEF Planned, GfsCycledefs
  <2> QED  BY <2>3 DEF CyclesIn
<1>6. \A p : Do(x, r, p) <=> p \in o
  BY <1>2, GfsOptions
<1>7. /\ \A k : Task(x, r, k, c) => <<r, k, c>> \in x.done
      /\ \A k : Meta(x, r, k, c) /\ k # "fcst" => <<r, k, c>> \in x.done
  BY <1>1, <1>2, GfsEnded
<1> HIDE DEF o
<1>8. /\ IF "jediatmens" \in o
         THEN "enkfonly_atm" \notin o => <<r, "ecen_fv3jedi", c>> \in x.done
         ELSE <<r, "ecmn", c>> \in x.done
      /\ <<r, "esfc_gcycle", c>> \in x.done
      /\ "gsisoilda" \in o /\ r = "enkfgdas" => <<r, "esfc_regrid", c>> \in x.done
      /\ "hybvar_ocn" \in o => <<r, "marineanlecen", c>> \in x.done
      /\ "jedisoildaens" \in o => <<r, "soilanlens", c>> \in x.done
  BY <1>4, <1>5, <1>6, <1>7 DEF efcs
<1> QED  BY <1>3, <1>8 DEF o

\* The analysis of the ensemble, when its surface and its increments are done.
LEMMA EnsembleDone ==
    ASSUME NEW s, GfsCase(s), NEW x, Ordered(x, s), NEW r, IsEnkf(r), NEW c,
           <<r, "esfc_gcycle", c>> \in x.done,
           "jediatmens" \notin s.switches => <<r, "ecmn", c>> \in x.done
    PROVE  /\ "jedisnowda" \in s.switches => <<r, "esnowanl", c>> \in x.done
           /\ IF "jediatmens" \notin s.switches
              THEN {<<r, "eobs", c>>, <<r, "ediag", c>>, <<r, "eupd", c>>} \subseteq x.done
              ELSE /\ {<<r, "atmensanlinit", c>>, <<r, "atmensanlfv3inc", c>>,
                       <<r, "atmensanlfinal", c>>} \subseteq x.done
                   /\ IF "jediatmens_split_obssol" \in s.switches
                      THEN {<<r, "atmensanlobs", c>>, <<r, "atmensanlsol", c>>}
                               \subseteq x.done
                      ELSE <<r, "atmensanlletkf", c>> \in x.done
<1>1. s.members \subseteq MemberJobs /\ x.exp = GfsExperiment(s) /\ x.done \subseteq x.begun
  BY DEF GfsCase, Ordered
<1>2. r \in Runs(s)
  BY <1>1, GfsTaskOfJob DEF Ordered
<1>3. \A p \in Plain : Do(x, r, p) <=> p \in s.switches
  BY <1>2, GfsOptions, PlainOptions
<1>4. \A m : Task(x, r, m, c) => <<r, m, c>> \in x.done
  BY <1>1, GfsEnded
<1>5. esfc_gcycle(x, r, c)
  BY <1>1, EnsembleWaits
<1>6. "jedisnowda" \in s.switches => <<r, "esnowanl", c>> \in x.done
  BY <1>3, <1>4, <1>5 DEF esfc_gcycle, Plain
<1>7. CASE "jediatmens" \notin s.switches
  <2>1. <<r, "eupd", c>> \in x.done
    BY <1>1, <1>4, <1>7, EnsembleWaits DEF ecen
  <2>2. <<r, "ediag", c>> \in x.done
    BY <1>1, <1>4, <2>1, EnsembleWaits DEF eupd
  <2>3. <<r, "eobs", c>> \in x.done
    BY <1>1, <1>4, <2>2, EnsembleWaits DEF ediag
  <2> QED  BY <1>6, <1>7, <2>1, <2>2, <2>3
<1>8. CASE "jediatmens" \in s.switches
  <2>1. <<r, "atmensanlfinal", c>> \in x.done
    BY <1>3, <1>4, <1>5, <1>8 DEF esfc_gcycle, Plain
  <2>2. <<r, "atmensanlfv3inc", c>> \in x.done
    BY <1>1, <1>4, <2>1, EnsembleWaits DEF atmensanlfinal
  <2>3. IF "jediatmens_split_obssol" \in s.switches THEN <<r, "atmensanlsol", c>> \in x.done
        ELSE <<r, "atmensanlletkf", c>> \in x.done
    BY <1>1, <1>3, <1>4, <2>2, EnsembleWaits DEF atmensanlfv3inc, Plain
  <2>4. <<r, "atmensanlsol", c>> \in x.done => <<r, "atmensanlobs", c>> \in x.done
    BY <1>1, <1>4, EnsembleWaits DEF atmensanlsol
  <2>5. <<r, "atmensanlobs", c>> \in x.done \/ <<r, "atmensanlletkf", c>> \in x.done
            => <<r, "atmensanlinit", c>> \in x.done
    BY <1>1, <1>4, EnsembleWaits DEF atmensanlobs, atmensanlletkf
  <2> QED  BY <1>6, <1>8, <2>1, <2>2, <2>3, <2>4, <2>5
<1> QED  BY <1>7, <1>8

\* The forecast of a member comes after all its increments.
LEMMA EnkfIncrements ==
    ASSUME NEW s, GfsCase(s), OceanHybrid(s), NEW x, Ordered(x, s), NEW r, NEW c,
           NEW n \in MemberJobs, <<r, n, c>> \in x.begun, NEW m \in Increments
    PROVE  Ended(x, r, m, c)
<1> SUFFICES ASSUME <<r, m, c>> \in x.exp.jobs PROVE <<r, m, c>> \in x.done
  BY DEF Ended
<1> DEFINE o == RunOptions(s, r)
<1>1. s.members \subseteq MemberJobs /\ x.exp = GfsExperiment(s) /\ x.done \subseteq x.begun
  BY DEF GfsCase, Ordered
<1>2. r \in Runs(s) /\ IsEnkf(r)
  BY <1>1, GfsTaskOfJob DEF Ordered
<1>3. /\ s.mode = "cycled" /\ (r = "enkfgdas" => c # 0)
      /\ m \in {"eupd", "ecmn", "atmensanlfinal", "ecen_fv3jedi", "esfc_gcycle",
                "esfc_regrid", "esnowanl", "marineanlecen", "soilanlens"}
      /\ m \in {"eupd", "ecmn"} => "jediatmens" \notin o
      /\ m \in {"atmensanlfinal", "ecen_fv3jedi"} => "jediatmens" \in o
      /\ m = "ecen_fv3jedi" => "enkfonly_atm" \notin o
      /\ m = "esfc_regrid" => "gsisoilda" \in o
      /\ m = "esnowanl" => "jedisnowda" \in o
      /\ m = "marineanlecen" => {"jediocnvar", "hybvar"} \subseteq o
      /\ m = "soilanlens" => "jedisoildaens" \in o
  BY <1>1, <1>2, IncrementsPlanned
<1>4. /\ "jediatmens" \notin o => <<r, "ecmn", c>> \in x.done
      /\ "jediatmens" \in o /\ "enkfonly_atm" \notin o => <<r, "ecen_fv3jedi", c>> \in x.done
      /\ <<r, "esfc_gcycle", c>> \in x.done
      /\ "gsisoilda" \in o => <<r, "esfc_regrid", c>> \in x.done
      /\ "hybvar_ocn" \in o => <<r, "marineanlecen", c>> \in x.done
      /\ "jedisoildaens" \in o => <<r, "soilanlens", c>> \in x.done
  BY <1>3, EnkfForecast
<1>5. \A p \in Plain : p \in o <=> p \in s.switches
  BY PlainOptions
<1>6. m = "marineanlecen" => "hybvar_ocn" \in o
  BY <1>3, <1>5 DEF Plain, OceanHybrid
<1> HIDE DEF o
<1>7. /\ "jedisnowda" \in o => <<r, "esnowanl", c>> \in x.done
      /\ "jediatmens" \notin o => <<r, "eupd", c>> \in x.done
      /\ "jediatmens" \in o => <<r, "atmensanlfinal", c>> \in x.done
  BY <1>2, <1>4, <1>5, EnsembleDone DEF Plain
<1> QED  BY <1>3, <1>4, <1>6, <1>7


\* The archive of an ensemble comes after what it requires.
LEMMA EnkfFilesMade ==
    ASSUME NEW s, GfsCase(s), NEW x, Ordered(x, s), NEW r, NEW c,
           <<r, "earc_tars", c>> \in x.begun,
           NEW n \in EnkfFiles(RunOptions(s, r), r)
    PROVE  Ended(x, r, n, c)
<1> DEFINE o == RunOptions(s, r)
<1>1. s.members \subseteq MemberJobs /\ x.exp = GfsExperiment(s) /\ x.done \subseteq x.begun
  BY DEF GfsCase, Ordered
<1>2. r \in Runs(s) /\ IsEnkf(r) /\ (r = "enkfgdas" => c # 0)
  <2>1. <<r, "earc_tars", c>> \in GfsExperiment(s).jobs
    BY DEF Ordered
  <2> QED  BY <1>1, <2>1, GfsArchivesPlanned, GfsTaskOfJob DEF Archives
<1>3. earc_tars(x, r, c)
  BY EnsembleWaits
<1>4. \A p : Do(x, r, p) <=> p \in o
  BY <1>2, GfsOptions
<1>5. \A p \in Plain : p \in o <=> p \in s.switches
  BY PlainOptions
<1>6. "gsisoilda" \in o => r = "enkfgdas"
  BY <1>2 DEF RunOptions, BaseSwitches, SoilSwitches, When, ComponentsOf, IsEnkf
<1>7. /\ \A q, k : Task(x, q, k, c) => <<q, k, c>> \in x.done
      /\ \A k : Meta(x, r, k, c) /\ k # "fcst" => <<r, k, c>> \in x.done
  BY <1>1, <1>2, GfsEnded
<1>8. r \in {"enkfgdas", "enkfgfs"}
  BY <1>2 DEF IsEnkf
<1>9. CASE r = "enkfgdas"
  <2>1. Meta(x, r, "epmn", c)
    BY <1>3, <1>9 DEF earc_tars
  <2>2. \A m \in MemberJobs \cup {"epmn"} : Ended(x, r, m, c)
    BY <1>9, <2>1, EpmnDone
  <2>3. PICK m \in s.members : m \in ForecastsOf(s, r)
    BY <1>2, <1>9, GfsRunNames DEF GfsCase, ForecastsOf
  <2>4. <<r, m, c>> \in x.done
    <3>1. <<r, "epmn", c>> \in x.begun
      BY <1>1, <1>7, <2>1
    <3>2. Meta(x, r, "fcst", c)
      BY <3>1, EnsembleWaits DEF epos
    <3> QED  BY <1>1, <1>2, <2>3, <3>2, GfsMembers DEF Meta
  <2>5. m \in MemberJobs /\ <<r, m, c>> \in x.begun
    BY <1>1, <2>3, <2>4
  <2>6. /\ "jediatmens" \notin o => <<r, "ecmn", c>> \in x.done
        /\ "jediatmens" \in o /\ "enkfonly_atm" \notin o => <<r, "ecen_fv3jedi", c>> \in x.done
        /\ <<r, "esfc_gcycle", c>> \in x.done
        /\ "gsisoilda" \in o => <<r, "esfc_regrid", c>> \in x.done
        /\ "hybvar_ocn" \in o => <<r, "marineanlecen", c>> \in x.done
    BY <1>2, <2>5, EnkfForecast
  <2>7. /\ {"jediatmens", "enkfonly_atm"} \cap o = {} => <<r, "echgres", c>> \in x.done
        /\ {"letkf_ocn", "letkf_ocn_inc"} \cap o # {} => <<r, "marineanlletkf", c>> \in x.done
    BY <1>3, <1>4, <1>7, <1>9 DEF earc_tars
  <2> HIDE DEF o
  <2>8. /\ "jedisnowda" \in o => <<r, "esnowanl", c>> \in x.done
        /\ IF "jediatmens" \notin o
           THEN {<<r, "eobs", c>>, <<r, "ediag", c>>, <<r, "eupd", c>>} \subseteq x.done
           ELSE /\ {<<r, "atmensanlinit", c>>, <<r, "atmensanlfv3inc", c>>,
                    <<r, "atmensanlfinal", c>>} \subseteq x.done
                /\ IF "jediatmens_split_obssol" \in o
                   THEN {<<r, "atmensanlobs", c>>, <<r, "atmensanlsol", c>>}
                               \subseteq x.done
                   ELSE <<r, "atmensanlletkf", c>> \in x.done
    BY <1>2, <1>5, <2>6, EnsembleDone DEF Plain
  <2> QED
    BY <2>2, <2>6, <2>7, <2>8 DEF EnkfFiles, When, Ended, o
<1>10. CASE r = "enkfgfs"
  <2>1. /\ <<r, "esfc_gcycle", c>> \in x.done /\ <<r, "ecmn", c>> \in x.done
        /\ "hybvar_ocn" \in o => <<r, "marineanlecen", c>> \in x.done
        /\ {"letkf_ocn", "letkf_ocn_inc"} \cap o # {} => <<r, "marineanlletkf", c>> \in x.done
    BY <1>3, <1>4, <1>7, <1>10 DEF earc_tars
  <2>2. "jediatmens" \notin o
    <3>1. Planned(s, r, "ecen", c)
      BY <1>1, <2>1, GfsTaskOfJob DEF Ordered
    <3> QED
      BY <1>10, <3>1 DEF Planned, TaskNames, CycledTasks, ForecastOnlyTasks, GfsOnlyTasks,
         EnkfTasks, EnsembleAnalysis, IsEnkf, When
  <2> HIDE DEF o
  <2>3. /\ "jedisnowda" \in o => <<r, "esnowanl", c>> \in x.done
        /\ {<<r, "eobs", c>>, <<r, "ediag", c>>, <<r, "eupd", c>>} \subseteq x.done
    BY <1>2, <1>5, <2>1, <2>2, EnsembleDone DEF Plain
  <2> QED
    BY <1>6, <1>10, <2>1, <2>2, <2>3 DEF EnkfFiles, When, Ended, o
<1> QED  BY <1>8, <1>9, <1>10

\* The files of a deterministic run that its archive awaits.
AwaitedAnalyses ==
    {"atmanlprod", "sfcanl_gcycle", "prep", "atmanlinit", "atmanlvar", "atmanlfv3inc",
     "atmanlfinal", "anal", "analdiag", "aeroanlinit", "aeroanlvar", "aeroanlfinal", "snowanl",
     "sfcanl_regrid", "verfrad", "vminmon", "anlstat"}

AwaitedProducts ==
    {"atmos_prod", "wavepostgridded", "wavepostpnt", "wavepostbndpnt", "wavepostbndpntbll",
     "ocean_prod", "ice_prod"}

\* What the archive of a deterministic run requires, but for NotAwaited.
LEMMA DetFiles ==
    ASSUME NEW o, NEW mode, NEW r \in {"gdas", "gfs"}, NEW t \in Tarballs(o, r, mode),
           NEW n \in RequiredFiles(t, o, mode), n \notin NotAwaited
    PROVE  n \in AwaitedAnalyses \cup AwaitedProducts \cup MarineAnalysis
<1>1. t \in GfsTarballs(o, mode) \cup GdasTarballs(o)
  BY DEF Tarballs
<1>2. t \notin {"enkfgdas", "enkfgfs"}
  BY <1>1 DEF GfsTarballs, GdasTarballs, When
<1>3. \/ n \in GdasFiles(o) \/ n \in GfsFiles(o, mode) \/ n \in WaveFiles(o)
      \/ n \in MarineAnalysis
      \/ n \in {"sfcanl_gcycle", "atmanlfv3inc", "atmanlfinal", "anal", "ocean_prod",
                "ice_prod"}
      \/ n \in NotAwaited
  BY <1>2 DEF RequiredFiles, Jedi, When, MarineAnalysis, NotAwaited
<1>4. n \in GdasFiles(o) => n \in AwaitedAnalyses \cup AwaitedProducts \cup MarineAnalysis
  BY DEF GdasFiles, Jedi, When, AwaitedAnalyses, AwaitedProducts, NotAwaited
<1>5. n \in GfsFiles(o, mode) => n \in AwaitedAnalyses \cup AwaitedProducts \cup MarineAnalysis
  BY DEF GfsFiles, Jedi, When, AwaitedAnalyses, AwaitedProducts, NotAwaited, MarineAnalysis
<1>6. n \in WaveFiles(o) => n \in AwaitedProducts
  BY DEF WaveFiles, When, AwaitedProducts
<1> QED  BY <1>3, <1>4, <1>5, <1>6 DEF AwaitedAnalyses, AwaitedProducts

\* When the document has a job that writes such files.
LEMMA DetPlanned ==
    ASSUME NEW s, GfsCase(s), NEW r \in {"gdas", "gfs"}, NEW c,
           NEW n \in AwaitedAnalyses \cup AwaitedProducts \cup MarineAnalysis,
           <<r, n, c>> \in GfsExperiment(s).jobs
    PROVE  LET o == RunOptions(s, r)
           IN  /\ n \in AwaitedAnalyses \cup MarineAnalysis => s.mode = "cycled"
               /\ n \in {"atmanlinit", "atmanlvar", "atmanlfv3inc", "atmanlfinal"}
                     => "jediatmvar" \in o
               /\ n = "anal" => "jediatmvar" \notin o
               /\ n = "analdiag" => r = "gdas" /\ "jediatmvar" \notin o
               /\ n \in {"aeroanlinit", "aeroanlvar", "aeroanlfinal"} => "aero_anl" \in o
               /\ n = "snowanl" => "jedisnowda" \in o
               /\ n = "sfcanl_regrid" => r = "gdas" /\ "gsisoilda" \in o
               /\ n = "verfrad" => r = "gdas" /\ "verfrad" \in o
               /\ n = "vminmon" => "vminmon" \in o
               /\ n = "anlstat" => r = "gdas" /\ "anlstat" \in o
               /\ n \in MarineAnalysis => "jediocnvar" \in o
               /\ n \in {"wavepostgridded", "wavepostpnt"} => "wave" \in o
               /\ n \in {"wavepostbndpnt", "wavepostbndpntbll"} => {"wave", "wave_bnd"} \subseteq o
               /\ n = "ocean_prod" => r = "gfs" /\ "ocean" \in o
               /\ n = "ice_prod" => r = "gfs" /\ "ice" \in o
<1>1. Planned(s, r, n, c)
  BY GfsTaskOfJob, MembersAssumption DEF GfsCase, AwaitedAnalyses, AwaitedProducts,
     MarineAnalysis, JobsOfNoMember,
     ForecastJobs, Renamings
<1>2. n \in TaskNames(s, RunOptions(s, r), r) /\ ~IsEnkf(r)
  BY <1>1 DEF Planned, IsEnkf
<1>3. CASE s.mode = "cycled"
  <2>1. n \in CycledTasks(RunOptions(s, r), r)
    BY <1>2, <1>3 DEF TaskNames
  <2>2. \/ r = "gdas" /\ n = "prep"
        \/ n \in DetTasks(RunOptions(s, r), r)
        \/ r = "gdas" /\ n \in GdasTasks(RunOptions(s, r))
        \/ r = "gfs" /\ n \in GfsOnlyTasks(RunOptions(s, r))
    BY <1>2, <2>1 DEF CycledTasks, AwaitedAnalyses, AwaitedProducts, MarineAnalysis
  <2> QED
    BY <1>3, <2>2 DEF DetTasks, GdasTasks, GfsOnlyTasks, When, AwaitedAnalyses,
       AwaitedProducts, MarineAnalysis
<1>4. CASE s.mode = "forecast-only"
  <2>1. n \in ForecastOnlyTasks(RunOptions(s, r))
    BY <1>2, <1>4 DEF TaskNames
  <2>2. r = "gfs"
    BY <1>1, <1>4, GfsTaskOfJob DEF GfsCase, Runs
  <2> QED
    BY <1>4, <2>1, <2>2 DEF ForecastOnlyTasks, GfsOnlyTasks, When, AwaitedAnalyses,
       AwaitedProducts, MarineAnalysis
<1> QED  BY <1>3, <1>4 DEF GfsCase

\* The archive of a deterministic run comes after what it requires.
LEMMA DetFilesMade ==
    ASSUME NEW s, GfsCase(s), NEW x, Ordered(x, s), NEW r, NEW c,
           <<r, "arch_tars", c>> \in x.begun,
           NEW n \in AwaitedAnalyses \cup AwaitedProducts \cup MarineAnalysis
    PROVE  Ended(x, r, n, c)
<1> SUFFICES ASSUME <<r, n, c>> \in x.exp.jobs PROVE <<r, n, c>> \in x.done
  BY DEF Ended
<1> DEFINE o == RunOptions(s, r)
<1>1. s.members \subseteq MemberJobs /\ x.exp = GfsExperiment(s) /\ x.done \subseteq x.begun
  BY DEF GfsCase, Ordered
<1>2. r \in Runs(s) /\ ~IsEnkf(r) /\ (r = "gdas" => c # 0)
  <2>1. <<r, "arch_tars", c>> \in GfsExperiment(s).jobs
    BY DEF Ordered
  <2> QED  BY <1>1, <2>1, GfsArchivesPlanned, GfsTaskOfJob DEF Archives
<1>3. r \in {"gdas", "gfs"}
  BY <1>2, GfsRunNames DEF IsEnkf
<1>4. _arch_tars_deps(x, r, c)
  BY ProductWaits DEF arch_tars
<1>5. /\ \A p : Do(x, r, p) <=> p \in o
      /\ x.exp.mode = s.mode
  BY <1>2, GfsOptions
<1>6. "jediatmvar" \in o <=> "jediatmvar" \in s.switches
  BY PlainOptions DEF Plain
<1>7. /\ \A m : Task(x, r, m, c) => <<r, m, c>> \in x.done
      /\ \A m : Meta(x, r, m, c) /\ m # "fcst" => <<r, m, c>> \in x.done
  BY <1>1, <1>2, GfsEnded
<1>8. /\ n \in AwaitedAnalyses \cup MarineAnalysis => s.mode = "cycled"
      /\ n \in {"atmanlinit", "atmanlvar", "atmanlfv3inc", "atmanlfinal"}
            => "jediatmvar" \in o
      /\ n = "anal" => "jediatmvar" \notin o
      /\ n = "analdiag" => r = "gdas" /\ "jediatmvar" \notin o
      /\ n \in {"aeroanlinit", "aeroanlvar", "aeroanlfinal"} => "aero_anl" \in o
      /\ n = "snowanl" => "jedisnowda" \in o
      /\ n = "sfcanl_regrid" => r = "gdas" /\ "gsisoilda" \in o
      /\ n = "verfrad" => r = "gdas" /\ "verfrad" \in o
      /\ n = "vminmon" => "vminmon" \in o
      /\ n = "anlstat" => r = "gdas" /\ "anlstat" \in o
      /\ n \in MarineAnalysis => "jediocnvar" \in o
      /\ n \in {"wavepostgridded", "wavepostpnt"} => "wave" \in o
      /\ n \in {"wavepostbndpnt", "wavepostbndpntbll"} => {"wave", "wave_bnd"} \subseteq o
      /\ n = "ocean_prod" => r = "gfs" /\ "ocean" \in o
      /\ n = "ice_prod" => r = "gfs" /\ "ice" \in o
  BY <1>1, <1>3, DetPlanned
<1>9. <<r, "atmos_prod", c>> \in x.done
  BY <1>4, <1>7 DEF _arch_tars_deps
<1>10. CASE n \in AwaitedProducts
  <2> HIDE DEF o
  <2> QED  BY <1>4, <1>5, <1>7, <1>8, <1>9, <1>10
           DEF _arch_tars_deps, WaveGrids, WavePoints, DownstreamOfForecast, AwaitedProducts
<1>11. PICK f \in ForecastJobs : <<r, f, c>> \in x.begun
  <2>1. _atmosoceaniceprod(x, r, c)
    BY <1>1, <1>9, ProductWaits
  <2>2. CASE ForecastData(x, r, c)
    <3>1. x.exp.lastSegment = [q \in Runs(s) |-> IF q = "gfs" /\ s.nseg = 2 THEN "fcst_seg1"
                                                 ELSE "fcst_seg0"]
      BY <1>1, GfsFields
    <3>2. x.exp.lastSegment[r] \in ForecastJobs
      BY <1>2, <3>1 DEF ForecastJobs
    <3> QED  BY <2>2, <3>2 DEF ForecastData, Data
  <2>3. CASE Meta(x, r, "fcst", c)
    <3>1. "fcst_seg0" \in ForecastsOf(s, r)
      BY <1>2 DEF ForecastsOf, FcstSegments
    <3> QED  BY <1>1, <1>2, <2>3, <3>1, GfsMembers DEF Meta, ForecastJobs
  <2> QED  BY <2>1, <2>2, <2>3 DEF _atmosoceaniceprod
<1>12. CASE n \in AwaitedAnalyses \cup MarineAnalysis
  <2>1. s.mode = "cycled"
    BY <1>8, <1>12
  <2>2. /\ <<r, "sfcanl_gcycle", c>> \in x.done
        /\ "gsisoilda" \in o /\ r = "gdas" => <<r, "sfcanl_regrid", c>> \in x.done
        /\ "jediocnvar" \in o => <<r, "marineanlfinal", c>> \in x.done
        /\ "aero_anl" \in o => <<r, "aeroanlfinal", c>> \in x.done
        /\ "jedisnowda" \in o => <<r, "snowanl", c>> \in x.done
    BY <1>2, <1>11, <2>1, DetForecast
  <2>3. AtmosphereDone(x, s, r, c)
    BY <1>1, <2>2, SurfaceIsLast
  <2>4. /\ <<r, "atmanlprod", c>> \in x.done
        /\ r = "gdas" /\ "verfrad" \in o => <<r, "verfrad", c>> \in x.done
        /\ "vminmon" \in o => <<r, "vminmon", c>> \in x.done
        /\ r = "gdas" /\ "anlstat" \in o => <<r, "anlstat", c>> \in x.done
    BY <1>4, <1>5, <1>7, <2>1 DEF _arch_tars_deps, Verified
  <2>5. n = "analdiag" => "verfrad" \in o
    <3> SUFFICES ASSUME n = "analdiag", r = "gdas", "jediatmvar" \notin s.switches
                 PROVE  "verfrad" \in o
      BY <1>6, <1>8
    <3>1. "analdiag" \in CycledTasks(RunOptions(s, "gdas"), "gdas")
      BY <1>1, <2>1, GfsTaskOfJob, MembersAssumption
         DEF Planned, TaskNames, JobsOfNoMember, ForecastJobs, Renamings
    <3>2. "enkfonly_atm" \notin s.switches
      BY <3>1, PlainOptions DEF CycledTasks, IsEnkf, Plain
    <3> QED  BY <3>2 DEF RunOptions, BaseSwitches, Set, When
  <2>6. <<r, "verfrad", c>> \in x.done => <<r, "analdiag", c>> \in x.done
    BY <1>1, <1>7, ProductWaits DEF verfrad
  <2>7. <<r, "marineanlfinal", c>> \in x.done => \A m \in MarineAnalysis : <<r, m, c>> \in x.done
    <3> SUFFICES ASSUME <<r, "marineanlfinal", c>> \in x.done
                 PROVE  \A m \in MarineAnalysis : <<r, m, c>> \in x.done
      OBVIOUS
    <3>1. <<r, "marineanlchkpt", c>> \in x.done
      BY <1>1, <1>7, ComponentWaits DEF marineanlfinal
    <3>2. <<r, "marineanlvar", c>> \in x.done
      BY <1>1, <1>7, <3>1, ComponentWaits DEF marineanlchkpt
    <3>3. <<r, "marineanlinit", c>> \in x.done
      BY <1>1, <1>7, <3>2, ComponentWaits DEF marineanlvar
    <3>4. <<r, "prepoceanobs", c>> \in x.done /\ <<r, "marinebmat", c>> \in x.done
      BY <1>1, <1>7, <3>3, ComponentWaits DEF marineanlinit
    <3>5. <<r, "marinebmatinit", c>> \in x.done
      BY <1>1, <1>7, <3>4, ComponentWaits DEF marinebmat
    <3> QED  BY <3>1, <3>2, <3>3, <3>4, <3>5 DEF MarineAnalysis
  <2>8. <<r, "aeroanlfinal", c>> \in x.done =>
           <<r, "aeroanlvar", c>> \in x.done /\ <<r, "aeroanlinit", c>> \in x.done
    BY <1>1, <1>7, ComponentWaits DEF aeroanlfinal, aeroanlvar
  <2> HIDE DEF o
  <2>9. CASE n \in MarineAnalysis
    BY <1>8, <2>2, <2>7, <2>9
  <2>10. CASE n \in AwaitedAnalyses
    BY <1>6, <1>8, <2>2, <2>3, <2>4, <2>5, <2>6, <2>8, <2>10
       DEF AwaitedAnalyses, AtmosphereDone
  <2> QED  BY <1>12, <2>9, <2>10
<1> QED  BY <1>10, <1>12

-----------------------------------------------------------------------------
(* The settings of the tasks of the GFS                                       *)
\* The settings of the tasks of the ensemble are read.
LEMMA EnkfSourced ==
    ASSUME NEW o, "hybvar" \in o, NEW r, NEW t \in EnkfTasks(o, r)
    PROVE  TaskConfigs(t) \subseteq CycledConfigs(o)
<1>1. CASE t \in EnsembleAnalysis(o)
  <2>1. TaskConfigs(t) = {t}
    BY <1>1 DEF EnsembleAnalysis, TaskConfigs
  <2>2. t \in EnsembleConfigs(o)
    BY <1>1 DEF EnsembleAnalysis, EnsembleConfigs, When
  <2> QED  BY <2>1, <2>2 DEF CycledConfigs
<1>2. CASE t \in {"earc_tars", "globus_earc"}
  <2>1. "archcom" \in o /\ (t = "globus_earc" => "globusarch" \in o)
    BY <1>2 DEF EnkfTasks, EnsembleAnalysis, When
  <2>2. /\ "arch_tars" \in CycledConfigs(o)
        /\ "earc_groups" \in CycledConfigs(o)
        /\ t = "globus_earc" => "globus" \in CycledConfigs(o)
    BY <2>1 DEF CycledConfigs, EnsembleConfigs, When
  <2> QED  BY <1>2, <2>2 DEF TaskConfigs
<1>3. CASE t \notin EnsembleAnalysis(o) /\ t \notin {"earc_tars", "globus_earc"}
  <2>1. TaskConfigs(t) = {t}
    BY <1>3 DEF EnkfTasks, TaskConfigs, When
  <2>2. t \in CycledConfigs(o)
    BY <1>3 DEF EnkfTasks, CycledConfigs, AnalysisConfigs, EnsembleConfigs, When
  <2> QED  BY <2>1, <2>2
<1> QED  BY <1>1, <1>2, <1>3

\* Those of the tasks of the gfs alone.
LEMMA GfsOnlySourced ==
    ASSUME NEW o, NEW t \in GfsOnlyTasks(o)
    PROVE  /\ TaskConfigs(t) \subseteq CycledConfigs(o)
           /\ t \notin {"npoess_pgrb2_0p25deg", "gempakpgrb2spec"}
                 => TaskConfigs(t) \subseteq ForecastOnlyConfigs(o)
BY DEF GfsOnlyTasks, TaskConfigs, CycledConfigs, ForecastOnlyConfigs, WaveConfigs,
   MonitorConfigs, When

\* Those of the tasks of the deterministic runs.
LEMMA DetSourced ==
    ASSUME NEW o, NEW r \in {"gdas", "gfs"}, NEW t \in DetTasks(o, r) \cup GdasTasks(o)
    PROVE  TaskConfigs(t) \subseteq CycledConfigs(o)
<1>1. CASE t \in AnalysisConfigs(o)
  <2>1. TaskConfigs(t) = {t}
    BY <1>1 DEF AnalysisConfigs, TaskConfigs, When
  <2> QED  BY <1>1, <2>1 DEF CycledConfigs
<1>2. CASE t \notin AnalysisConfigs(o)
  BY <1>2 DEF DetTasks, GdasTasks, TaskConfigs, CycledConfigs, WaveConfigs, AnalysisConfigs,
     MonitorConfigs, When
<1> QED  BY <1>1, <1>2

\* Those of the tasks of a forecast-only experiment.
LEMMA ForecastOnlySourced ==
    ASSUME NEW o, NEW t \in ForecastOnlyTasks(o)
    PROVE  TaskConfigs(t) \subseteq ForecastOnlyConfigs(o)
<1>1. CASE t \in GfsOnlyTasks(o) \ {"npoess_pgrb2_0p25deg", "gempakpgrb2spec"}
  BY <1>1, GfsOnlySourced
<1>2. CASE t \notin GfsOnlyTasks(o) \ {"npoess_pgrb2_0p25deg", "gempakpgrb2spec"}
  BY <1>2 DEF ForecastOnlyTasks, TaskConfigs, ForecastOnlyConfigs, WaveConfigs, When
<1> QED  BY <1>1, <1>2 DEF ForecastOnlyTasks

\* Every task of the GFS finds its settings.
LEMMA GfsSourced ==
    ASSUME NEW s, GfsCase(s), NEW r \in Runs(s),
           NEW t \in TaskNames(s, RunOptions(s, r), r)
    PROVE  TaskConfigs(t) \subseteq AppConfigs(s, RunOptions(s, r))
<1> DEFINE o == RunOptions(s, r)
<1>1. CASE s.mode = "cycled"
  <2>1. IsEnkf(r) => "hybvar" \in o
    BY GfsRunNames, PlainOptions DEF Plain
  <2>2. ~IsEnkf(r) => r \in {"gdas", "gfs"}
    BY GfsRunNames DEF IsEnkf
  <2>3. t \in CycledTasks(o, r) /\ AppConfigs(s, o) = CycledConfigs(o)
    BY <1>1 DEF TaskNames, AppConfigs
  <2>4. CASE t \in {"prep", "fetchatmanlbias", "prepatmanlbias"} /\ "enkfonly_atm" \in o
    BY <2>3, <2>4 DEF CycledConfigs, TaskConfigs, When
  <2>5. CASE IsEnkf(r)
    BY <2>1, <2>3, <2>5, EnkfSourced DEF CycledTasks
  <2>6. CASE ~IsEnkf(r) /\ ~(r = "gdas" /\ "enkfonly_atm" \in o)
    BY <2>2, <2>3, <2>6, GfsOnlySourced, DetSourced DEF CycledTasks
  <2>7. CASE ~IsEnkf(r) /\ r = "gdas" /\ "enkfonly_atm" \in o
    BY <2>3, <2>4, <2>7 DEF CycledTasks
  <2> QED  BY <2>5, <2>6, <2>7
<1>2. CASE s.mode # "cycled"
  BY <1>2, ForecastOnlySourced DEF TaskNames, AppConfigs
<1> QED  BY <1>1, <1>2

-----------------------------------------------------------------------------
(* The documents of ensembles                                                 *)
\* The GEFS and the SFS make their documents in the same way.
LEMMA SameEnsembles ==
    \A s, o, T, N : Sfs!EnsembleExperiment(s, o, T, N) = Gefs!EnsembleExperiment(s, o, T, N)
BY DEF Gefs!EnsembleExperiment, Gefs!MemberParts, Gefs!Within, Gefs!Forecast, Gefs!Mem,
   Gefs!Seg,
   Gefs!Control, Gefs!EnsembleCycles, Sfs!EnsembleExperiment, Sfs!MemberParts, Sfs!Within,
   Sfs!Forecast, Sfs!Mem, Sfs!Seg, Sfs!Control, Sfs!EnsembleCycles

SegmentsOf(s) == IF s.nseg = 1 THEN {"0"} ELSE {"0", "1"}
PartsOf(s, T) == Gefs!MemberParts(T, s.members, SegmentsOf(s))
\* The names of the jobs of task t of the list.
NamesOf(s, T, t) ==
    IF t = "fcst" THEN PartsOf(s, T)[Gefs!Forecast(Gefs!Control)]
    ELSE IF t = "efcs"
    THEN UNION {PartsOf(s, T)[Gefs!Forecast(m)] : m \in s.members \ {Gefs!Control}}
    ELSE IF t \in T THEN PartsOf(s, T)[t] ELSE {t}

EachMember(t, M) == {Mem(t, m) : m \in M}

IsEnsemble(e, s, o, T, N) == e = Gefs!EnsembleExperiment(s, o, T, N)
ArePartsOf(parts, T, M, K) == parts = Gefs!MemberParts(T, M, K)

\* What the experiment of an ensemble consists of.
LEMMA EnsembleFields ==
    ASSUME NEW s, NEW o, NEW T, NEW N, NEW e, IsEnsemble(e, s, o, T, N)
    PROVE  /\ e.members = s.members /\ e.segments = SegmentsOf(s)
           /\ DOMAIN e.options = {s.net} /\ e.options[s.net] = o
           /\ e.parts[s.net] = PartsOf(s, T)
           /\ \A j \in e.jobs : \E t \in N, c \in Gefs!EnsembleCycles(s) :
                 \E n \in NamesOf(s, T, t) : j = <<s.net, n, c>>
<1> DEFINE p == PartsOf(s, T)
<1>1. /\ e.members = s.members /\ e.options = [r \in {s.net} |-> o]
      /\ e.segments = SegmentsOf(s) /\ e.parts = [r \in {s.net} |-> p]
  BY DEF IsEnsemble, Gefs!EnsembleExperiment, SegmentsOf, PartsOf
<1>2. e.jobs = UNION {{<<s.net, n, c>> : n \in NamesOf(s, T, t)}
                      : t \in N, c \in Gefs!EnsembleCycles(s)}
  BY DEF IsEnsemble, Gefs!EnsembleExperiment, SegmentsOf, PartsOf, NamesOf
<1> HIDE DEF p
<1>3. DOMAIN e.options = {s.net} /\ e.options[s.net] = o
  BY <1>1
<1>4. e.parts[s.net] = p
  BY <1>1
<1> QED  BY <1>1, <1>2, <1>3, <1>4 DEF p

\* Names are made in the same way in all the systems.
LEMMA MemberNames ==
    /\ \A t, m : Gefs!Mem(t, m) = Mem(t, m) /\ Sfs!Mem(t, m) = Mem(t, m)
    /\ \A t, k : Gefs!Seg(t, k) = Seg(t, k) /\ Sfs!Seg(t, k) = Seg(t, k)
    /\ \A m : Gefs!Forecast(m) = Mem("fcst", m) /\ Sfs!Forecast(m) = Mem("fcst", m)
    /\ \A t, m : Gefs!Within(t, m) = t \o "_" \o m /\ Sfs!Within(t, m) = t \o "_" \o m
    /\ Gefs!Control = "000" /\ Sfs!Control = "000"
BY DEF Gefs!Mem, Sfs!Mem, Mem, Gefs!Seg, Sfs!Seg, Seg, Gefs!Forecast, Sfs!Forecast,
   Gefs!Within, Sfs!Within, Gefs!Control, Sfs!Control

\* The jobs of the metatasks of an ensemble.
LEMMA MemberPartsValues ==
    ASSUME NEW T \in SUBSET MemberTasks, NEW M, NamesApart(M), NEW K,
           NEW parts, ArePartsOf(parts, T, M, K)
    PROVE  /\ \A t \in T : t \in DOMAIN parts /\ parts[t] = EachMember(t, M)
           /\ \A m \in M : /\ Mem("fcst", m) \in DOMAIN parts
                           /\ parts[Mem("fcst", m)] = {Seg(Mem("fcst", m), k) : k \in K}
           /\ \A n \in OtherNames : n \notin T => n \notin DOMAIN parts
<1> DEFINE pairs == T \X M
           F == {Gefs!Forecast(m) : m \in M}
           D == T \cup {Gefs!Within(p[1], p[2]) : p \in pairs} \cup F
           V(n) == IF n \in T THEN {Gefs!Mem(n, m) : m \in M}
                   ELSE IF n \in F THEN {Gefs!Seg(n, k) : k \in K}
                   ELSE {Gefs!Mem(p[1], p[2]) : p \in {q \in pairs : Gefs!Within(q[1], q[2]) = n}}
<1>1. parts = [n \in D |-> V(n)]
  BY DEF ArePartsOf, Gefs!MemberParts
<1>3. \A n \in D : n \in DOMAIN parts /\ parts[n] = V(n)
  BY <1>1
<1>4. DOMAIN parts = D
  BY <1>1
<1>5. ASSUME NEW t \in T PROVE t \in DOMAIN parts /\ parts[t] = EachMember(t, M)
  <2>1. t \in D /\ V(t) = {Gefs!Mem(t, m) : m \in M}
    OBVIOUS
  <2>2. {Gefs!Mem(t, m) : m \in M} = EachMember(t, M)
    BY MemberNames DEF EachMember
  <2> HIDE DEF D, V
  <2> QED  BY <1>3, <2>1, <2>2
<1>6. ASSUME NEW m \in M
      PROVE  /\ Mem("fcst", m) \in DOMAIN parts
             /\ parts[Mem("fcst", m)] = {Seg(Mem("fcst", m), k) : k \in K}
  <2> DEFINE f == Mem("fcst", m)
  <2>1. f \in F /\ f \notin T
    BY MemberNames DEF NamesApart
  <2>2. {Gefs!Seg(f, k) : k \in K} = {Seg(f, k) : k \in K}
    BY MemberNames
  <2> HIDE DEF f, F
  <2>3. f \in D /\ V(f) = {Gefs!Seg(f, k) : k \in K}
    BY <2>1
  <2> HIDE DEF D, V
  <2>4. f \in DOMAIN parts /\ parts[f] = {Seg(f, k) : k \in K}
    BY <1>3, <2>2, <2>3
  <2> QED  BY <2>4 DEF f
<1>7. ASSUME NEW n \in OtherNames, n \notin T
      PROVE  n \notin DOMAIN parts
  <2>1. \A m \in M : n # Gefs!Forecast(m) /\ \A t \in T : n # Gefs!Within(t, m)
    BY MemberNames DEF NamesApart
  <2> QED  BY <1>4, <1>7, <2>1
<1> QED  BY <1>5, <1>6, <1>7

\* The metatasks of an ensemble are made from its members and segments.
LEMMA PartsArePartsOf ==
    ASSUME NEW s, NEW T
    PROVE  ArePartsOf(PartsOf(s, T), T, s.members, SegmentsOf(s))
BY DEF ArePartsOf, PartsOf

\* A job of an ensemble is a segment of a forecast, a task of a member, or
\* another task.
LEMMA EnsembleDocument ==
    ASSUME NEW s, EnsembleCase(s), NEW o, NEW T \in SUBSET MemberTasks, NEW N,
           NEW e, IsEnsemble(e, s, o, T, N), NEW j \in e.jobs
    PROVE  /\ j = <<j[1], j[2], j[3]>> /\ j[1] = s.net
           /\ \/ \E m \in s.members, k \in {"0", "1"} : j[2] = Seg(Mem("fcst", m), k)
              \/ \E m \in s.members, t \in T \cap N : j[2] = Mem(t, m)
              \/ j[2] \in N \ (T \cup {"fcst", "efcs"})
<1> DEFINE parts == PartsOf(s, T)
<1>1. PICK t \in N, c \in Gefs!EnsembleCycles(s) :
          \E n \in NamesOf(s, T, t) : j = <<s.net, n, c>>
  BY EnsembleFields
<1>2. PICK n \in NamesOf(s, T, t) : j = <<s.net, n, c>>
  BY <1>1
<1>4. /\ \A u \in T : parts[u] = EachMember(u, s.members)
      /\ \A m \in s.members : parts[Mem("fcst", m)] = {Seg(Mem("fcst", m), k) : k \in SegmentsOf(s)}
  BY MemberPartsValues, PartsArePartsOf DEF EnsembleCase
<1>6. Gefs!Control \in s.members
  BY DEF EnsembleCase, Gefs!Control
<1> HIDE DEF parts
<1>7. CASE t \in {"fcst", "efcs"}
  <2>1. PICK m \in s.members : n \in parts[Mem("fcst", m)]
    BY <1>6, <1>7, MemberNames DEF NamesOf, parts
  <2> QED  BY <1>2, <1>4, <2>1 DEF SegmentsOf
<1>8. CASE t \notin {"fcst", "efcs"}
  BY <1>2, <1>4, <1>8 DEF NamesOf, EachMember, parts
<1> QED  BY <1>7, <1>8

\* The jobs of the metatasks that dependencies name.
LEMMA EnsembleMembers ==
    ASSUME NEW s, EnsembleCase(s), NEW o, NEW T \in SUBSET MemberTasks, NEW N,
           NEW e, IsEnsemble(e, s, o, T, N)
    PROVE  /\ \A t \in T : Members(e, s.net, t) = EachMember(t, s.members)
           /\ \A n \in OtherNames : n \notin T => n \in Members(e, s.net, n)
<1> DEFINE parts == PartsOf(s, T)
<1>1. e.parts[s.net] = parts
  BY EnsembleFields
<1>3. ArePartsOf(parts, T, s.members, SegmentsOf(s)) /\ NamesApart(s.members)
  BY PartsArePartsOf DEF EnsembleCase
<1> HIDE DEF parts
<1>2. ASSUME NEW t \in T
      PROVE  t \in DOMAIN parts /\ parts[t] = EachMember(t, s.members)
  BY <1>3, MemberPartsValues
<1>4. ASSUME NEW n \in OtherNames, n \notin T PROVE n \notin DOMAIN parts
  BY <1>3, <1>4, MemberPartsValues
<1> QED  BY <1>1, <1>2, <1>4 DEF Members

\* The names of the jobs of the members differ from all the others.
LEMMA ApartNames ==
    ASSUME NEW M, NamesApart(M), NEW m \in M, NEW q \in M, NEW t \in MemberTasks
    PROVE  /\ \A u \in MemberTasks : Mem(t, m) = Mem(u, q) => t = u
           /\ \A k \in {"0", "1"} : Mem(t, m) # Seg(Mem("fcst", q), k)
           /\ \A n \in OtherNames \cup MemberJobs : n # Mem(t, m)
           /\ \A n \in OtherNames \cup MemberJobs, k \in {"0", "1"} :
                 n # Seg(Mem("fcst", q), k)
<1>1. \A u \in MemberTasks : Mem(t, m) = Mem(u, q) => t = u
  BY DEF NamesApart
<1>2. \A k \in {"0", "1"} : Mem(t, m) # Seg(Mem("fcst", q), k)
  BY DEF NamesApart
<1>3. ASSUME NEW n \in OtherNames \cup MemberJobs
      PROVE  n # Mem(t, m) /\ \A k \in {"0", "1"} : n # Seg(Mem("fcst", q), k)
  BY DEF NamesApart
<1> QED  BY <1>1, <1>2, <1>3

\* The names in a document, by what they stand for.
LEMMA EnsembleNames ==
    ASSUME NEW s, EnsembleCase(s), NEW o, NEW T \in SUBSET MemberTasks, NEW N,
           N \subseteq OtherNames \cup T \cup {"fcst", "efcs"},
           NEW e, IsEnsemble(e, s, o, T, N), NEW r, NEW n, NEW c, <<r, n, c>> \in e.jobs
    PROVE  /\ r = s.net
           /\ n \in OtherNames \cup MemberJobs => n \in N
           /\ \A t \in MemberTasks, m \in s.members : n = Mem(t, m) => t \in T \cap N
<1> DEFINE j == <<r, n, c>>
<1>1. /\ j[1] = s.net
      /\ \/ \E m \in s.members, k \in {"0", "1"} : j[2] = Seg(Mem("fcst", m), k)
         \/ \E m \in s.members, t \in T \cap N : j[2] = Mem(t, m)
         \/ j[2] \in N \ (T \cup {"fcst", "efcs"})
  <2>1. j \in e.jobs
    OBVIOUS
  <2> HIDE DEF j
  <2> QED  BY <2>1, EnsembleDocument
<1>2. /\ r = s.net
      /\ \/ \E m \in s.members, k \in {"0", "1"} : n = Seg(Mem("fcst", m), k)
         \/ \E m \in s.members, t \in T \cap N : n = Mem(t, m)
         \/ n \in N /\ n \in OtherNames
  BY <1>1
<1>3. NamesApart(s.members)
  BY DEF EnsembleCase
<1>4. ASSUME NEW m \in s.members, NEW k \in {"0", "1"}, n = Seg(Mem("fcst", m), k)
      PROVE  /\ n \notin OtherNames \cup MemberJobs
             /\ \A t \in MemberTasks, q \in s.members : n # Mem(t, q)
  <2>1. PICK u \in MemberTasks : TRUE
    BY DEF MemberTasks, Gefs!OfEachMember
  <2>2. n \notin OtherNames \cup MemberJobs
    BY <1>3, <1>4, <2>1, ApartNames
  <2> QED  BY <1>3, <1>4, <2>2, ApartNames
<1>5. ASSUME NEW m \in s.members, NEW t \in T \cap N, n = Mem(t, m)
      PROVE  /\ n \notin OtherNames \cup MemberJobs
             /\ \A u \in MemberTasks, q \in s.members : n = Mem(u, q) => u = t
  BY <1>3, <1>5, ApartNames
<1>6. ASSUME n \in OtherNames
      PROVE  \A t \in MemberTasks, m \in s.members : n # Mem(t, m)
  BY <1>3, <1>6 DEF NamesApart
<1> QED  BY <1>2, <1>4, <1>5, <1>6

\* What a dependency on a task or a metatask of the ensemble says of its jobs.
LEMMA EnsembleEnded ==
    ASSUME NEW s, EnsembleCase(s), NEW o, NEW T \in SUBSET MemberTasks, NEW N,
           NEW x, IsEnsemble(x.exp, s, o, T, N), NEW c
    PROVE  /\ \A n : Task(x, s.net, n, c) => <<s.net, n, c>> \in x.done
           /\ \A t \in T, m \in s.members :
                 Meta(x, s.net, t, c) => <<s.net, Mem(t, m), c>> \in x.done
           /\ \A n \in OtherNames \ T : Meta(x, s.net, n, c) => <<s.net, n, c>> \in x.done
<1> DEFINE e == x.exp
<1>1. IsEnsemble(e, s, o, T, N)
  OBVIOUS
<1> HIDE DEF e
<1>2. ASSUME NEW t \in T PROVE Members(e, s.net, t) = EachMember(t, s.members)
  BY <1>1, EnsembleMembers
<1>3. ASSUME NEW n \in OtherNames, n \notin T PROVE n \in Members(e, s.net, n)
  BY <1>1, <1>3, EnsembleMembers
<1> QED  BY <1>2, <1>3 DEF Task, Meta, EachMember, e

-----------------------------------------------------------------------------
(* The GEFS                                                                   *)
\* The words of the dependencies mean the same in all the systems.
LEMMA EnsembleTerms ==
    ASSUME NEW x, NEW r, NEW n, NEW c
    PROVE  /\ Gefs!Task(x, r, n, c) <=> Task(x, r, n, c)
           /\ Gefs!Meta(x, r, n, c) <=> Meta(x, r, n, c)
           /\ Gefs!Do(x, r, n) <=> Do(x, r, n)
           /\ Sfs!Task(x, r, n, c) <=> Task(x, r, n, c)
           /\ Sfs!Meta(x, r, n, c) <=> Meta(x, r, n, c)
           /\ Sfs!Do(x, r, n) <=> Do(x, r, n)
BY DEF Gefs!Task, Gefs!Meta, Gefs!Members, Gefs!Do, Sfs!Task, Sfs!Meta, Sfs!Members, Sfs!Do,
   Task, Meta, Members, Do

\* The tasks of the GEFS, by the names of the document.
GefsNames(s) == {Gefs!Named(t) : t \in Gefs!get_task_names(Gefs!_get_run_options(s))}

\* What the options say of a task of the GEFS that the document has.
LEMMA GefsTaskNames ==
    ASSUME NEW s, NEW o, o = Gefs!_get_run_options(s), NEW n \in GefsNames(s)
    PROVE  /\ n \in OtherNames \cup Gefs!OfEachMember \cup {"fcst", "efcs"}
           /\ n = "ocean_prod" => "ocean" \in o
           /\ n = "ice_prod" => "ice" \in o
           /\ n \in {"wavepostgridded", "wave_stat"} => "wave" \in o
           /\ n = "extractvars" => "extractvars" \in o
           /\ n = "arch_tars" => "archcom" \in o
           /\ n = Gefs!BareGlobus => {"archcom", "globusarch"} \subseteq o
           /\ n \notin {"globus_arch", "earc_vrfy", "earc_tars", "globus_earc"}
           /\ n \notin Analyses \cup {"aeroanlvar", "marineanlvar", "marineanlletkf", "marineanlecen"}
           /\ n \notin ForecastJobs \cup MemberJobs
<1>1. PICK t \in Gefs!get_task_names(o) : n = Gefs!Named(t)
  BY DEF GefsNames
<1>2. n = IF t = "waveinit" THEN "wave_init" ELSE IF t = "globus" THEN Gefs!BareGlobus ELSE t
  BY <1>1 DEF Gefs!Named
<1>3. /\ t \in {"stage_ic", "fcst", "atmos_prod", "arch_vrfy", "cleanup", "gen_control_ic",
                "waveinit", "wavepostgridded", "wave_stat", "wave_stat_pnt", "prep_emissions",
                "efcs", "atmos_ensstat", "awips", "postsnd", "gempak", "ocean_prod", "ice_prod",
                "extractvars", "arch_tars", "globus"}
      /\ t = "ocean_prod" => "ocean" \in o
      /\ t = "ice_prod" => "ice" \in o
      /\ t \in {"wavepostgridded", "wave_stat"} => "wave" \in o
      /\ t = "extractvars" => "extractvars" \in o
      /\ t = "arch_tars" => "archcom" \in o
      /\ t = "globus" => {"archcom", "globusarch"} \subseteq o
  BY DEF Gefs!get_task_names, Gefs!When
<1>4. /\ n = "ocean_prod" => t = "ocean_prod"
      /\ n = "ice_prod" => t = "ice_prod"
      /\ n \in {"wavepostgridded", "wave_stat"} => t = n
      /\ n = "extractvars" => t = n
      /\ n = "arch_tars" => t = n
      /\ n = Gefs!BareGlobus => t = "globus"
  BY <1>2, <1>3 DEF Gefs!BareGlobus
<1>5. n \in OtherNames \cup Gefs!OfEachMember \cup {"fcst", "efcs"}
  BY <1>2, <1>3 DEF OtherNames, Gefs!OfEachMember
<1>6. /\ n \notin {"globus_arch", "earc_vrfy", "earc_tars", "globus_earc"}
      /\ n \notin Analyses \cup {"aeroanlvar", "marineanlvar", "marineanlletkf", "marineanlecen"}
      /\ n \notin ForecastJobs
  BY <1>2, <1>3 DEF Gefs!BareGlobus, Analyses, ForecastJobs
<1>7. n \notin MemberJobs
  <2>1. n \in JobsOfNoMember
    BY <1>2, <1>3 DEF JobsOfNoMember
  <2> QED  BY <2>1, MembersAssumption
<1> QED  BY <1>3, <1>4, <1>5, <1>6, <1>7

GefsOrdered(x, s) ==
    /\ x.exp = Gefs!Experiment(s)
    /\ x.done \subseteq x.begun /\ x.begun \subseteq x.exp.jobs
    /\ \A r, n, c : <<r, n, c>> \in x.begun => Gefs!TaskReady(x, r, n, c)

\* The experiment of the GEFS is that of an ensemble.
LEMMA GefsEnsemble ==
    ASSUME NEW s, NEW x, x.exp = Gefs!Experiment(s)
    PROVE  IsEnsemble(x.exp, s, Gefs!_get_run_options(s), Gefs!OfEachMember, GefsNames(s))
BY DEF IsEnsemble, Gefs!Experiment, GefsNames

\* What dependencies and documents of the GEFS say.
LEMMA GefsFacts ==
    ASSUME NEW s, EnsembleCase(s), NEW x, GefsOrdered(x, s), NEW c
    PROVE  /\ \A n : Task(x, s.net, n, c) => <<s.net, n, c>> \in x.done
           /\ \A t \in Gefs!OfEachMember, m \in s.members :
                 Meta(x, s.net, t, c) => <<s.net, Mem(t, m), c>> \in x.done
           /\ \A n \in OtherNames : Meta(x, s.net, n, c) => <<s.net, n, c>> \in x.done
           /\ \A n : Do(x, s.net, n) <=> n \in Gefs!_get_run_options(s)
           /\ \A r, n : <<r, n, c>> \in x.exp.jobs =>
                 /\ r = s.net
                 /\ n \in OtherNames \cup MemberJobs => n \in GefsNames(s)
                 /\ \A t \in MemberTasks, m \in s.members :
                       n = Mem(t, m) => t \in Gefs!OfEachMember \cap GefsNames(s)
<1> DEFINE o == Gefs!_get_run_options(s)
           T == Gefs!OfEachMember
           N == GefsNames(s)
           e == x.exp
<1>1. IsEnsemble(e, s, o, T, N)
  BY GefsEnsemble DEF GefsOrdered
<1>2. T \in SUBSET MemberTasks /\ OtherNames \cap T = {}
  BY DEF MemberTasks, OtherNames, Gefs!OfEachMember, Gefs!BareGlobus, ForecastJobs
<1>3. N \subseteq OtherNames \cup T \cup {"fcst", "efcs"}
  BY GefsTaskNames
<1>4. e.options[s.net] = o
  <2> HIDE DEF e, o, T, N
  <2> QED  BY <1>1, EnsembleFields
<1>5. /\ \A n : Task(x, s.net, n, c) => <<s.net, n, c>> \in x.done
      /\ \A t \in T, m \in s.members :
                 Meta(x, s.net, t, c) => <<s.net, Mem(t, m), c>> \in x.done
      /\ \A n \in OtherNames : Meta(x, s.net, n, c) => <<s.net, n, c>> \in x.done
  <2> HIDE DEF o, T, N
  <2> QED  BY <1>1, <1>2, EnsembleEnded
<1>6. ASSUME NEW r, NEW n, <<r, n, c>> \in e.jobs
      PROVE  /\ r = s.net
             /\ n \in OtherNames \cup MemberJobs => n \in N
             /\ \A t \in MemberTasks, m \in s.members : n = Mem(t, m) => t \in T \cap N
  <2> HIDE DEF e, o, T, N
  <2> QED  BY <1>1, <1>2, <1>3, <1>6, EnsembleNames
<1> QED  BY <1>4, <1>5, <1>6 DEF Do

\* What the jobs that are not those of a member waited for.
LEMMA GefsWaits ==
    ASSUME NEW s, EnsembleCase(s), NEW x, GefsOrdered(x, s),
           NEW r, NEW n \in OtherNames, NEW c, <<r, n, c>> \in x.begun
    PROVE  /\ n = "cleanup" => Gefs!cleanup(x, s.net, c)
           /\ n = "arch_tars" => Gefs!arch_tars(x, s.net, c)
           /\ n = "wave_stat_pnt" => Gefs!wave_stat_pnt(x, s.net, c)
<1>1. Gefs!TaskReady(x, r, n, c) /\ r = s.net
  BY GefsFacts DEF GefsOrdered
<1>2. x.exp.members = s.members /\ x.exp.segments \subseteq {"0", "1"}
  <2> DEFINE e == x.exp
  <2>1. IsEnsemble(e, s, Gefs!_get_run_options(s), Gefs!OfEachMember, GefsNames(s))
    BY GefsEnsemble DEF GefsOrdered
  <2> HIDE DEF e
  <2>2. e.members = s.members /\ e.segments = SegmentsOf(s)
    BY <2>1, EnsembleFields
  <2> QED  BY <2>2 DEF SegmentsOf, e
<1>3. ASSUME NEW m \in s.members PROVE ~Gefs!MemberReady(x, r, n, m, c)
  <2>1. /\ \A t \in Gefs!OfEachMember : n # Mem(t, m)
        /\ \A k \in {"0", "1"} : n # Seg(Mem("fcst", m), k)
    BY DEF EnsembleCase, NamesApart, MemberTasks
  <2> QED  BY <1>2, <2>1, MemberNames DEF Gefs!MemberReady, Gefs!OfEachMember
<1> QED  BY <1>1, <1>2, <1>3 DEF Gefs!TaskReady, Gefs!BareGlobus

\* A cleanup of the GEFS comes after the archives of its cycle.
LEMMA GefsCleanup ==
    ASSUME NEW s, EnsembleCase(s), NEW x, GefsOrdered(x, s),
           NEW r, NEW c, <<r, "cleanup", c>> \in x.begun, NEW n \in Archives
    PROVE  Ended(x, r, n, c)
<1> SUFFICES ASSUME <<r, n, c>> \in x.exp.jobs PROVE <<r, n, c>> \in x.done
  BY DEF Ended
<1> DEFINE o == Gefs!_get_run_options(s)
<1>1. n \in OtherNames /\ "cleanup" \in OtherNames /\ "globus_arch" \in OtherNames
  BY DEF Archives, OtherNames
<1>2. r = s.net /\ n \in GefsNames(s)
  BY <1>1, GefsFacts
<1>3. /\ n \notin {"globus_arch", "earc_vrfy", "earc_tars", "globus_earc"}
      /\ n = "arch_tars" => "archcom" \in o
      /\ n = Gefs!BareGlobus => {"archcom", "globusarch"} \subseteq o
  BY <1>2, GefsTaskNames
<1>4. /\ Do(x, r, "archcom") =>
            Task(x, r, IF Do(x, r, "globusarch") THEN "globus_arch" ELSE "arch_tars", c)
      /\ Task(x, r, "arch_vrfy", c)
  <2>1. Gefs!cleanup(x, s.net, c)
    BY <1>1, GefsWaits
  <2> QED  BY <1>2, <2>1, EnsembleTerms DEF Gefs!cleanup
<1>5. /\ Do(x, r, "archcom") <=> "archcom" \in o
      /\ Do(x, r, "globusarch") <=> "globusarch" \in o
      /\ \A q : Task(x, r, q, c) => <<r, q, c>> \in x.done
  BY <1>2, GefsFacts
<1>6. <<r, "globus_arch", c>> \notin x.done
  <2> SUFFICES ASSUME <<r, "globus_arch", c>> \in x.exp.jobs PROVE FALSE
    BY DEF GefsOrdered
  <2>1. "globus_arch" \in GefsNames(s)
    BY <1>1, GefsFacts
  <2> QED  BY <2>1, GefsTaskNames
<1> HIDE DEF o
<1>7. n = "arch_vrfy" \/ n = "arch_tars" \/ n = Gefs!BareGlobus
  BY <1>3 DEF Archives
<1> QED  BY <1>3, <1>4, <1>5, <1>6, <1>7

\* The products of the members, by their tasks.
ProductTasks == {"atmos_prod", "ocean_prod", "ice_prod", "wavepostgridded",
                 "atmos_post", "ocn_post", "ice_post", "wave_post_grid",
                 "wave_post_pnt", "extractvars"}

\* An archive of the GEFS comes after the products of every member.
LEMMA GefsMembersArchived ==
    ASSUME NEW s, EnsembleCase(s), NEW x, GefsOrdered(x, s),
           NEW r, NEW c, <<r, "arch_tars", c>> \in x.begun
    PROVE  /\ \A t \in ProductTasks, m \in s.members : Ended(x, r, Mem(t, m), c)
           /\ Ended(x, r, "atmos_ensstat", c) /\ Ended(x, r, "wave_stat", c)
<1> DEFINE o == Gefs!_get_run_options(s)
<1>1. {"arch_tars", "wave_stat_pnt", "atmos_ensstat", "wave_stat"} \subseteq OtherNames
  BY DEF OtherNames
<1>2. r = s.net
  BY GefsFacts DEF GefsOrdered
<1>3. /\ Meta(x, r, "atmos_prod", c) /\ Meta(x, r, "atmos_ensstat", c)
      /\ Do(x, r, "ice") => Meta(x, r, "ice_prod", c)
      /\ Do(x, r, "ocean") => Meta(x, r, "ocean_prod", c)
      /\ Do(x, r, "wave") => Meta(x, r, "wavepostgridded", c) /\ Task(x, r, "wave_stat_pnt", c)
      /\ Do(x, r, "extractvars") => Meta(x, r, "extractvars", c)
  <2>1. Gefs!arch_tars(x, s.net, c)
    BY <1>1, GefsWaits
  <2> QED  BY <1>2, <2>1, EnsembleTerms DEF Gefs!arch_tars
<1>4. /\ \A p : Do(x, r, p) <=> p \in o
      /\ \A q : Task(x, r, q, c) => <<r, q, c>> \in x.done
      /\ \A t \in Gefs!OfEachMember, m \in s.members :
            Meta(x, r, t, c) => <<r, Mem(t, m), c>> \in x.done
      /\ \A q \in OtherNames : Meta(x, r, q, c) => <<r, q, c>> \in x.done
  BY <1>2, GefsFacts
<1>5. \A q \in OtherNames \cup Gefs!OfEachMember :
          q \in GefsNames(s) => /\ q = "ocean_prod" => "ocean" \in o
                                /\ q = "ice_prod" => "ice" \in o
                                /\ q \in {"wavepostgridded", "wave_stat"} => "wave" \in o
                                /\ q = "extractvars" => "extractvars" \in o
  BY GefsTaskNames
<1> HIDE DEF o
<1>6. ASSUME NEW t \in ProductTasks, NEW m \in s.members
      PROVE  Ended(x, r, Mem(t, m), c)
  <2> SUFFICES ASSUME <<r, Mem(t, m), c>> \in x.exp.jobs PROVE <<r, Mem(t, m), c>> \in x.done
    BY DEF Ended
  <2>1. t \in MemberTasks
    BY DEF MemberTasks, ProductTasks, Gefs!OfEachMember, Sfs!OfEachMember
  <2>2. t \in Gefs!OfEachMember /\ t \in GefsNames(s)
    BY <2>1, GefsFacts
  <2>3. t \in {"atmos_prod", "ocean_prod", "ice_prod", "wavepostgridded", "extractvars"}
    BY <2>2 DEF ProductTasks, Gefs!OfEachMember
  <2>4. Meta(x, r, t, c)
    BY <1>3, <1>4, <1>5, <2>2, <2>3
  <2> QED  BY <1>4, <2>2, <2>4
<1>7. Ended(x, r, "atmos_ensstat", c)
  BY <1>1, <1>3, <1>4 DEF Ended
<1>8. Ended(x, r, "wave_stat", c)
  <2> SUFFICES ASSUME <<r, "wave_stat", c>> \in x.exp.jobs PROVE <<r, "wave_stat", c>> \in x.done
    BY DEF Ended
  <2>1. "wave_stat" \in GefsNames(s)
    BY <1>1, GefsFacts
  <2>2. <<r, "wave_stat_pnt", c>> \in x.begun
    BY <1>1, <1>3, <1>4, <1>5, <2>1 DEF GefsOrdered
  <2>3. Meta(x, r, "wave_stat", c)
    BY <1>1, <1>2, <2>2, GefsWaits, EnsembleTerms DEF Gefs!wave_stat_pnt
  <2> QED  BY <1>1, <1>4, <2>3
<1> QED  BY <1>6, <1>7, <1>8

\* No job of the GEFS is one of these.
LEMMA GefsOthers ==
    ASSUME NEW s, EnsembleCase(s), NEW x, GefsOrdered(x, s),
           NEW r, NEW n, NEW c, <<r, n, c>> \in x.begun
    PROVE  /\ n \notin Analyses \cup {"aeroanlvar", "marineanlvar", "marineanlletkf", "marineanlecen"}
           /\ n \notin ForecastJobs \cup MemberJobs
           /\ n # "earc_tars"
<1>1. n \in OtherNames \cup MemberJobs => n \in GefsNames(s)
  BY GefsFacts DEF GefsOrdered
<1>2. Analyses \cup {"aeroanlvar", "marineanlvar", "marineanlletkf", "marineanlecen", "earc_tars"}
          \cup ForecastJobs \cup MemberJobs \subseteq OtherNames \cup MemberJobs
  BY DEF Analyses, OtherNames
<1> QED  BY <1>1, <1>2, GefsTaskNames

\* Every task of the GEFS finds its settings.
LEMMA GefsSourced ==
    ASSUME NEW o, NEW t \in Gefs!get_task_names(o)
    PROVE  Gefs!TaskConfigs(t) \subseteq Gefs!_get_app_configs(o)
BY DEF Gefs!get_task_names, Gefs!_get_app_configs, Gefs!TaskConfigs, Gefs!When

-----------------------------------------------------------------------------
(* The SFS                                                                    *)
\* The tasks of the SFS, by the names of the document.
SfsNames(s) == {Sfs!Named(t) : t \in Sfs!get_task_names(Sfs!_get_run_options(s))}

\* What the options say of a task of the SFS that the document has.
LEMMA SfsTaskNames ==
    ASSUME NEW s, NEW o, o = Sfs!_get_run_options(s), NEW n \in SfsNames(s)
    PROVE  /\ n \in OtherNames \cup Sfs!OfEachMember \cup {"fcst", "efcs"}
           /\ n = "ocean_prod" => "ocean" \in o
           /\ n = "ice_prod" => "ice" \in o
           /\ n \in {"wave_post_grid", "wave_post_pnt"} => "wave" \in o
           /\ n = "extractvars" => "extractvars" \in o
           /\ n = "arch_tars" => "archcom" \in o
           /\ n = "globus_arch" => {"archcom", "globusarch"} \subseteq o
           /\ n \notin {"arch_vrfy", Gefs!BareGlobus, "earc_vrfy", "earc_tars", "globus_earc",
                        "atmos_ensstat", "wave_stat"}
           /\ n \notin Analyses \cup {"aeroanlvar", "marineanlvar", "marineanlletkf", "marineanlecen"}
           /\ n \notin ForecastJobs \cup MemberJobs
<1>1. PICK t \in Sfs!get_task_names(o) : n = Sfs!Named(t)
  BY DEF SfsNames
<1>2. /\ t \in {"stage_ic", "fcst", "atmos_post", "ocn_post", "ice_post", "cleanup",
                "waveinit", "wavepostgridded", "wavepostpnt", "wavepostbndpnt",
                "wavepostbndpntbll", "prep_emissions", "efcs", "ocean_prod", "ice_prod",
                "extractvars", "arch_tars", "globus"}
      /\ t = "ocean_prod" => "ocean" \in o
      /\ t = "ice_prod" => "ice" \in o
      /\ t \in {"wavepostgridded", "wavepostpnt"} => "wave" \in o
      /\ t = "extractvars" => "extractvars" \in o
      /\ t = "arch_tars" => "archcom" \in o
      /\ t = "globus" => {"archcom", "globusarch"} \subseteq o
  BY DEF Sfs!get_task_names, Sfs!Wave, Sfs!When
<1>3. n = IF t = "waveinit" THEN "wave_init"
          ELSE IF t = "wavepostgridded" THEN "wave_post_grid"
          ELSE IF t = "wavepostbndpnt" THEN "wave_post_bndpnt"
          ELSE IF t = "wavepostbndpntbll" THEN "wave_post_bndpnt_bull"
          ELSE IF t = "wavepostpnt" THEN "wave_post_pnt"
          ELSE IF t = "globus" THEN "globus_arch" ELSE t
  BY <1>1 DEF Sfs!Named
<1>4. /\ n = "ocean_prod" => t = n
      /\ n = "ice_prod" => t = n
      /\ n = "wave_post_grid" => t = "wavepostgridded"
      /\ n = "wave_post_pnt" => t = "wavepostpnt"
      /\ n = "extractvars" => t = n
      /\ n = "arch_tars" => t = n
      /\ n = "globus_arch" => t = "globus"
  BY <1>2, <1>3
<1>5. n \in OtherNames \cup Sfs!OfEachMember \cup {"fcst", "efcs"}
  BY <1>2, <1>3 DEF OtherNames, Sfs!OfEachMember
<1>6. /\ n \notin {"arch_vrfy", Gefs!BareGlobus, "earc_vrfy", "earc_tars", "globus_earc",
                   "atmos_ensstat", "wave_stat"}
      /\ n \notin Analyses \cup {"aeroanlvar", "marineanlvar", "marineanlletkf", "marineanlecen"}
      /\ n \notin ForecastJobs
  BY <1>2, <1>3 DEF Gefs!BareGlobus, Analyses, ForecastJobs
<1>7. n \notin MemberJobs
  <2>1. n \in JobsOfNoMember
    BY <1>2, <1>3 DEF JobsOfNoMember
  <2> QED  BY <2>1, MembersAssumption
<1> QED  BY <1>2, <1>4, <1>5, <1>6, <1>7

SfsOrdered(x, s) ==
    /\ x.exp = Sfs!Experiment(s)
    /\ x.done \subseteq x.begun /\ x.begun \subseteq x.exp.jobs
    /\ \A r, n, c : <<r, n, c>> \in x.begun => Sfs!TaskReady(x, r, n, c)

\* The experiment of the SFS is that of an ensemble.
LEMMA SfsEnsemble ==
    ASSUME NEW s, NEW x, x.exp = Sfs!Experiment(s)
    PROVE  IsEnsemble(x.exp, s, Sfs!_get_run_options(s), Sfs!OfEachMember, SfsNames(s))
BY SameEnsembles DEF IsEnsemble, Sfs!Experiment, SfsNames

\* What dependencies and documents of the SFS say.
LEMMA SfsFacts ==
    ASSUME NEW s, EnsembleCase(s), NEW x, SfsOrdered(x, s), NEW c
    PROVE  /\ \A n : Task(x, s.net, n, c) => <<s.net, n, c>> \in x.done
           /\ \A t \in Sfs!OfEachMember, m \in s.members :
                 Meta(x, s.net, t, c) => <<s.net, Mem(t, m), c>> \in x.done
           /\ \A n : Do(x, s.net, n) <=> n \in Sfs!_get_run_options(s)
           /\ \A r, n : <<r, n, c>> \in x.exp.jobs =>
                 /\ r = s.net
                 /\ n \in OtherNames \cup MemberJobs => n \in SfsNames(s)
                 /\ \A t \in MemberTasks, m \in s.members :
                       n = Mem(t, m) => t \in Sfs!OfEachMember \cap SfsNames(s)
<1> DEFINE o == Sfs!_get_run_options(s)
           T == Sfs!OfEachMember
           N == SfsNames(s)
           e == x.exp
<1>1. IsEnsemble(e, s, o, T, N)
  BY SfsEnsemble DEF SfsOrdered
<1>2. T \in SUBSET MemberTasks
  BY DEF MemberTasks
<1>3. N \subseteq OtherNames \cup T \cup {"fcst", "efcs"}
  BY SfsTaskNames
<1>4. e.options[s.net] = o
  <2> HIDE DEF e, o, T, N
  <2> QED  BY <1>1, EnsembleFields
<1>5. /\ \A n : Task(x, s.net, n, c) => <<s.net, n, c>> \in x.done
      /\ \A t \in T, m \in s.members :
                 Meta(x, s.net, t, c) => <<s.net, Mem(t, m), c>> \in x.done
  <2> HIDE DEF o, T, N
  <2> QED  BY <1>1, <1>2, EnsembleEnded
<1>6. ASSUME NEW r, NEW n, <<r, n, c>> \in e.jobs
      PROVE  /\ r = s.net
             /\ n \in OtherNames \cup MemberJobs => n \in N
             /\ \A t \in MemberTasks, m \in s.members : n = Mem(t, m) => t \in T \cap N
  <2> HIDE DEF e, o, T, N
  <2> QED  BY <1>1, <1>2, <1>3, <1>6, EnsembleNames
<1> QED  BY <1>4, <1>5, <1>6 DEF Do

\* What the jobs that are not those of a member waited for.
LEMMA SfsWaits ==
    ASSUME NEW s, EnsembleCase(s), NEW x, SfsOrdered(x, s),
           NEW r, NEW n \in OtherNames, NEW c, <<r, n, c>> \in x.begun
    PROVE  /\ n = "cleanup" => Sfs!cleanup(x, s.net, c)
           /\ n = "arch_tars" => Sfs!arch_tars(x, s.net, c)
           /\ n = "globus_arch" => Sfs!globus(x, s.net, c)
<1>1. Sfs!TaskReady(x, r, n, c) /\ r = s.net
  BY SfsFacts DEF SfsOrdered
<1>2. x.exp.members = s.members /\ x.exp.segments \subseteq {"0", "1"}
  <2> DEFINE e == x.exp
  <2>1. IsEnsemble(e, s, Sfs!_get_run_options(s), Sfs!OfEachMember, SfsNames(s))
    BY SfsEnsemble DEF SfsOrdered
  <2> HIDE DEF e
  <2>2. e.members = s.members /\ e.segments = SegmentsOf(s)
    BY <2>1, EnsembleFields
  <2> QED  BY <2>2 DEF SegmentsOf, e
<1>3. ASSUME NEW m \in s.members PROVE ~Sfs!MemberReady(x, r, n, m, c)
  <2>1. /\ \A t \in Sfs!OfEachMember : n # Mem(t, m)
        /\ \A k \in {"0", "1"} : n # Seg(Mem("fcst", m), k)
    BY DEF EnsembleCase, NamesApart, MemberTasks
  <2> QED  BY <1>2, <2>1, MemberNames DEF Sfs!MemberReady, Sfs!OfEachMember
<1> QED  BY <1>1, <1>2, <1>3 DEF Sfs!TaskReady

\* A cleanup of the SFS comes after the archives of its cycle.
LEMMA SfsCleanup ==
    ASSUME NEW s, EnsembleCase(s), NEW x, SfsOrdered(x, s),
           NEW r, NEW c, <<r, "cleanup", c>> \in x.begun, NEW n \in Archives
    PROVE  Ended(x, r, n, c)
<1> SUFFICES ASSUME <<r, n, c>> \in x.exp.jobs PROVE <<r, n, c>> \in x.done
  BY DEF Ended
<1> DEFINE o == Sfs!_get_run_options(s)
<1>1. n \in OtherNames /\ "cleanup" \in OtherNames /\ "globus_arch" \in OtherNames
  BY DEF Archives, OtherNames
<1>2. r = s.net /\ n \in SfsNames(s)
  BY <1>1, SfsFacts
<1>3. /\ n \in {"arch_tars", "globus_arch"}
      /\ "archcom" \in o
      /\ n = "globus_arch" => "globusarch" \in o
  BY <1>2, SfsTaskNames DEF Archives
<1>4. Do(x, r, "archcom") =>
            Task(x, r, IF Do(x, r, "globusarch") THEN "globus_arch" ELSE "arch_tars", c)
  <2>1. Sfs!cleanup(x, s.net, c)
    BY <1>1, SfsWaits
  <2> QED  BY <1>2, <2>1, EnsembleTerms DEF Sfs!cleanup
<1>5. /\ Do(x, r, "archcom") <=> "archcom" \in o
      /\ Do(x, r, "globusarch") <=> "globusarch" \in o
      /\ \A q : Task(x, r, q, c) => <<r, q, c>> \in x.done
  BY <1>2, SfsFacts
<1>6. <<r, "globus_arch", c>> \in x.done => <<r, "arch_tars", c>> \in x.done
  <2> SUFFICES ASSUME <<r, "globus_arch", c>> \in x.begun PROVE Task(x, r, "arch_tars", c)
    BY <1>5 DEF SfsOrdered
  <2>1. Sfs!globus(x, s.net, c)
    BY <1>1, SfsWaits
  <2> QED  BY <1>2, <2>1, EnsembleTerms DEF Sfs!globus
<1> HIDE DEF o
<1> QED  BY <1>3, <1>4, <1>5, <1>6

\* The SFS with an ocean and sea ice: without them its document has ocn_post
\* and ice_post, which nothing ever lets begin, and no archive waits for them.
WithOcean(s) == {"ocean", "ice"} \subseteq Sfs!_get_run_options(s)

\* An archive of the SFS comes after the products of every member.
LEMMA SfsMembersArchived ==
    ASSUME NEW s, EnsembleCase(s), WithOcean(s), NEW x, SfsOrdered(x, s),
           NEW r, NEW c, <<r, "arch_tars", c>> \in x.begun
    PROVE  /\ \A t \in ProductTasks, m \in s.members : Ended(x, r, Mem(t, m), c)
           /\ Ended(x, r, "atmos_ensstat", c) /\ Ended(x, r, "wave_stat", c)
<1> DEFINE o == Sfs!_get_run_options(s)
<1>1. {"arch_tars", "atmos_ensstat", "wave_stat"} \subseteq OtherNames
  BY DEF OtherNames
<1>2. r = s.net
  BY SfsFacts DEF SfsOrdered
<1>3. /\ Meta(x, r, "atmos_post", c)
      /\ Do(x, r, "ice") => Meta(x, r, "ice_prod", c) /\ Meta(x, r, "ice_post", c)
      /\ Do(x, r, "ocean") => Meta(x, r, "ocean_prod", c) /\ Meta(x, r, "ocn_post", c)
      /\ Do(x, r, "wave") => Meta(x, r, "wave_post_grid", c) /\ Meta(x, r, "wave_post_pnt", c)
      /\ Do(x, r, "extractvars") => Meta(x, r, "extractvars", c)
  <2>1. Sfs!arch_tars(x, s.net, c)
    BY <1>1, SfsWaits
  <2> QED  BY <1>2, <2>1, EnsembleTerms DEF Sfs!arch_tars, Sfs!Products
<1>4. /\ \A p : Do(x, r, p) <=> p \in o
      /\ \A t \in Sfs!OfEachMember, m \in s.members :
            Meta(x, r, t, c) => <<r, Mem(t, m), c>> \in x.done
  BY <1>2, SfsFacts
<1>5. \A q \in OtherNames \cup Sfs!OfEachMember :
          q \in SfsNames(s) => /\ q \notin {"atmos_ensstat", "wave_stat"}
                               /\ q \in {"wave_post_grid", "wave_post_pnt"} => "wave" \in o
                               /\ q = "extractvars" => "extractvars" \in o
  BY SfsTaskNames
<1>6. "ocean" \in o /\ "ice" \in o
  BY DEF WithOcean
<1> HIDE DEF o
<1>7. ASSUME NEW t \in ProductTasks, NEW m \in s.members
      PROVE  Ended(x, r, Mem(t, m), c)
  <2> SUFFICES ASSUME <<r, Mem(t, m), c>> \in x.exp.jobs PROVE <<r, Mem(t, m), c>> \in x.done
    BY DEF Ended
  <2>1. t \in MemberTasks
    BY DEF MemberTasks, ProductTasks, Gefs!OfEachMember, Sfs!OfEachMember
  <2>2. t \in Sfs!OfEachMember /\ t \in SfsNames(s)
    BY <2>1, SfsFacts
  <2>3. t \in {"atmos_post", "ocn_post", "ice_post", "ocean_prod", "ice_prod", "wave_post_grid",
               "wave_post_pnt", "extractvars"}
    BY <2>2 DEF ProductTasks, Sfs!OfEachMember
  <2>4. Meta(x, r, t, c)
    BY <1>3, <1>4, <1>5, <1>6, <2>2, <2>3
  <2> QED  BY <1>4, <2>2, <2>4
<1>8. Ended(x, r, "atmos_ensstat", c) /\ Ended(x, r, "wave_stat", c)
  BY <1>1, <1>5, SfsFacts DEF Ended
<1> QED  BY <1>7, <1>8

\* No job of the SFS is one of these.
LEMMA SfsOthers ==
    ASSUME NEW s, EnsembleCase(s), NEW x, SfsOrdered(x, s),
           NEW r, NEW n, NEW c, <<r, n, c>> \in x.begun
    PROVE  /\ n \notin Analyses \cup {"aeroanlvar", "marineanlvar", "marineanlletkf", "marineanlecen"}
           /\ n \notin ForecastJobs \cup MemberJobs
           /\ n # "earc_tars"
<1>1. n \in OtherNames \cup MemberJobs => n \in SfsNames(s)
  BY SfsFacts DEF SfsOrdered
<1>2. Analyses \cup {"aeroanlvar", "marineanlvar", "marineanlletkf", "marineanlecen", "earc_tars"}
          \cup ForecastJobs \cup MemberJobs \subseteq OtherNames \cup MemberJobs
  BY DEF Analyses, OtherNames
<1> QED  BY <1>1, <1>2, SfsTaskNames

\* Without the boundary points of the waves, whose bulletins look up settings
\* of the waves that the application does not read.
LEMMA SfsSourced ==
    ASSUME NEW o, ~{"wave", "wave_bnd"} \subseteq o, NEW t \in Sfs!get_task_names(o)
    PROVE  Sfs!TaskConfigs(t) \subseteq Sfs!_get_app_configs(o)
BY DEF Sfs!get_task_names, Sfs!_get_app_configs, Sfs!TaskConfigs, Sfs!Wave, Sfs!When

-----------------------------------------------------------------------------
(* The GCAFS                                                                  *)
\* The words of the dependencies mean the same in the GCAFS.
LEMMA GcafsTerms ==
    ASSUME NEW x, NEW r, NEW n, NEW c
    PROVE  /\ Gcafs!Task(x, r, n, c) <=> Task(x, r, n, c)
           /\ Gcafs!Meta(x, r, n, c) <=> Meta(x, r, n, c)
           /\ Gcafs!Data(x, r, n, c) <=> Data(x, r, n, c)
           /\ Gcafs!Do(x, r, n) <=> Do(x, r, n)
           /\ Gcafs!Seg(r, n) = Seg(r, n)
           /\ Gcafs!Mem(r, n) = Mem(r, n)
BY DEF Gcafs!Task, Gcafs!Meta, Gcafs!Members, Gcafs!Data, Gcafs!Do, Gcafs!Seg, Gcafs!Mem,
   Task, Meta, Members, Data, Do, Seg, Mem

\* The metatask of the forecast of the GCAFS, and its jobs.
GcafsForecast(s) == IF s.mode = "cycled" THEN "fcst" ELSE Mem("fcst", "000")
LastOf(s, r) == IF r = "gcafs" /\ s.nseg = 2 THEN Gcafs!Seg(GcafsForecast(s), "1")
                ELSE Gcafs!Seg(GcafsForecast(s), "0")
PartsOfRun(s, r) == [n \in {GcafsForecast(s)} |-> {Gcafs!Seg(GcafsForecast(s), "0"), LastOf(s, r)}]
SegmentsOfRun(s, r) == {Gcafs!Seg(GcafsForecast(s), "0"), LastOf(s, r)}

\* Task t of run r is in the document of GCAFS case s at cycle c.
GcafsPlanned(s, r, t, c) ==
    /\ t \in Gcafs!get_task_names(s, Gcafs!_get_run_options(s, r), r)
    /\ \E g \in Gcafs!Cycledefs(s, r, t) : c \in Gcafs!CyclesIn(s, g)

IsGcafs(e, s) == e = Gcafs!Experiment(s)

\* The experiment of the GCAFS and the jobs of its document.
LEMMA GcafsFields ==
    ASSUME NEW s, NEW e, IsGcafs(e, s)
    PROVE  /\ e.mode = s.mode
           /\ DOMAIN e.options = Gcafs!Runs(s)
           /\ \A r \in Gcafs!Runs(s) :
                 /\ e.options[r] = Gcafs!_get_run_options(s, r)
                 /\ e.parts[r] = PartsOfRun(s, r)
           /\ \A j \in e.jobs :
                 /\ j = <<j[1], j[2], j[3]>>
                 /\ j[1] \in Gcafs!Runs(s)
                 /\ \/ j[2] \in SegmentsOfRun(s, j[1]) /\ GcafsPlanned(s, j[1], "fcst", j[3])
                    \/ j[2] # "fcst" /\ GcafsPlanned(s, j[1], j[2], j[3])
<1> DEFINE runs == Gcafs!Runs(s)
           options == [r \in runs |-> Gcafs!_get_run_options(s, r)]
           f == GcafsForecast(s)
           lastSeg == [r \in runs |-> IF r = "gcafs" /\ s.nseg = 2 THEN Gcafs!Seg(f, "1")
                                      ELSE Gcafs!Seg(f, "0")]
           parts == [r \in runs |-> [n \in {f} |-> {Gcafs!Seg(f, "0"), lastSeg[r]}]]
           CyclesOf(r, t) == UNION {Gcafs!CyclesIn(s, g) : g \in Gcafs!Cycledefs(s, r, t)}
           JobsOf(r, t) == {<<r, n, c>> : n \in IF t = "fcst" THEN parts[r][f] ELSE {t},
                                          c \in CyclesOf(r, t)}
<1>1. Gcafs!Mem("fcst", "000") = Mem("fcst", "000")
  BY GcafsTerms
<1>2. /\ e.mode = s.mode /\ e.options = options /\ e.parts = parts
      /\ e.jobs = UNION {UNION {JobsOf(r, t) : t \in Gcafs!get_task_names(s, options[r], r)}
                         : r \in runs}
  BY <1>1 DEF IsGcafs, Gcafs!Experiment, GcafsForecast
<1>3. DOMAIN e.options = runs /\ \A r \in runs : e.options[r] = Gcafs!_get_run_options(s, r)
  BY <1>2
<1>4. \A r \in runs : lastSeg[r] = LastOf(s, r)
  BY DEF LastOf
<1>5. ASSUME NEW r \in runs
      PROVE  /\ parts[r] = PartsOfRun(s, r) /\ parts[r][f] = SegmentsOfRun(s, r)
  BY <1>4 DEF PartsOfRun, SegmentsOfRun
<1>6. \A r \in runs : options[r] = Gcafs!_get_run_options(s, r)
  OBVIOUS
<1>7. ASSUME NEW j \in e.jobs
      PROVE  /\ j = <<j[1], j[2], j[3]>>
             /\ j[1] \in Gcafs!Runs(s)
             /\ \/ j[2] \in SegmentsOfRun(s, j[1]) /\ GcafsPlanned(s, j[1], "fcst", j[3])
                \/ j[2] # "fcst" /\ GcafsPlanned(s, j[1], j[2], j[3])
  <2> HIDE DEF options, parts
  <2>1. PICK r \in runs : j \in UNION {JobsOf(r, t) : t \in Gcafs!get_task_names(s, options[r], r)}
    BY <1>2
  <2>2. PICK t \in Gcafs!get_task_names(s, Gcafs!_get_run_options(s, r), r) : j \in JobsOf(r, t)
    BY <1>6, <2>1
  <2>3. /\ j = <<r, j[2], j[3]>>
        /\ j[2] \in IF t = "fcst" THEN parts[r][f] ELSE {t}
        /\ j[3] \in CyclesOf(r, t)
    BY <2>2
  <2>4. GcafsPlanned(s, r, t, j[3])
    BY <2>2, <2>3 DEF GcafsPlanned
  <2>5. CASE t = "fcst"
    BY <1>5, <2>3, <2>4, <2>5
  <2>6. CASE t # "fcst"
    BY <2>3, <2>4, <2>6
  <2> QED  BY <2>5, <2>6
<1> HIDE DEF parts, options
<1>8. \A r \in runs : e.parts[r] = PartsOfRun(s, r)
  BY <1>2, <1>5
<1> QED  BY <1>2, <1>3, <1>7, <1>8

GcafsSegments == {"fcst_seg0", "fcst_seg1", "fcst_mem000_seg0", "fcst_mem000_seg1"}

GcafsOrdered(x, s) ==
    /\ IsGcafs(x.exp, s)
    /\ x.done \subseteq x.begun /\ x.begun \subseteq x.exp.jobs
    /\ \A r, n, c : <<r, n, c>> \in x.begun => Gcafs!TaskReady(x, r, n, c)

\* The jobs of a forecast of the GCAFS.
LEMMA GcafsSegmentNames ==
    ASSUME NEW s, NEW r
    PROVE  /\ s.mode = "cycled" => /\ SegmentsOfRun(s, r) \subseteq ForecastJobs
                                   /\ "fcst_seg0" \in SegmentsOfRun(s, r)
           /\ s.mode # "cycled" =>
                 SegmentsOfRun(s, r) \subseteq {"fcst_mem000_seg0", "fcst_mem000_seg1"}
BY SegmentNames, GcafsTerms DEF SegmentsOfRun, LastOf, GcafsForecast, ForecastJobs

\* A job of a forecast-only experiment is none of those of the analysis, of the
\* archive or of the cleanup.
LEMMA GcafsJobs ==
    ASSUME NEW s, GcafsCase(s), NEW e, IsGcafs(e, s), NEW r, NEW n, NEW c, <<r, n,
           c>> \in e.jobs
    PROVE  /\ r \in Gcafs!Runs(s) /\ r \in {"gcdas", "gcafs"}
           /\ n \notin GcafsSegments => n # "fcst" /\ GcafsPlanned(s, r, n, c)
           /\ n \in ForecastJobs => s.mode = "cycled" /\ GcafsPlanned(s, r, "fcst", c)
           /\ s.mode # "cycled" => n \in {"stage_ic", "atmos_prod", "prep_emissions",
                 "aerosol_init", "fcst_mem000_seg0", "fcst_mem000_seg1"}
<1> DEFINE j == <<r, n, c>>
<1>1. /\ j[1] \in Gcafs!Runs(s)
      /\ \/ j[2] \in SegmentsOfRun(s, j[1]) /\ GcafsPlanned(s, j[1], "fcst", j[3])
         \/ j[2] # "fcst" /\ GcafsPlanned(s, j[1], j[2], j[3])
  <2>1. j \in e.jobs
    OBVIOUS
  <2> HIDE DEF j
  <2> QED  BY <2>1, GcafsFields
<1>2. /\ r \in Gcafs!Runs(s)
      /\ \/ n \in SegmentsOfRun(s, r) /\ GcafsPlanned(s, r, "fcst", c)
         \/ n # "fcst" /\ GcafsPlanned(s, r, n, c)
  BY <1>1
<1>3. r \in {"gcdas", "gcafs"}
  BY <1>2 DEF Gcafs!Runs, Gcafs!When
<1>4. GcafsPlanned(s, r, n, c) => n \notin GcafsSegments
  BY DEF GcafsPlanned, Gcafs!get_task_names, Gcafs!CycledTasks, Gcafs!GcdasTasks,
     Gcafs!ForecastOnlyTasks, Gcafs!When, GcafsSegments
<1>5. GcafsPlanned(s, r, n, c) /\ n # "fcst" /\ s.mode # "cycled"
          => n \in {"stage_ic", "atmos_prod", "prep_emissions", "aerosol_init"}
  BY DEF GcafsPlanned, Gcafs!get_task_names, Gcafs!ForecastOnlyTasks, Gcafs!When
<1>6. SegmentsOfRun(s, r) \subseteq GcafsSegments
  BY GcafsSegmentNames DEF GcafsSegments, ForecastJobs
<1>7. n \in ForecastJobs => n \in GcafsSegments
  BY DEF GcafsSegments, ForecastJobs
<1>8. n \in ForecastJobs /\ n \in SegmentsOfRun(s, r) => s.mode = "cycled"
  BY GcafsSegmentNames DEF ForecastJobs
<1> QED  BY <1>2, <1>3, <1>4, <1>5, <1>6, <1>7, <1>8, GcafsSegmentNames

\* What a dependency of a cycled experiment says of its jobs.
LEMMA GcafsEnded ==
    ASSUME NEW s, s.mode = "cycled", NEW x, GcafsOrdered(x, s), NEW r \in Gcafs!Runs(s),
           NEW c
    PROVE  /\ \A n : Task(x, r, n, c) => <<r, n, c>> \in x.done
           /\ \A n : Meta(x, r, n, c) /\ n # "fcst" => <<r, n, c>> \in x.done
           /\ Meta(x, r, "fcst", c) => <<r, "fcst_seg0", c>> \in x.done
           /\ \A p : Do(x, r, p) <=> p \in Gcafs!_get_run_options(s, r)
           /\ x.exp.mode = "cycled"
<1> DEFINE e == x.exp
<1>1. IsGcafs(e, s)
  BY DEF GcafsOrdered
<1> HIDE DEF e
<1>2. /\ e.options[r] = Gcafs!_get_run_options(s, r)
      /\ e.parts[r] = PartsOfRun(s, r)
      /\ e.mode = s.mode
  BY <1>1, GcafsFields
<1>3. DOMAIN e.parts[r] = {"fcst"} /\ e.parts[r]["fcst"] = SegmentsOfRun(s, r)
  BY <1>2 DEF PartsOfRun, SegmentsOfRun, GcafsForecast
<1>4. /\ \A n : n # "fcst" => n \in Members(e, r, n)
      /\ "fcst_seg0" \in Members(e, r, "fcst")
  BY <1>3, GcafsSegmentNames DEF Members
<1> QED  BY <1>2, <1>4 DEF e, Task, Meta, Do

\* The dependency of each job that has begun is that of its own task.
LEMMA GcafsWaits ==
    ASSUME NEW s, GcafsCase(s), NEW x, GcafsOrdered(x, s), NEW r, NEW c
    PROVE  /\ <<r, "aeroanlgenb", c>> \in x.begun => Gcafs!aeroanlgenb(x, r, c)
           /\ <<r, "aeroanlinit", c>> \in x.begun => Gcafs!aeroanlinit(x, r, c)
           /\ <<r, "aeroanlvar", c>> \in x.begun => Gcafs!aeroanlvar(x, r, c)
           /\ <<r, "aeroanlfinal", c>> \in x.begun => Gcafs!aeroanlfinal(x, r, c)
           /\ <<r, "analcalc", c>> \in x.begun => Gcafs!analcalc(x, r, c)
           /\ <<r, "atmanlupp", c>> \in x.begun => Gcafs!atmanlupp(x, r, c)
           /\ <<r, "atmanlprod", c>> \in x.begun => Gcafs!atmanlprod(x, r, c)
           /\ <<r, "arch_tars", c>> \in x.begun => Gcafs!arch_tars(x, r, c)
           /\ <<r, "cleanup", c>> \in x.begun => Gcafs!cleanup(x, r, c)
           /\ \A n \in ForecastJobs : <<r, n, c>> \in x.begun => Gcafs!fcst(x, r, n, c)
<1>1. ASSUME NEW n, n \notin GcafsSegments, <<r, n, c>> \in x.begun
      PROVE  \A m \in DOMAIN x.exp.parts[r] : n \notin x.exp.parts[r][m]
  <2> DEFINE e == x.exp
  <2>1. IsGcafs(e, s) /\ <<r, n, c>> \in e.jobs
    BY <1>1 DEF GcafsOrdered
  <2> HIDE DEF e
  <2>2. r \in Gcafs!Runs(s)
    BY <2>1, GcafsJobs
  <2>3. e.parts[r] = PartsOfRun(s, r)
    BY <2>1, <2>2, GcafsFields
  <2>4. \A m \in DOMAIN e.parts[r] : e.parts[r][m] = SegmentsOfRun(s, r)
    BY <2>3 DEF PartsOfRun, SegmentsOfRun
  <2>5. n \notin SegmentsOfRun(s, r)
    BY <1>1, GcafsSegmentNames DEF GcafsSegments, ForecastJobs
  <2> QED  BY <2>4, <2>5 DEF e
<1>2. \A n : <<r, n, c>> \in x.begun => Gcafs!TaskReady(x, r, n, c)
  BY DEF GcafsOrdered
<1>3. \A n \in ForecastJobs : <<r, n, c>> \in x.begun => Gcafs!fcst(x, r, n, c)
  BY <1>2 DEF Gcafs!TaskReady, ForecastJobs
<1> QED  BY <1>1, <1>2, <1>3 DEF Gcafs!TaskReady, GcafsSegments

\* A job of the cycle of an experiment whose run is gcdas or gcafs is in a
\* cycled experiment when it is one of an analysis, an archive or a cleanup.
LEMMA GcafsCycled ==
    ASSUME NEW s, GcafsCase(s), NEW x, GcafsOrdered(x, s), NEW r, NEW n, NEW c,
           <<r, n, c>> \in x.exp.jobs,
           n \notin {"stage_ic", "atmos_prod", "prep_emissions", "aerosol_init",
                     "fcst_mem000_seg0", "fcst_mem000_seg1"}
    PROVE  s.mode = "cycled" /\ r \in Gcafs!Runs(s) /\ "gcdas" \in Gcafs!Runs(s)
<1> DEFINE e == x.exp
<1>1. IsGcafs(e, s) /\ <<r, n, c>> \in e.jobs
  BY DEF GcafsOrdered
<1> HIDE DEF e
<1>2. s.mode = "cycled" /\ r \in Gcafs!Runs(s)
  BY <1>1, GcafsJobs
<1> QED  BY <1>2 DEF Gcafs!Runs, Gcafs!When

\* A job that is no forecast is a task of its run.
LEMMA GcafsInDocument ==
    ASSUME NEW s, GcafsCase(s), NEW x, GcafsOrdered(x, s), NEW r, NEW n, NEW c,
           <<r, n, c>> \in x.exp.jobs, n \notin GcafsSegments
    PROVE  n \in Gcafs!get_task_names(s, Gcafs!_get_run_options(s, r), r)
<1> DEFINE e == x.exp
<1>1. IsGcafs(e, s) /\ <<r, n, c>> \in e.jobs
  BY DEF GcafsOrdered
<1> HIDE DEF e
<1> QED  BY <1>1, GcafsJobs DEF GcafsPlanned

\* A cleanup of the GCAFS comes after the archives of its run and cycle.
LEMMA GcafsCleanup ==
    ASSUME NEW s, GcafsCase(s), NEW x, GcafsOrdered(x, s),
           NEW r, NEW c, <<r, "cleanup", c>> \in x.begun, NEW n \in Archives
    PROVE  Ended(x, r, n, c)
<1> SUFFICES ASSUME <<r, n, c>> \in x.exp.jobs PROVE <<r, n, c>> \in x.done
  BY DEF Ended
<1>1. s.mode = "cycled" /\ r \in Gcafs!Runs(s)
  BY GcafsCycled DEF GcafsOrdered
<1>2. n \in Gcafs!get_task_names(s, Gcafs!_get_run_options(s, r), r)
  BY GcafsInDocument DEF Archives, Gefs!BareGlobus, GcafsSegments
<1>3. /\ n \in {"arch_vrfy", "arch_tars"}
      /\ n = "arch_tars" => "archcom" \in Gcafs!_get_run_options(s, r)
  BY <1>1, <1>2 DEF Gcafs!get_task_names, Gcafs!CycledTasks, Gcafs!GcdasTasks, Gcafs!When,
     Archives, Gefs!BareGlobus
<1>4. /\ Task(x, r, "arch_vrfy", c)
      /\ Do(x, r, "archcom") =>
            Task(x, r, IF Do(x, r, "globusarch") THEN "globus_arch" ELSE "arch_tars", c)
  BY GcafsWaits, GcafsTerms DEF Gcafs!cleanup
<1>5. /\ \A q : Task(x, r, q, c) => <<r, q, c>> \in x.done
      /\ \A p : Do(x, r, p) <=> p \in Gcafs!_get_run_options(s, r)
  BY <1>1, GcafsEnded
<1>6. <<r, "globus_arch", c>> \notin x.done
  <2> SUFFICES ASSUME <<r, "globus_arch", c>> \in x.exp.jobs PROVE FALSE
    BY DEF GcafsOrdered
  <2>1. "globus_arch" \in Gcafs!get_task_names(s, Gcafs!_get_run_options(s, r), r)
    BY GcafsInDocument DEF GcafsSegments
  <2> QED
    BY <1>1, <2>1 DEF Gcafs!get_task_names, Gcafs!CycledTasks, Gcafs!GcdasTasks, Gcafs!When
<1> QED  BY <1>3, <1>4, <1>5, <1>6

\* What the jobs of the analysis of the aerosols waited for, one by one.
LEMMA GcafsAnalysis ==
    ASSUME NEW s, GcafsCase(s), s.mode = "cycled", NEW x, GcafsOrdered(x, s),
           NEW r \in Gcafs!Runs(s), NEW c
    PROVE  /\ <<r, "aeroanlgenb", c>> \in x.begun => <<r, "fcst_seg0", c>> \in x.done
           /\ <<r, "aeroanlinit", c>> \in x.begun => <<"gcdas", "aeroanlgenb", c - 1>> \in x.done
           /\ <<r, "aeroanlvar", c>> \in x.begun => <<r, "aeroanlinit", c>> \in x.done
           /\ <<r, "aeroanlfinal", c>> \in x.begun =>
                 <<r, "aeroanlvar", c>> \in x.done /\ <<r, "sfcanl_gcycle", c>> \in x.done
           /\ <<r, "analcalc", c>> \in x.begun => <<r, "aeroanlfinal", c>> \in x.done
           /\ <<r, "atmanlupp", c>> \in x.begun => <<r, "analcalc", c>> \in x.done
           /\ <<r, "atmanlprod", c>> \in x.begun => <<r, "atmanlupp", c>> \in x.begun
<1>1. "gcdas" \in Gcafs!Runs(s)
  BY DEF GcafsCase, Gcafs!Runs
<1>2. <<r, "aeroanlgenb", c>> \in x.begun => <<r, "fcst_seg0", c>> \in x.done
  BY GcafsWaits, GcafsEnded, GcafsTerms DEF Gcafs!aeroanlgenb
<1>3. <<r, "aeroanlinit", c>> \in x.begun => <<"gcdas", "aeroanlgenb", c - 1>> \in x.done
  <2> DEFINE b == c - 1
  <2> SUFFICES ASSUME <<r, "aeroanlinit", c>> \in x.begun
               PROVE  <<"gcdas", "aeroanlgenb", b>> \in x.done
    OBVIOUS
  <2>1. Gcafs!Task(x, "gcdas", "aeroanlgenb", b)
    BY GcafsWaits DEF Gcafs!aeroanlinit
  <2> HIDE DEF b
  <2> QED  BY <1>1, <2>1, GcafsEnded, GcafsTerms
<1>4. <<r, "aeroanlvar", c>> \in x.begun => <<r, "aeroanlinit", c>> \in x.done
  BY GcafsWaits, GcafsEnded, GcafsTerms DEF Gcafs!aeroanlvar
<1>5. <<r, "aeroanlfinal", c>> \in x.begun =>
          <<r, "aeroanlvar", c>> \in x.done /\ <<r, "sfcanl_gcycle", c>> \in x.done
  BY GcafsWaits, GcafsEnded, GcafsTerms DEF Gcafs!aeroanlfinal
<1>6. <<r, "analcalc", c>> \in x.begun => <<r, "aeroanlfinal", c>> \in x.done
  BY GcafsWaits, GcafsEnded, GcafsTerms DEF Gcafs!analcalc
<1>7. <<r, "atmanlupp", c>> \in x.begun => <<r, "analcalc", c>> \in x.done
  BY GcafsWaits, GcafsEnded, GcafsTerms DEF Gcafs!atmanlupp
<1>8. <<r, "atmanlprod", c>> \in x.begun => <<r, "atmanlupp", c>> \in x.begun
  BY GcafsWaits, GcafsTerms DEF Gcafs!atmanlprod, Data
<1> QED  BY <1>2, <1>3, <1>4, <1>5, <1>6, <1>7, <1>8

\* An analysis of the aerosols comes after its background.
LEMMA GcafsBackground ==
    ASSUME NEW s, GcafsCase(s), NEW x, GcafsOrdered(x, s),
           NEW r, NEW c, <<r, "aeroanlvar", c>> \in x.begun
    PROVE  \A n \in {"fcst_seg0", "aeroanlgenb"} : Ended(x, "gcdas", n, c - 1)
<1> DEFINE b == c - 1
<1>1. s.mode = "cycled" /\ r \in Gcafs!Runs(s) /\ "gcdas" \in Gcafs!Runs(s)
  BY GcafsCycled DEF GcafsOrdered
<1>2. <<r, "aeroanlinit", c>> \in x.begun
  BY <1>1, GcafsAnalysis DEF GcafsOrdered
<1>3. <<"gcdas", "aeroanlgenb", b>> \in x.done
  BY <1>1, <1>2, GcafsAnalysis
<1> HIDE DEF b
<1>4. <<"gcdas", "fcst_seg0", b>> \in x.done
  BY <1>1, <1>3, GcafsAnalysis DEF GcafsOrdered
<1> QED  BY <1>3, <1>4 DEF Ended, b

\* With use_aero_anl in the runs whose aerosols are analysed: without it the
\* forecasts take no increments of the aerosols.
UsesAerosols(s) ==
    "aero_anl" \in Gcafs!_get_run_options(s, "gcdas") => "use_aero_anl" \in s.switches

\* A forecast of the GCAFS comes after the increments of the gcdas.
LEMMA GcafsIncrements ==
    ASSUME NEW s, GcafsCase(s), UsesAerosols(s), NEW x, GcafsOrdered(x, s),
           NEW r, NEW n \in ForecastJobs, NEW c, <<r, n, c>> \in x.begun,
           NEW t \in Increments
    PROVE  Ended(x, "gcdas", t, c)
<1> SUFFICES ASSUME <<"gcdas", t, c>> \in x.exp.jobs PROVE <<"gcdas", t, c>> \in x.done
  BY DEF Ended
<1> DEFINE o == Gcafs!_get_run_options(s, "gcdas")
<1>1. s.mode = "cycled" /\ r \in Gcafs!Runs(s) /\ "gcdas" \in Gcafs!Runs(s)
  BY GcafsCycled DEF GcafsOrdered, ForecastJobs
<1>2. t \in Gcafs!get_task_names(s, o, "gcdas") /\ GcafsPlanned(s, "gcdas", t, c)
  <2> DEFINE e == x.exp
  <2>1. IsGcafs(e, s) /\ <<"gcdas", t, c>> \in e.jobs
    BY DEF GcafsOrdered
  <2> HIDE DEF e
  <2> QED  BY <2>1, GcafsJobs DEF GcafsPlanned, Increments, GcafsSegments
<1>3. /\ t \in {"sfcanl_gcycle", "aeroanlfinal"}
      /\ t = "aeroanlfinal" => "aero_anl" \in o
  BY <1>1, <1>2 DEF Gcafs!get_task_names, Gcafs!CycledTasks, Gcafs!GcdasTasks, Gcafs!When,
     Increments
<1>4. c # 0
  <2>1. Gcafs!Cycledefs(s, "gcdas", t) = {"gcdas"}
    BY <1>3 DEF Gcafs!Cycledefs
  <2>2. c \in 1 .. s.last
    BY <1>1, <1>2, <2>1 DEF GcafsPlanned, Gcafs!CyclesIn
  <2> QED  BY <2>2 DEF GcafsCase
<1>5. <<"gcdas", "stage_ic", c>> \notin x.done
  <2> SUFFICES ASSUME <<"gcdas", "stage_ic", c>> \in x.exp.jobs PROVE FALSE
    BY DEF GcafsOrdered
  <2> DEFINE e == x.exp
  <2>1. IsGcafs(e, s) /\ <<"gcdas", "stage_ic", c>> \in e.jobs
    BY DEF GcafsOrdered
  <2> HIDE DEF e
  <2>2. GcafsPlanned(s, "gcdas", "stage_ic", c)
    BY <2>1, GcafsJobs DEF GcafsSegments
  <2>3. Gcafs!Cycledefs(s, "gcdas", "stage_ic") = {"gcdas_half"}
    BY DEF Gcafs!Cycledefs
  <2> QED  BY <1>1, <1>4, <2>2, <2>3 DEF GcafsPlanned, Gcafs!CyclesIn
<1>6. \/ /\ Task(x, "gcdas", "sfcanl_gcycle", c)
         /\ Do(x, r, "use_aero_anl") => Task(x, "gcdas", "aeroanlfinal", c)
      \/ r = "gcdas" /\ Task(x, r, "stage_ic", c)
  <2>1. Gcafs!fcst(x, r, n, c)
    BY GcafsWaits
  <2>2. x.exp.mode = "cycled"
    BY <1>1, GcafsEnded
  <2> QED  BY <2>1, <2>2, GcafsTerms DEF Gcafs!fcst, Gcafs!_fcst_cycled
<1>7. \A q : Task(x, "gcdas", q, c) => <<"gcdas", q, c>> \in x.done
  BY <1>1, GcafsEnded
<1>8. "aero_anl" \in o => Do(x, r, "use_aero_anl")
  <2>1. "use_aero_anl" \in s.switches => "use_aero_anl" \in Gcafs!_get_run_options(s, r)
    BY DEF Gcafs!_get_run_options
  <2> QED  BY <1>1, <2>1, GcafsEnded DEF UsesAerosols
<1> HIDE DEF o
<1> QED  BY <1>3, <1>5, <1>6, <1>7, <1>8

\* An archive of the GCAFS comes after what it requires.
LEMMA GcafsFilesMade ==
    ASSUME NEW s, GcafsCase(s), NEW x, GcafsOrdered(x, s),
           NEW r, NEW c, <<r, "arch_tars", c>> \in x.begun,
           NEW n \in Gcafs!RequiredFiles(Gcafs!_get_run_options(s, r), r),
           n \notin NotAwaited
    PROVE  Ended(x, r, n, c)
<1> DEFINE o == Gcafs!_get_run_options(s, r)
<1>1. s.mode = "cycled" /\ r \in Gcafs!Runs(s)
  BY GcafsCycled DEF GcafsOrdered
<1>2. /\ \A q : Task(x, r, q, c) => <<r, q, c>> \in x.done
      /\ Meta(x, r, "atmos_prod", c) => <<r, "atmos_prod", c>> \in x.done
      /\ \A p : Do(x, r, p) <=> p \in o
      /\ x.exp.mode = "cycled"
  BY <1>1, GcafsEnded
<1>3. /\ Meta(x, r, "atmos_prod", c)
      /\ r = "gcdas" /\ "aero_anl" \in o => Task(x, r, "atmanlprod", c)
  <2>1. Gcafs!arch_tars(x, r, c)
    BY GcafsWaits
  <2> QED  BY <1>2, <2>1, GcafsTerms DEF Gcafs!arch_tars
<1>4. \/ n = "atmos_prod"
      \/ /\ r = "gcdas" /\ "aero_anl" \in o
         /\ n \in {"aeroanlinit", "aeroanlvar", "aeroanlfinal", "analcalc", "atmanlprod"}
  BY DEF Gcafs!RequiredFiles, Gcafs!When, NotAwaited
<1>5. x.done \subseteq x.begun
  BY DEF GcafsOrdered
<1>6. ASSUME <<r, "atmanlprod", c>> \in x.done
      PROVE  /\ <<r, "analcalc", c>> \in x.done /\ <<r, "aeroanlfinal", c>> \in x.done
             /\ <<r, "aeroanlvar", c>> \in x.done /\ <<r, "aeroanlinit", c>> \in x.done
  BY <1>1, <1>5, <1>6, GcafsAnalysis
<1> HIDE DEF o
<1> QED  BY <1>2, <1>3, <1>4, <1>6 DEF Ended

\* No job of the GCAFS is one of these.
LEMMA GcafsOthers ==
    ASSUME NEW s, GcafsCase(s), NEW x, GcafsOrdered(x, s),
           NEW r, NEW n, NEW c, <<r, n, c>> \in x.begun
    PROVE  /\ n \notin Analyses \cup {"marineanlvar", "marineanlletkf", "marineanlecen"}
           /\ n \notin MemberJobs /\ n # "earc_tars"
<1> SUFFICES ASSUME n \in Analyses \cup MemberJobs
                         \cup {"marineanlvar", "marineanlletkf", "marineanlecen", "earc_tars"}
             PROVE  FALSE
  OBVIOUS
<1>1. <<r, n, c>> \in x.exp.jobs
  BY DEF GcafsOrdered
<1>2. s.mode = "cycled"
  BY <1>1, GcafsCycled, MembersAssumption DEF Analyses, JobsOfNoMember
<1>3. n \in Gcafs!get_task_names(s, Gcafs!_get_run_options(s, r), r)
  BY <1>1, GcafsInDocument, MembersAssumption DEF Analyses, JobsOfNoMember, GcafsSegments
<1> QED
  BY <1>2, <1>3, MembersAssumption DEF Gcafs!get_task_names, Gcafs!CycledTasks,
     Gcafs!GcdasTasks, Gcafs!When,
     Analyses, JobsOfNoMember

\* Every task of the GCAFS finds its settings.
LEMMA GcafsSourced ==
    ASSUME NEW s, GcafsCase(s), NEW r \in Gcafs!Runs(s), NEW o,
           o = Gcafs!_get_run_options(s, r), NEW t \in Gcafs!get_task_names(s, o, r)
    PROVE  Gcafs!TaskConfigs(t) \subseteq Gcafs!_get_app_configs(s, o)
<1>1. CASE s.mode = "cycled"
  BY <1>1 DEF Gcafs!get_task_names, Gcafs!CycledTasks, Gcafs!GcdasTasks,
     Gcafs!CycledConfigs,
     Gcafs!_get_app_configs, Gcafs!TaskConfigs, Gcafs!When
<1>2. CASE s.mode # "cycled"
  BY <1>2 DEF Gcafs!get_task_names, Gcafs!ForecastOnlyTasks, Gcafs!ForecastOnlyConfigs,
     Gcafs!_get_app_configs, Gcafs!TaskConfigs, Gcafs!When
<1> QED  BY <1>1, <1>2

-----------------------------------------------------------------------------
(* The properties of Workflow                                                 *)
\* The engine runs the documents that the generator writes.
Generated ==
    /\ Experiments \subseteq DOMAIN Cases
    /\ \A e \in Experiments : Jobs(e) = WorkflowJobs(e)
    /\ \A e \in Experiments : \A j, D, B : Ready(e, j, D, B) <=> WorkflowReady(e, j, D, B)

\* The dependencies that the task generator writes for the four systems are
\* monotone: what they say of jobs they never negate, whatever is combined in
\* them, so that DependenciesHold is about them.
THEOREM GeneratedMonotone ==
    ASSUME Generated
    PROVE  \A e \in Experiments : Monotone(e)
BY ReadyMonotone DEF Generated, Monotone

\* Whatever is late, no job of the four systems begins before what its task
\* depends on, and what it depended on goes on to hold.
THEOREM WorkflowDependenciesHold ==
    ASSUME Generated
    PROVE  Spec => []BegunReady
BY GeneratedMonotone, DependenciesHold

\* What the dependencies of the running experiment see.
State == [exp |-> Experiment[exp], done |-> done, begun |-> begun]
CaseOf == Cases[exp]

\* The case of the experiment is one that a user may set up.
LEMMA CasesMeant ==
    ASSUME Generated, TypeOK
    PROVE  /\ \/ CaseOf.net = "gfs" /\ GfsCase(CaseOf)
              \/ CaseOf.net \in {"gefs", "sfs"} /\ EnsembleCase(CaseOf)
              \/ CaseOf.net = "gcafs" /\ GcafsCase(CaseOf)
           /\ Experiment[exp] = ExperimentOf(CaseOf)
BY CasesAssumption DEF Generated, TypeOK, CaseOf, Experiment

\* State is the state of the engine.
LEMMA StateFields ==
    /\ State.exp = Experiment[exp] /\ State.done = done /\ State.begun = begun
    /\ State.exp.jobs = WorkflowJobs(exp)
BY DEF State, WorkflowJobs

\* What a job waited for, in the words of its system.
LEMMA JobsWaited ==
    ASSUME Generated, TypeOK, BegunReady, NEW r, NEW n, NEW c, <<r, n, c>> \in begun
    PROVE  /\ CaseOf.net = "gfs" => GfsReady(State, r, n, c)
           /\ CaseOf.net = "gefs" => Gefs!TaskReady(State, r, n, c)
           /\ CaseOf.net = "sfs" => Sfs!TaskReady(State, r, n, c)
           /\ CaseOf.net = "gcafs" => Gcafs!TaskReady(State, r, n, c)
<1>1. WorkflowReady(exp, <<r, n, c>>, done, begun)
  BY DEF Generated, TypeOK, BegunReady
<1> QED  BY <1>1 DEF WorkflowReady, State, CaseOf

\* In every state that the engine reaches the jobs that have begun are in the
\* document and their dependencies hold.
LEMMA StateOrdered ==
    ASSUME Generated, TypeOK, BegunReady
    PROVE  /\ CaseOf.net = "gfs" => GfsCase(CaseOf) /\ Ordered(State, CaseOf)
           /\ CaseOf.net = "gefs" => EnsembleCase(CaseOf) /\ GefsOrdered(State, CaseOf)
           /\ CaseOf.net = "sfs" => EnsembleCase(CaseOf) /\ SfsOrdered(State, CaseOf)
           /\ CaseOf.net = "gcafs" => GcafsCase(CaseOf) /\ GcafsOrdered(State, CaseOf)
           /\ CaseOf.net \in {"gfs", "gefs", "sfs", "gcafs"}
<1>1. /\ State.done \subseteq State.begun /\ State.begun \subseteq State.exp.jobs
      /\ State.begun = begun /\ State.exp = ExperimentOf(CaseOf)
  BY StateFields, CasesMeant DEF TypeOK, Generated
<1>2. /\ CaseOf.net = "gfs" => State.exp = GfsExperiment(CaseOf)
      /\ CaseOf.net = "gefs" => State.exp = Gefs!Experiment(CaseOf)
      /\ CaseOf.net = "sfs" => State.exp = Sfs!Experiment(CaseOf)
      /\ CaseOf.net = "gcafs" => IsGcafs(State.exp, CaseOf)
  BY <1>1 DEF ExperimentOf, IsGcafs
<1> QED
  BY <1>1, <1>2, CasesMeant, JobsWaited DEF Ordered, GefsOrdered, SfsOrdered, GcafsOrdered

\* The jobs of every document are named by run, name and cycle.
LEMMA JobsAreTriples ==
    ASSUME Generated, TypeOK, BegunReady, NEW j \in begun
    PROVE  j = <<j[1], j[2], j[3]>> /\ j \in State.exp.jobs
<1>1. j \in State.exp.jobs
  BY StateFields DEF TypeOK, Generated
<1> DEFINE e == State.exp
           s == CaseOf
<1>2. CASE s.net = "gfs"
  BY <1>1, <1>2, StateOrdered, GfsDocument DEF Ordered
<1>3. CASE s.net = "gefs"
  <2>1. IsEnsemble(e, s, Gefs!_get_run_options(s), Gefs!OfEachMember, GefsNames(s))
    BY <1>3, StateOrdered, GefsEnsemble DEF GefsOrdered
  <2> HIDE DEF e
  <2>2. Gefs!OfEachMember \in SUBSET MemberTasks
    BY DEF MemberTasks
  <2>3. EnsembleCase(s) /\ j \in e.jobs
    BY <1>1, <1>3, StateOrdered DEF e
  <2> HIDE DEF s
  <2> QED  BY <1>1, <2>1, <2>2, <2>3, EnsembleDocument
<1>4. CASE s.net = "sfs"
  <2>1. IsEnsemble(e, s, Sfs!_get_run_options(s), Sfs!OfEachMember, SfsNames(s))
    BY <1>4, StateOrdered, SfsEnsemble DEF SfsOrdered
  <2> HIDE DEF e
  <2>2. Sfs!OfEachMember \in SUBSET MemberTasks
    BY DEF MemberTasks
  <2>3. EnsembleCase(s) /\ j \in e.jobs
    BY <1>1, <1>4, StateOrdered DEF e
  <2> HIDE DEF s
  <2> QED  BY <1>1, <2>1, <2>2, <2>3, EnsembleDocument
<1>5. CASE s.net = "gcafs"
  <2>1. IsGcafs(e, s) /\ j \in e.jobs
    BY <1>1, <1>5, StateOrdered DEF GcafsOrdered
  <2> HIDE DEF e, s
  <2> QED  BY <1>1, <2>1, GcafsFields
<1> QED  BY <1>1, <1>2, <1>3, <1>4, <1>5, StateOrdered

NoneUndone(r, T, c) == \A n \in T : Ended(State, r, n, c)

\* Of jobs that are all done or not there, none is undone.
LEMMA UndoneEmpty ==
    ASSUME NEW r, NEW T, NEW c, NoneUndone(r, T, c)
    PROVE  Undone(r, T, c) = {}
BY StateFields DEF NoneUndone, Ended, Undone

\* CleanupAfterArchives, system by system.
LEMMA CleanupState ==
    ASSUME Generated, TypeOK, BegunReady
    PROVE  CleanupAfterArchives
<1> SUFFICES ASSUME NEW j \in begun, j[2] = "cleanup"
             PROVE  NoneUndone(j[1], Archives, j[3])
  BY UndoneEmpty DEF CleanupAfterArchives
<1>1. <<j[1], "cleanup", j[3]>> \in State.begun
  BY JobsAreTriples, StateFields
<1> QED
  BY <1>1, StateOrdered, GfsCleanup, GefsCleanup, SfsCleanup, GcafsCleanup DEF NoneUndone

\* The archives before the cleanup.
THEOREM CleanupIsLast ==
    ASSUME Generated
    PROVE  Spec => []CleanupAfterArchives
<1>1. TypeOK /\ BegunReady => CleanupAfterArchives
  BY CleanupState
<1> QED  BY <1>1, TypeCorrect, WorkflowDependenciesHold, PTL

\* The options of the run of a job.
LEMMA OptionsOfRun ==
    ASSUME Generated, TypeOK, BegunReady, NEW j \in begun
    PROVE  /\ CaseOf.net = "gfs" =>
                 j[1] \in Runs(CaseOf) /\ Options(j[1]) = RunOptions(CaseOf, j[1])
           /\ CaseOf.net = "gcafs" => /\ j[1] \in Gcafs!Runs(CaseOf)
                                      /\ Options(j[1]) = Gcafs!_get_run_options(CaseOf, j[1])
<1> DEFINE e == State.exp
           s == CaseOf
<1>1. j = <<j[1], j[2], j[3]>> /\ j \in e.jobs /\ Options(j[1]) = e.options[j[1]]
  BY JobsAreTriples, StateFields DEF Options
<1>2. CASE s.net = "gfs"
  <2>1. e = GfsExperiment(s) /\ s.members \subseteq MemberJobs
    BY <1>2, StateOrdered DEF Ordered, GfsCase
  <2>2. j[1] \in Runs(s)
    BY <1>1, <2>1, GfsDocument DEF InGfs
  <2>3. e.options = [r \in Runs(s) |-> RunOptions(s, r)]
    BY <2>1, GfsFields
  <2> QED  BY <1>1, <1>2, <2>2, <2>3
<1>3. CASE s.net = "gcafs"
  <2>1. IsGcafs(e, s) /\ j \in e.jobs
    BY <1>1, <1>3, StateOrdered DEF GcafsOrdered
  <2> HIDE DEF e, s
  <2>2. j[1] \in Gcafs!Runs(s) /\ e.options[j[1]] = Gcafs!_get_run_options(s, j[1])
    BY <2>1, GcafsFields
  <2> QED  BY <1>1, <1>3, <2>2 DEF s
<1> QED  BY <1>2, <1>3

\* AnalysesHaveBackground, system by system.
LEMMA BackgroundState ==
    ASSUME Generated, TypeOK, BegunReady
    PROVE  AnalysesHaveBackground
<1> SUFFICES ASSUME NEW j \in begun
             PROVE  /\ j[2] \in Analyses =>
                          /\ Undone("gdas", {"atmos_prod"}, j[3] - 1) = {}
                          /\ IsEnkf(j[1]) \/ "hybvar" \in Options(j[1]) =>
                                Undone("enkfgdas", MemberJobs \cup {"epmn"}, j[3] - 1) = {}
                    /\ j[2] = "aeroanlvar" =>
                          Undone(Cycling, {"fcst_seg0", "aeroanlgenb"}, j[3] - 1) = {}
  BY DEF AnalysesHaveBackground
<1>1. <<j[1], j[2], j[3]>> \in State.begun
  BY JobsAreTriples, StateFields
<1> DEFINE b == j[3] - 1
<1>2. CASE CaseOf.net = "gfs"
  <2>1. Cycling = "gdas" /\ Options(j[1]) = RunOptions(CaseOf, j[1])
    BY <1>2, OptionsOfRun DEF Cycling, CaseOf
  <2>2. GfsCase(CaseOf) /\ Ordered(State, CaseOf)
    BY <1>2, StateOrdered
  <2>3. /\ j[2] \in Analyses =>
              /\ Ended(State, "gdas", "atmos_prod", b)
              /\ IsEnkf(j[1]) \/ "hybvar" \in RunOptions(CaseOf, j[1]) =>
                    \A m \in MemberJobs \cup {"epmn"} : Ended(State, "enkfgdas", m, b)
        /\ j[2] = "aeroanlvar" =>
              Ended(State, "gdas", "fcst_seg0", b) /\ Ended(State, "gdas", "aeroanlgenb", b)
    BY <1>1, <2>2, GfsBackground
  <2> HIDE DEF b
  <2>4. /\ j[2] \in Analyses => Undone("gdas", {"atmos_prod"}, b) = {}
        /\ j[2] \in Analyses /\ (IsEnkf(j[1]) \/ "hybvar" \in Options(j[1])) =>
              Undone("enkfgdas", MemberJobs \cup {"epmn"}, b) = {}
        /\ j[2] = "aeroanlvar" => Undone(Cycling, {"fcst_seg0", "aeroanlgenb"}, b) = {}
    BY <2>1, <2>3, UndoneEmpty DEF NoneUndone
  <2> QED  BY <2>4 DEF b
<1>3. CASE CaseOf.net \in {"gefs", "sfs"}
  BY <1>1, <1>3, StateOrdered, GefsOthers, SfsOthers
<1>4. CASE CaseOf.net = "gcafs"
  <2>1. Cycling = "gcdas" /\ j[2] \notin Analyses
    BY <1>1, <1>4, StateOrdered, GcafsOthers DEF Cycling, CaseOf
  <2>2. j[2] = "aeroanlvar" => \A n \in {"fcst_seg0", "aeroanlgenb"} : Ended(State, "gcdas", n, b)
    BY <1>1, <1>4, StateOrdered, GcafsBackground
  <2> HIDE DEF b
  <2>3. j[2] = "aeroanlvar" => Undone(Cycling, {"fcst_seg0", "aeroanlgenb"}, b) = {}
    BY <2>1, <2>2, UndoneEmpty DEF NoneUndone
  <2> QED  BY <2>1, <2>3 DEF b
<1> QED  BY <1>2, <1>3, <1>4, StateOrdered

\* In all four systems, an analysis of the atmosphere or of the aerosols begins
\* after all that makes its background has ended: the members, too, when it is
\* hybrid or of the ensemble.
THEOREM BackgroundComplete ==
    ASSUME Generated
    PROVE  Spec => []AnalysesHaveBackground
<1>1. TypeOK /\ BegunReady => AnalysesHaveBackground
  BY BackgroundState
<1> QED  BY <1>1, TypeCorrect, WorkflowDependenciesHold, PTL

\* With DOHYBVAR and the analysis of the ocean, DOHYBVAR_OCN is set as well.
\* The document has marineanlletkf and marineanlecen without it, too, but then
\* marinebmatinit, which marineanlletkf comes after, does not wait for the
\* members, and efcs does not wait for marineanlecen (gfs_tasks.py).
HybridOceans == \A e \in Experiments : Cases[e].net = "gfs" => OceanHybrid(Cases[e])

\* MarineAnalysesHaveBackground, system by system.
LEMMA MarineBackgroundState ==
    ASSUME Generated, HybridOceans, TypeOK, BegunReady
    PROVE  MarineAnalysesHaveBackground
<1> SUFFICES ASSUME NEW j \in begun
             PROVE  /\ j[2] \in {"marineanlvar", "marineanlletkf"} =>
                          Undone("gdas", {"fcst_seg0"}, j[3] - 1) = {}
                    /\ j[2] = "marineanlletkf" => Undone("enkfgdas", MemberJobs, j[3] - 1) = {}
                    /\ j[2] = "marineanlecen" /\ "hybvar_ocn" \in Options(j[1]) =>
                          Undone("enkfgdas", MemberJobs, j[3] - 1) = {}
  BY DEF MarineAnalysesHaveBackground
<1>1. <<j[1], j[2], j[3]>> \in State.begun
  BY JobsAreTriples, StateFields
<1> DEFINE b == j[3] - 1
<1>2. CASE CaseOf.net = "gfs"
  <2>1. Options(j[1]) = RunOptions(CaseOf, j[1])
    BY <1>2, OptionsOfRun
  <2>2. GfsCase(CaseOf) /\ Ordered(State, CaseOf) /\ OceanHybrid(CaseOf)
    BY <1>2, StateOrdered DEF HybridOceans, CaseOf, TypeOK
  <2>3. /\ j[2] \in {"marineanlvar", "marineanlletkf"} => Ended(State, "gdas", "fcst_seg0", b)
        /\ j[2] = "marineanlletkf" => \A m \in MemberJobs : Ended(State, "enkfgdas", m, b)
        /\ j[2] = "marineanlecen" /\ "hybvar_ocn" \in RunOptions(CaseOf, j[1]) =>
              \A m \in MemberJobs : Ended(State, "enkfgdas", m, b)
    BY <1>1, <2>2, GfsMarineBackground
  <2> HIDE DEF b
  <2>4. /\ j[2] \in {"marineanlvar", "marineanlletkf"} => Undone("gdas", {"fcst_seg0"}, b) = {}
        /\ j[2] = "marineanlletkf" => Undone("enkfgdas", MemberJobs, b) = {}
        /\ j[2] = "marineanlecen" /\ "hybvar_ocn" \in Options(j[1]) =>
              Undone("enkfgdas", MemberJobs, b) = {}
    BY <2>1, <2>3, UndoneEmpty DEF NoneUndone
  <2> QED  BY <2>4 DEF b
<1>3. CASE CaseOf.net # "gfs"
  BY <1>1, <1>3, StateOrdered, GefsOthers, SfsOthers, GcafsOthers
<1> QED  BY <1>2, <1>3

\* A marine analysis begins after the forecasts of its background have ended.
THEOREM MarineBackgroundComplete ==
    ASSUME Generated, HybridOceans
    PROVE  Spec => []MarineAnalysesHaveBackground
<1>1. TypeOK /\ BegunReady => MarineAnalysesHaveBackground
  BY MarineBackgroundState
<1> QED  BY <1>1, TypeCorrect, WorkflowDependenciesHold, PTL

\* USE_AERO_ANL is set where the aerosols are analysed: the forecasts await
\* their increments (_fcst_cycled of gcafs_tasks.py) only with it.
AerosolsUsed == \A e \in Experiments : Cases[e].net = "gcafs" => UsesAerosols(Cases[e])

\* ForecastsHaveIncrements, system by system.
LEMMA IncrementsState ==
    ASSUME Generated, HybridOceans, AerosolsUsed, TypeOK, BegunReady
    PROVE  ForecastsHaveIncrements
<1> SUFFICES ASSUME NEW j \in begun, j[2] \in ForecastJobs \cup MemberJobs
             PROVE  NoneUndone(IF CaseOf.net = "gcafs" THEN "gcdas" ELSE j[1], Increments, j[3])
  BY UndoneEmpty DEF ForecastsHaveIncrements, CaseOf
<1>1. <<j[1], j[2], j[3]>> \in State.begun
  BY JobsAreTriples, StateFields
<1>2. CASE CaseOf.net = "gfs"
  <2>1. GfsCase(CaseOf) /\ Ordered(State, CaseOf) /\ OceanHybrid(CaseOf)
    BY <1>2, StateOrdered DEF HybridOceans, CaseOf, TypeOK
  <2> QED  BY <1>1, <1>2, <2>1, DetIncrements, EnkfIncrements DEF NoneUndone
<1>3. CASE CaseOf.net \in {"gefs", "sfs"}
  BY <1>1, <1>3, StateOrdered, GefsOthers, SfsOthers
<1>4. CASE CaseOf.net = "gcafs"
  <2>1. GcafsCase(CaseOf) /\ GcafsOrdered(State, CaseOf) /\ UsesAerosols(CaseOf)
    BY <1>4, StateOrdered DEF AerosolsUsed, CaseOf, TypeOK
  <2>2. j[2] \in ForecastJobs
    BY <1>1, <2>1, GcafsOthers
  <2> QED  BY <1>1, <1>4, <2>1, <2>2, GcafsIncrements DEF NoneUndone
<1> QED  BY <1>2, <1>3, <1>4, StateOrdered

\* A forecast, of a member or not, begins after every job that makes increments
\* of its run and cycle has ended, so it loses none of them.
THEOREM IncrementsComplete ==
    ASSUME Generated, HybridOceans, AerosolsUsed
    PROVE  Spec => []ForecastsHaveIncrements
<1>1. TypeOK /\ BegunReady => ForecastsHaveIncrements
  BY IncrementsState
<1> QED  BY <1>1, TypeCorrect, WorkflowDependenciesHold, PTL

\* Every case of the SFS has an ocean and sea ice.
SeasonsHaveOcean == \A e \in Experiments : Cases[e].net = "sfs" => WithOcean(Cases[e])

\* MembersArchivedWhole, for the GEFS and the SFS.
LEMMA MembersArchivedState ==
    ASSUME Generated, SeasonsHaveOcean, TypeOK, BegunReady
    PROVE  MembersArchivedWhole
<1> DEFINE Products == MemberProducts \cup {"atmos_ensstat", "wave_stat"}
<1> SUFFICES ASSUME CaseOf.net \in {"gefs", "sfs"}, NEW j \in begun, j[2] = "arch_tars"
             PROVE  NoneUndone(j[1], Products, j[3])
  BY UndoneEmpty DEF MembersArchivedWhole, CaseOf
<1>1. <<j[1], "arch_tars", j[3]>> \in State.begun
  BY JobsAreTriples, StateFields
<1>2. \A t \in ProductTasks, m \in CaseOf.members : Ended(State, j[1], Mem(t, m), j[3])
  <2>1. CASE CaseOf.net = "gefs"
    BY <1>1, <2>1, StateOrdered, GefsMembersArchived
  <2>2. CASE CaseOf.net = "sfs"
    <3>1. WithOcean(CaseOf)
      BY <2>2 DEF SeasonsHaveOcean, CaseOf, TypeOK
    <3> QED  BY <1>1, <2>2, <3>1, StateOrdered, SfsMembersArchived
  <2> QED  BY <2>1, <2>2
<1>3. Ended(State, j[1], "atmos_ensstat", j[3]) /\ Ended(State, j[1], "wave_stat", j[3])
  <2>1. CASE CaseOf.net = "gefs"
    BY <1>1, <2>1, StateOrdered, GefsMembersArchived
  <2>2. CASE CaseOf.net = "sfs"
    <3>1. WithOcean(CaseOf)
      BY <2>2 DEF SeasonsHaveOcean, CaseOf, TypeOK
    <3> QED  BY <1>1, <2>2, <3>1, StateOrdered, SfsMembersArchived
  <2> QED  BY <2>1, <2>2
<1>4. Experiment[exp].members = CaseOf.members
  <2> DEFINE e == State.exp
             s == CaseOf
  <2>1. CASE s.net = "gefs"
    <3>1. IsEnsemble(e, s, Gefs!_get_run_options(s), Gefs!OfEachMember, GefsNames(s))
      BY <2>1, StateOrdered, GefsEnsemble DEF GefsOrdered
    <3> HIDE DEF e, s
    <3>2. e.members = s.members
      BY <3>1, EnsembleFields
    <3> QED  BY <3>2, StateFields DEF e, s
  <2>2. CASE s.net = "sfs"
    <3>1. IsEnsemble(e, s, Sfs!_get_run_options(s), Sfs!OfEachMember, SfsNames(s))
      BY <2>2, StateOrdered, SfsEnsemble DEF SfsOrdered
    <3> HIDE DEF e, s
    <3>2. e.members = s.members
      BY <3>1, EnsembleFields
    <3> QED  BY <3>2, StateFields DEF e, s
  <2> QED  BY <2>1, <2>2
<1>5. \A n \in Products : \/ \E t \in ProductTasks, m \in CaseOf.members : n = Mem(t, m)
                          \/ n \in {"atmos_ensstat", "wave_stat"}
  BY <1>4 DEF MemberProducts, ProductTasks
<1> QED  BY <1>2, <1>3, <1>5 DEF NoneUndone

\* An archive of the GEFS or the SFS begins after the products of every member
\* are made, however many members there are.
THEOREM MembersArchived ==
    ASSUME Generated, SeasonsHaveOcean
    PROVE  Spec => []MembersArchivedWhole
<1>1. TypeOK /\ BegunReady => MembersArchivedWhole
  BY MembersArchivedState
<1> QED  BY <1>1, TypeCorrect, WorkflowDependenciesHold, PTL

\* The files that the tarballs of a deterministic run and of an ensemble hold.
LEMMA GfsRequired ==
    ASSUME NEW s, GfsCase(s), NEW x, Ordered(x, s), NEW r \in Runs(s),
           NEW a \in ArchiveJobs, NEW c,
           <<r, a, c>> \in x.begun, NEW n, n \notin NotAwaited,
           NEW t \in Tarballs(RunOptions(s, r), r, s.mode),
           n \in RequiredFiles(t, RunOptions(s, r), s.mode)
    PROVE  Ended(x, r, n, c)
<1>1. <<r, a, c>> \in GfsExperiment(s).jobs
  BY DEF Ordered
<1>2. a \in Archives
  BY DEF ArchiveJobs, Archives
<1>3. /\ IsEnkf(r) => a = "earc_tars"
      /\ ~IsEnkf(r) => a = "arch_tars"
  BY <1>1, <1>2, GfsArchivesPlanned DEF ArchiveJobs
<1>4. CASE IsEnkf(r)
  <2>1. r \in {"enkfgdas", "enkfgfs"}
    BY <1>4 DEF IsEnkf
  <2>2. t = r
    BY <2>1 DEF Tarballs
  <2>3. n \in EnkfFiles(RunOptions(s, r), r)
    BY <2>1, <2>2 DEF RequiredFiles
  <2> QED  BY <1>3, <1>4, <2>3, EnkfFilesMade
<1>5. CASE ~IsEnkf(r)
  <2>1. r \in {"gdas", "gfs"}
    BY <1>5, GfsRunNames DEF IsEnkf
  <2>2. n \in AwaitedAnalyses \cup AwaitedProducts \cup MarineAnalysis
    BY <2>1, DetFiles
  <2> QED  BY <1>3, <1>5, <2>2, DetFilesMade
<1> QED  BY <1>4, <1>5

\* RequiredFilesMade, system by system.
LEMMA RequiredState ==
    ASSUME Generated, TypeOK, BegunReady
    PROVE  RequiredFilesMade
<1> SUFFICES ASSUME NEW j \in begun, j[2] \in ArchiveJobs, NEW n \in Required(j[1]),
                    n \notin NotAwaited
             PROVE  Ended(State, j[1], n, j[3])
  BY StateFields DEF RequiredFilesMade, Missing, Undone, Ended
<1>1. <<j[1], j[2], j[3]>> \in State.begun
  BY JobsAreTriples, StateFields
<1>2. CASE CaseOf.net = "gfs"
  <2>1. GfsCase(CaseOf) /\ Ordered(State, CaseOf)
    BY <1>2, StateOrdered
  <2>2. j[1] \in Runs(CaseOf) /\ Options(j[1]) = RunOptions(CaseOf, j[1])
    BY <1>2, OptionsOfRun
  <2>3. Experiment[exp].mode = CaseOf.mode
    BY <2>1, <2>2, GfsOptions, StateFields
  <2>4. n \in UNION {RequiredFiles(t, Options(j[1]), Experiment[exp].mode) :
                       t \in Tarballs(Options(j[1]), j[1], Experiment[exp].mode)}
    BY <1>2 DEF Required, CaseOf
  <2>5. PICK t \in Tarballs(RunOptions(CaseOf, j[1]), j[1], CaseOf.mode) :
          n \in RequiredFiles(t, RunOptions(CaseOf, j[1]), CaseOf.mode)
    BY <2>2, <2>3, <2>4
  <2> QED  BY <1>1, <2>1, <2>2, <2>5, GfsRequired
<1>3. CASE CaseOf.net \in {"gefs", "sfs"}
  BY <1>3 DEF Required, CaseOf
<1>4. CASE CaseOf.net = "gcafs"
  <2>1. GcafsCase(CaseOf) /\ GcafsOrdered(State, CaseOf)
    BY <1>4, StateOrdered
  <2>2. Options(j[1]) = Gcafs!_get_run_options(CaseOf, j[1])
    BY <1>4, OptionsOfRun
  <2>3. n \in Gcafs!RequiredFiles(Gcafs!_get_run_options(CaseOf, j[1]), j[1])
    BY <1>4, <2>2 DEF Required, CaseOf
  <2>4. j[2] = "arch_tars"
    BY <1>1, <2>1, GcafsOthers DEF ArchiveJobs
  <2> QED  BY <1>1, <2>1, <2>3, <2>4, GcafsFilesMade
<1> QED  BY <1>2, <1>3, <1>4, StateOrdered

\* An archive begins after what writes the files its tarballs require, but for
\* the tasks in NotAwaited, in every configuration of the four systems.
THEOREM RequiredMade ==
    ASSUME Generated
    PROVE  Spec => []RequiredFilesMade
<1>1. TypeOK /\ BegunReady => RequiredFilesMade
  BY RequiredState
<1> QED  BY <1>1, TypeCorrect, WorkflowDependenciesHold, PTL

\* No case of the SFS asks for the boundary points of its waves: the task of
\* their bulletins looks up the settings "wave", which the application of the
\* SFS does not read (sfs_tasks.py, wavepostbndpntbll).
NoBoundaryWaves ==
    \A e \in Experiments :
        Cases[e].net = "sfs" => ~{"wave", "wave_bnd"} \subseteq Sfs!_get_run_options(Cases[e])

\* ConfigsSourced, system by system.
LEMMA SourcedState ==
    ASSUME Generated, NoBoundaryWaves, TypeOK, BegunReady
    PROVE  ConfigsSourced
<1> SUFFICES ASSUME NEW r \in DOMAIN Experiment[exp].options
             PROVE  LET o == Options(r)
                    IN  CASE CaseOf.net = "gfs" ->
                                \A t \in TaskNames(CaseOf, o, r) :
                                    TaskConfigs(t) \subseteq AppConfigs(CaseOf, o)
                          [] CaseOf.net = "gefs" ->
                                \A t \in Gefs!get_task_names(o) :
                                    Gefs!TaskConfigs(t) \subseteq Gefs!_get_app_configs(o)
                          [] CaseOf.net = "sfs" ->
                                \A t \in Sfs!get_task_names(o) :
                                    Sfs!TaskConfigs(t) \subseteq Sfs!_get_app_configs(o)
                          [] CaseOf.net = "gcafs" ->
                                \A t \in Gcafs!get_task_names(CaseOf, o, r) :
                                    Gcafs!TaskConfigs(t)
                                        \subseteq Gcafs!_get_app_configs(CaseOf, o)
  BY DEF ConfigsSourced, CaseOf
<1> DEFINE e == State.exp
           s == CaseOf
           o == Options(r)
<1>1. r \in DOMAIN e.options /\ o = e.options[r]
  BY StateFields DEF Options
<1>2. CASE s.net = "gfs"
  <2>1. GfsCase(s) /\ e.options = [q \in Runs(s) |-> RunOptions(s, q)]
    BY <1>2, StateOrdered, GfsFields DEF Ordered
  <2>2. r \in Runs(s) /\ o = RunOptions(s, r)
    BY <1>1, <2>1
  <2> HIDE DEF s, o
  <2>3. \A t \in TaskNames(s, o, r) : TaskConfigs(t) \subseteq AppConfigs(s, o)
    BY <2>1, <2>2, GfsSourced
  <2> QED  BY <1>2, <2>3 DEF s, o
<1>3. CASE s.net = "gefs"
  BY <1>3, GefsSourced
<1>4. CASE s.net = "sfs"
  <2>1. IsEnsemble(e, s, Sfs!_get_run_options(s), Sfs!OfEachMember, SfsNames(s))
    BY <1>4, StateOrdered, SfsEnsemble DEF SfsOrdered
  <2>2. ~{"wave", "wave_bnd"} \subseteq Sfs!_get_run_options(s)
    BY <1>4 DEF NoBoundaryWaves, CaseOf, TypeOK
  <2> HIDE DEF e, s, o
  <2>3. o = Sfs!_get_run_options(s)
    BY <1>1, <2>1, EnsembleFields
  <2>4. \A t \in Sfs!get_task_names(o) : Sfs!TaskConfigs(t) \subseteq Sfs!_get_app_configs(o)
    BY <2>2, <2>3, SfsSourced
  <2> QED  BY <1>4, <2>4 DEF s, o
<1>5. CASE s.net = "gcafs"
  <2>1. GcafsCase(s) /\ IsGcafs(e, s)
    BY <1>5, StateOrdered DEF GcafsOrdered
  <2> HIDE DEF e, s, o
  <2>2. r \in Gcafs!Runs(s) /\ o = Gcafs!_get_run_options(s, r)
    BY <1>1, <2>1, GcafsFields
  <2>3. \A t \in Gcafs!get_task_names(s, o, r) :
            Gcafs!TaskConfigs(t) \subseteq Gcafs!_get_app_configs(s, o)
    BY <2>1, <2>2, GcafsSourced
  <2> QED  BY <1>5, <2>3 DEF s, o
<1> QED  BY <1>2, <1>3, <1>4, <1>5, StateOrdered

\* Every task of a document finds the settings it looks up among those its
\* application reads.
THEOREM SettingsSourced ==
    ASSUME Generated, NoBoundaryWaves
    PROVE  Spec => []ConfigsSourced
<1>1. TypeOK /\ BegunReady => ConfigsSourced
  BY SourcedState
<1> QED  BY <1>1, TypeCorrect, WorkflowDependenciesHold, PTL
=============================================================================
