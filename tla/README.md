# Specifications of global-workflow

TLA+ models of the parts of the global-workflow whose correctness depends on
order, on failure, or on several programs at once, with TLC configurations
that check small instances and TLAPS proofs of what holds for every instance.

The repository is a few hundred jobs (`dev/jobs`, `dev/scripts`, `ush`), the
generator of the workflow that runs them (`dev/workflow`), their configuration
(`dev/parm/config`) and the tools around them (CI, archive, viewer). Most jobs
are linear: stage files, run an executable, save files. What is hard is what
happens *between* jobs and between *attempts* of a job: hundreds of
dependencies written by conditional code decide what a job finds, rocoto
submits a failed task again, a forecast is cut into segments, cycles overlap,
a service on another machine is spoken to through files.

## 1. Inventory

| part | state it keeps | operations | interacts with | hard behaviour | what makes it correct |
|---|---|---|---|---|---|
| **rocoto workflow** (`rocoto_xml.py`, `*_tasks.py`, `tasks.py`, `applications/*`) | task states of each cycle | generate tasks and dependencies from the configuration; submit what may run; cleanup of a cycle | every job | cycles that overlap; one job that is hours late; a dependency that one combination of switches lacks | a job finds what it reads; no task waits for ever; cleanup comes after the archive |
| **forecast job** (`JGLOBAL_FCST`, `exglobal_fcst.sh`, `forecast_det/predet/postdet.sh`) | `DATArestart`, `DATAoutput` (shared by all attempts), `DATA` of the attempt, COM | find the run type, stage initial conditions, run the model, copy results, remove `DATArestart` | rocoto (tries, segments), the next cycle (restarts in COM), products (history) | killed at any point, run again; asynchronous ocean output; segments | starts from complete restarts only; what it hands over is complete; a kill does not stop the cycle for good |
| **archive jobs** (`archive.py`, `archive_tar_vars.py`) | tarballs, the list of tarballs, copies of the EXPDIR, renamed tracks in `/tmp` | copy products, rename tracks, make and protect tarballs, write the list | cleanup, Globus, each other | jobs side by side on shared paths, broken off at any step; two computations of the days a set is due | a job that ends well leaves whole tarballs; sets are complete over cycles |
| **Globus archive** (`globus_hpss.py`, `parm/globus/*`) | request files, job directories, scripts, logs and status files on two machines | request a directory, send a script, poll status and log, clean up; every minute on the server: serve requests, run scripts | archive jobs; doorman and HPSS (external) | overlapping cron instances, polling against a writer, timeouts, an attempt that outlives its client | a file reported as archived is archived; a script runs once; failures are failures of the server |
| **forecast hours and job groups** (`tasks.py`, `_get_awipsgroups`, `earc_tars`) | none | split hours and members into groups | task generators, forecast | off-by-one at boundaries | every hour and member in one group, no group across a segment |
| **CI monitor** (`run_check_ci.sh`, `run_check_gitlab_ci.sh`, `rocotostat.py`) | loop state; the rocoto database is read | run rocoto, read counts and cycles, decide | rocoto | two readings of a changing database, calls that fail | ends; success and failure are those of the experiment |
| **emissions** (`chem_fire_emission.py`, `nexus_emission.py`) | raw files, files in `DATA`, files of each member in COM | search, convert, combine, join by day, deliver | the providers of raw files, the forecast | missing and late files, files paired by position, a second try | each member has the right file for every day the forecast reads |
| experiment set-up (`applications/*`, `setup_expt.py`) | configuration | options, runs, task names, configuration files | generator | switches that need one another | a task's settings were read |
| MPMD runner, scron runner, polling and post managers | command files, reported failures, files seen | split and run; mail; wait | jobs | status of chunks; partial files | not modelled, see `PROJECT.json` |
| configuration, ecFlow, analysis, staging, products, numerical helpers, monitoring, viewer, pipelines, build | see `PROJECT.json` | linear, generated or external | | | not modelled, see section 9 |

## 2. Modules and plan

| modules | what | section |
|---|---|---|
| `Forecast`, `MCForecast`, `ForecastProofs` | the forecast job over attempts and segments | 3 |
| `GlobusArchive`, `GlobusProps`, `MCGlobus` | client task, server cron instances, doorman | 4 |
| `TapeArchive`, `GlobusProofs` | what archiving to tape promises; that `GlobusArchive` implements it, and cleans up | 4 |
| `Rocoto` | abstract engine: what any call of rocotorun may submit | 5 |
| `RocotoRounds` | the engine in rounds with one late job; it implements `Rocoto` | 5 |
| `RocotoTerms`, `GfsTasks`, `GfsApps`, `MemberTerms`, `GefsTasks`, `SfsTasks`, `GcafsTasks` | the words of dependencies, tasks, applications and archive templates of the four nets | 5 |
| `Workflow`, `MCWorkflow` | the composition of engine and nets, its properties, the cases | 5 |
| `RocotoProofs` | the engine and its rounds; the order of the jobs in every case of the four nets | 5 |
| `Archive`, `MCArchive`, `ArchiveProofs` | the archive jobs of one cycle | 6 |
| `ArchiveTimes`, `JobGroups`, `Schedules`, `MCSchedules`, `SchedulesProofs`, `ArithmeticTheorems` | when what is saved; hours and members split into jobs; a whole experiment | 6 |
| `CIMonitor`, `MCCIMonitor`, `CIMonitorProofs` | the scripts that watch an experiment | 7 |
| `EmissionTimes`, `FireEmissions`, `NexusEmissions`, `PrepEmissions`, `MCEmissions`, `EmissionProofs` | the emissions job: fires, NEXUS, their composition; that it delivers | 8 |

Done in the order of what loses data or stops a cycle. What would come next:
the cleanup script composed with cycles that are rewound; an abstract forecast that `Forecast` refines; the MPMD
chunks.

The limits of the verification are kept in mind throughout: liveness under
fairness stays with TLC. Where the code loops, the models that are proved about say what
the loop computes by sets or by a function on the naturals
(`ngroups_segs`), for which `ArithmeticTheorems` has the induction.

## 3. The forecast job: `Forecast`, `MCForecast`

### State and actions

| variables | in the code |
|---|---|
| `pc` | what the attempt does: `idle` (between submissions), `det` (`UFS_det`), `post` (`*_postdet`), `run` (`${APRUN_UFS} ufs_model.x`), `out` (`*_out` and the end of `JGLOBAL_FCST`), `done`, `dead` |
| `seg`, `tries` | `FCST_SEGMENT`, rocoto's count of tries of the segment's task |
| `prev` | what the previous cycle or the staging left in COM |
| `part`, `whole` | files in `DATArestart` and `DATAoutput`: still being written, or cut short by a kill, against complete. The code can only test that they exist |
| `cleaned` | a last segment has begun to remove `DATArestart` |
| `now`, `todo`, `opened` | the executable: model time, files due, files open |
| `start`, `rerun`, `warm`, `oda` | `model_start_date_current_cycle`, `RERUN`, `warm_start`, `ODA_INCUPD` |
| `out`, `com`, `chemData`, `chemCom` | the `*_out` functions left, restarts in COM, aerosol files in `DATA` and in COM |

`Submit` is rocoto's submission; `DetFatal`, `DetRerun` and `DetStart` are the
three ends of `UFS_det`; `PostDet` and `PostDetFatal` those of the staging;
`Integrate`, `Open`, `Close` and `ModelEnd` stand for the executable;
`Component_out`, `OutFatal` (one copy fails, any of the others are made) and
`GOCART_out` copy results; `RemoveRestart` and `Finish` are the end of the job; `Crash` may happen in any state of a running
job, and `Rewind` is the operator's `rocotorewind`.

Time is counted in windows of `FHOUT_OCN` hours, the unit of ocean history.
Segment boundaries and restart intervals are whole numbers of windows, as
`config.base` has them; the aerosol files are counted in hours, one every
`FHOUT_AERO`. Namelists are left out, except `ODA_INCUPD`, whose value depends
on the attempt.

`RUN` is one of the nine the code knows. Two of its conditions do not coincide
and are kept apart: `Cycled`, the runs of which `FV3_out` copies restarts for
the next cycle (`forecast_postdet.sh:434`), and `rerunAllowed`, all but those
`forecast_det.sh:52` names: gcdas and enkfgcafs are cycled and may be rerun.
`MOM6_postdet` and `CICE_postdet` stop for these two (`UnsupportedRun`).
`restart_interval` follows `config.base` of the gfs and of the gcafs system,
which differ in the aerosol analysis.

With IAU (`DOIAU`, the default of the gfs system) the model of a first attempt
starts three hours before the cycle. Time 0 of the model stands for that start,
and what is written before the cycle is left out; the restart times are the
same as without IAU. The hours `IAU_FHROT` and `IAU_OFFSET` are those of
`config.base`, which takes them back for a cold start of the experiment
(`COLD_EXP`), of `UFS_det` and of `FV3_postdet`. Not modelled:
`DOIAU_COLDSTART` of the SFS. FHMIN is 3 for the ensembles of the data
assimilation (`config.efcs`); only the aerosols, which they do not run, read it
here.

What is assumed of the executable (external): one window at a time; a restart
per component and interval; no further step before the restarts of all
components but the ocean are closed; ocean files written asynchronously, and
the history of a window closed after the ocean restart of its first hour. The
last is what `forecast_det.sh:103-104` relies on.

### Runs

| run | question | bounds |
|---|---|---|
| `fcst_s2s` | where attempts start and what they leave, aerosol output included, with kills at any point; that the forecast finishes all the same | atmosphere, mediator, ocean; segments of 4 and 2 windows, an interval of 2; 3 tries, 2 kills, 1 rewind; 1,321,868 states |
| `fcst_gdas` | a cycled run with IAU, which copies restarts of three times, never succeeds without the next cycle's restarts, not even after a try that copied some of them | 4 components, 7 stagings, 2 tries, 1 kill or failed copy; 2,165,108 states |
| `fcst_iau` | violation: the aerosol files of the first hours are never copied when there is IAU | 3 components, 6 windows |

Two segments are enough to have a first, a last and a boundary; the first is
twice the restart interval, so that an attempt of the second may start before
it; two kills let a third attempt find the files of two others, one of which
has rewritten files of the other; one rewind leads to a forecast that finds
its own end. Ice and waves do not differ from the atmosphere in `fcst_s2s` and
are left out of it; the theorems have no such bounds.

The properties of `fcst_s2s` are conditional where the code is: `Sound` says
that the run may be rerun, that the ocean history is checked (coupled, with
`FHOUT_OCN` of at most 6) and that `DATArestart` has not been removed.
The second of the other divergences below shows what happens outside of it. Of
aerosol files, an attempt delivers those of the hours it integrated itself
(`AttemptAerosolsDelivered`; `fcst_s2s` has no IAU, and it is only true without,
see the findings below) and leaves those already in COM (`EarlierAerosolsKept`): files of hours between
the start of the segment and a later restart stay in the `DATA` of the killed
attempt, which is why no property promises all of them.

**Fairness.** `FairSpec` has weak fairness of `Program`: rocoto, called from
cron, submits a task as long as it has tries, and a job that is not killed
goes on. There is none for `Crash` and `Rewind`.

### Proofs (`ForecastProofs`)

For every set of components, number and length of segments, restart interval,
number of tries, kills and rewinds that `ConfigAssumption` and
`HoursAssumption` allow:

| theorem | states |
|---|---|
| `TypeCorrect` | `TypeOK` |
| `RerunSound` | `RerunFromWholeRestart` |
| `NeverAtEnd` | `NeverRestartsAtEnd` |
| `HistoryDelivered` | `HistoryComplete` |
| `AcceptedStays` | `AcceptedNotRewritten` |
| `HandsOver` | `HandsOverWhole`, for the runs that are not cycled |
| `Continues` | `SegmentContinues`, for runs that may be rerun, if the first segment is at least two windows longer than the restart interval (`config.base` cuts much longer ones) |
| `AerosolsDelivered` | `AttemptAerosolsDelivered`, if `config.base` has no hours of IAU (`~IAUHours`: `DOIAU=NO` or a cold experiment) |
| `EarlierAerosolsStay` | `EarlierAerosolsKept` |
| `SuccessIsHandover` | `SuccessHandsOver`, for every `RUN`, with or without IAU; where restarts are wanted that are not written (see the divergences below) it holds because the job fails |

None of these is inductive: that an accepted restart is complete depends on
what all earlier attempts left and on what the present one is about to
rewrite. `IInv` has two halves. Of the attempt: it is busy only with files of
hours between its start and `now` (`BusyHours`), the history of a window waits
for the restart at its start (`OceanOrder`), and all it has passed is written
or being written (`Passed`). Of the files: the history of the window *after* a
restart time vouches for the restarts of that time, for the window before and
for all history before them (`Vouched`); an attempt that starts earlier than a
vouched restart is already past it (`NotBusyBehind`), because `UFS_det` would
have chosen that restart otherwise. `UFS_det` asks for two windows of history,
and that is exactly what `Vouched` needs: with one (`AllRestartsFound_OneWindow`)
the invariant and the property fail.

`AerosolsDelivered` and `SuccessIsHandover` have invariants of their own. The
executable has written into `DATA` every aerosol file of the hours the attempt
has integrated (`AerosolsWritten`), and without IAU the list of
`GOCART_output_fh` has all of them after the start of the segment
(`ChemHoursWithoutIAU`). A forecast can succeed only after each `*_out` has
copied what is wanted of its component (`HandedOver`). `CMEPS_out` copies the
mediator's restart only if there is one; it is there because the ocean's
restart of that time is, which `MOM6_out` requires, because the attempt started
before that time (`MediatorWithOcean`: a cycled run with an ocean is never
rerun) and no file on disk is from after the end of the segment
(`RestartsUpToEnd`).

`EarlierAerosolsStay` proves `EarlierAerosolsKept` from the types alone.

Only model-checked: the liveness property (temporal reasoning with fairness is
out of the prover's reach).

### Findings and known divergences

* `fcst_iau`: `GOCART_output_fh` (`forecast_postdet.sh:1079`) starts its list
  one output after `IAU_FHROT`. With IAU that counts from the previous cycle,
  and its readers take the list for hours of the current one: a first attempt
  has 3 there and does not copy f003, a rerun has 6 more than the hour of its
  restart and does not copy the two files after it. The comment two lines above
  wants the list to start "after the forecast start (accounting for FHROT)".

Not among the runs; each is seen with TLC by the change that is named:

* `forecast_predet.sh:128` has the next cycle start three hours early with an
  aerosol analysis, "even without IAU we want 3-hourly restarts for FGAT";
  `config.base.j2:493` of the gfs system writes them every six hours then, and
  each try of gdas fails in `FV3_out`. GCAFS has the condition
  (`config.base.j2:445`). (`HandsOverWhole` with `DOIAU = FALSE` and
  `DO_AERO_ANL = TRUE` in `MCForecast_gdas.cfg`.)

* `UFS_det` switches the ocean increment off (`forecast_det.sh:127`) for every
  restart it looks at, also for those it rejects; an attempt that then starts
  from the analysis runs without the increment, which `forecast_postdet.sh:691`
  wants "only when RERUN=NO" (`AnalysisStartAppliesIncrement` with
  `ODA_INCUPD = TRUE` in `MCForecast_S2S.cfg`).
* `DATAoutput` outlives `DATArestart`, and old history vouches for restarts
  that are being rewritten, `forecast_det.sh:103-111` (`StartsWhole` in
  `MCForecast_S2S.cfg`). Two kills, one of them while `DATArestart` is removed,
  are enough for the last try to fail on such a restart: the exception that
  `FinishesDespiteKills` makes.
* Without an ocean there is no history to check, and a forecast killed after it
  has opened its last restart fails on every later try (`forecast_det.sh:154`),
  gcdas included, which the comment at `forecast_det.sh:50` does not count among
  the runs with a RERUN (`FinishesDespiteKills` with `Comps = {"fv3"}` in
  `MCForecast_S2S.cfg`).

## 4. Archiving through Globus: `GlobusArchive`, `GlobusProps`, `TapeArchive`

### State and actions

| variables | in the code |
|---|---|
| `client` | `exglobal_globus_arch.py` of each task: its try, its transfer set, `wait_count`, `check_log_count`, `completed`, `successes` |
| `initScript`, `mkdirReq`, `rmdirReq` | `init_xfer_{PSLOT}.sh`, `req_mkdir.{jobid}`, `req_rmdir.{jobid}` in the server's home |
| `jobDirs`, `dirs`, `scripts`, `log` | `doorman/{jobid}`, its two subdirectories, `run_doorman.sh` and the last line of `run_doorman.log` in them |
| `todoLog`, `status`, `hpss` | the `hpss_status_*.log` files, the status files in the client's dropbox, the tarballs on HPSS |
| `active`, `idle`, `entry` | the age of `crontab_active.log`, that of the time in `last_runtime.log`, the line in the crontab |
| `inst` | the instances of `init_xfer.sh`: cron starts one every minute, whether or not the last is over |

The client's actions follow `_init_server`, `execute_transfer_data` and
`clean`; `Start` to `CheckIdle` follow `init_xfer.sh`, with `DoormanBegins` to
`DoormanFails` as the script that an instance runs. A test and the step that
depends on it are two actions where another instance may come in between
(`TestLog` and `Touch`; `RemoveDir` and `RemoveRequest`).

Assumptions about the surroundings: what an instance does besides a doorman
run takes less than a minute (`Minute`), so at most one instance that cron has
just started and those coming back from a doorman run meet; no instance runs
for a day; each attempt has a `jobid` of its own; a `put` that fails leaves an
earlier copy on HPSS. The doorman's own programs (`receive.sh`, `process.sh`,
`ack.sh`, `send.sh`), Globus and HPSS are external and may fail at any time.

### Runs

| run | question | bounds |
|---|---|---|
| `globus_task` | what the success of a task stands for | 2 standard tarballs, a restricted one, 2 instances, 1 try, 1 kill, 1 failed transfer, 1 outage, 3 polls |
| `globus_verdict` | each script gets a verdict | both sets, 2 instances, 1 failed transfer, 1 kill, no outage |

Two instances are the most that can meet in the part without a doorman run,
and two tries the fewest for which an attempt's run outlives its client. The
poll limits (345 and 3 in the code) are small, so that every way to leave the
loop occurs.

`ArchivesOnTape` is the refinement of `TapeArchive`: a task ends well only with
its standard tarballs on HPSS, from where nothing takes them any more. Of
restricted ones it promises less, because the code does: a run that an
abandoned attempt left behind may fail beside, or after, the next one, and its
`hsi rm` then withdraws a tarball that has been archived; but the failure has
been noted in the `hpss_status` log. `MCGlobus_rstprod.cfg` has a trace of it.

**Fairness.** Clients and instances that are not killed go on, cron starts
instances (weak fairness of `Client`, `Start`, `Server`), and days go by
(strong fairness of `Day`, which is enabled only between instances). Failures,
kills and outages are never forced.

### Proofs (`GlobusProofs`)

For any tasks and tarballs, any number of instances, tries, polls, kills,
failed transfers and outages. `GlobusAssumption` asks that no two tasks share
a tarball and that none is both standard and restricted: a task splits its list
into the two sets, and the names carry the run and the group of members.

| theorem | states |
|---|---|
| `TypeCorrect` | `TypeOK` |
| `ImplementsTape` | `ArchivesOnTape`: every step of clients, server and doorman is a step of `TapeArchive` or none |
| `DoneIsArchived` | hence a task that has ended well has, from then on, its standard tarballs on HPSS, and each restricted one there or a noted failure (`Tape!DoneIsOnTape`, by `TapePromise`) |
| `CleanWithoutFailures` | `CleanUnlessTransferFails` |

`TypeOK` needs `Shape`: an instance that runs a doorman has a directory, a
client that polls has polls left, a request names a directory of its attempt.
The refinement map takes `tape` from HPSS and `noted` from the last lines of
the `hpss_status` logs. That `Succeed` is enabled when a client ends well rests
on `TapeInv`, a chain of beliefs each of which has to stay true whatever other
instances do meanwhile: success in a log (`LogsTrue`), what a doorman has tried
and acknowledges (`DoormenTrue`), the status files that were sent back
(`StatusTrue`), and what a client has counted (`ClientsTrue`) are each of
tarballs on tape or noted as failed. A doorman holds its list while others add
lines to the same log, so the invariant is about the lines and not about their
number.

`CleanInv` says where a request and a directory of an attempt may be at each
step of its client: asked for once, made before the script is sent, and removed
before the request is; an instance about to remove a request (`ServesRemoval`)
has removed the directory that the client waits for. It holds while no transfer
has failed; after a failure `CleanMeansGone` is violated (below).

Only model-checked: `ScriptsGetVerdict`, which is liveness.

### Known divergences

Of each there is a configuration beside the runs, `MCGlobus_*.cfg`, whose
property TLC finds violated.

* `twice`, `RunsOnce`: testing for the log and touching it are two steps; an
  instance back from a doorman run and the one just started may both run a
  script that has arrived in between.
* `log`, `StartedLogIsNoError`: `doorman_lines[-1]` of a log that was touched and not yet
  written is an `IndexError` that ends the task.
* `clean`, `CleanMeansGone`: any failure to fetch the removal request counts as the
  removal.
* `rstprod`, `SentIsArchived`: the client gives up, its script is run later beside
  that of the next attempt, fails, and its `hsi rm` removes the restricted
  tarball the next attempt has reported as archived.
* `idle`, `IdleTurnsOff`: `doorman/{jobid}` is never removed, and each instance that
  finds one renews `last_runtime.log`, so the service is never found idle. The
  branch behind it would not take the line out of the crontab either:
  it pipes into `crontab -l`.

## 5. The workflow: `Rocoto`, `RocotoRounds`, the nets, `Workflow`, `MCWorkflow`

### From the code to the model

The generator is translated in the three layers it has. The *applications*
(`GfsApps`, and the first part of each of `GefsTasks`, `SfsTasks`,
`GcafsTasks`) give, for the switches of an experiment, the runs, the options of
each run, its tasks and the configuration files it reads. The *tasks* give
each task its cycledefs and its dependency: one operator per method of
`gfs_tasks.py` and its siblings, under the method's name, written in the words
of `rocoto.py` (`RocotoTerms`: `Task`, `Meta`, `Data`, `CycleExists`,
`TaskValid`). The *cycledefs* come from the `*_xml.py` files. What the
dependency of a job becomes in an experiment is `WorkflowReady`, and the jobs
of an experiment over all its cycles are `WorkflowJobs`; these are the values
of the constants `Ready` and `Jobs` of the engine. `GfsApps` also has the
templates under `parm/archive`, as the tasks whose files each tarball requires.

The jobs of a metatask that differ in forecast hours are one job (that of the
last hours); members and segments are jobs of their own. A data dependency is
taken to hold once the job that writes the file has begun: no later, so that a
job which relies on more than the file is seen to.

The *engine* is external. `Rocoto` has one action, `Call`: any running jobs
have ended, and any jobs of the active cycles whose dependency holds are
submitted. Its state space over a few hundred jobs is out of TLC's reach.
`RocotoRounds` keeps of its behaviours those in which all but one job run as
fast as they may, and the one that is late is any of them. That is enough for
properties that say *what a job finds done when it begins*: whatever other
jobs are late as well, what begins before a job `h` has ended is among what
begins in the round in which only `h` is late (theorems `NothingElseBegins`
and `WaitingIsClosed`).

### Runs

| run | question | bounds |
|---|---|---|
| `workflow_order` | what every job finds done when it starts, for every choice of the job that is late; every job starts | 21 experiments, 12,578 states |
| `workflow_every12h` *(violated)* | every job starts, with a gfs forecast every 12 hours | 1 experiment |

The experiments are the cases of `dev/ci/cases` and two more that turn on what
no case does (aerosols in gfs forecasts, FSU genesis, UPP, Globus; seasonal
waves and aerosols). Three to five cycles have a half cycle, a cycle with and
one without a gfs forecast, and both neighbours of each; two members tell "one"
from "all" (the theorems have any number); `cyclethrottle` is 3, what the cases set
and `rocoto_xml.py:82-89` writes into the workflow. With gfs forecasts once a
day the experiments are as short as the cases: no cycle has another 24 hours
later, which would meet the finding below.

| property | says |
|---|---|
| `AnalysesHaveBackground`, `MarineAnalysesHaveBackground` | an analysis starts from the whole background of the cycle before, though only tasks before it wait for it |
| `ForecastsHaveIncrements` | a forecast starts when all increments of its run are there; a late one would be left out silently |
| `MembersArchivedWhole` | an ensemble is archived when the products of every member are there; patterns leave out what is late |
| `RequiredFilesMade` | required files of a tarball are made when the archive starts, but for those of `NotAwaited` |
| `CleanupAfterArchives` | the cleanup of a cycle comes after every archive of it |
| `ConfigsSourced` | the settings of every task were read for its run |
| `EveryJobRuns` | every job of the document gets to run |
| `Implements` | the rounds are behaviours of `Rocoto` |

`RequiredFilesMade` has an exception because the code has it: soundings of
`gfs_downstream`, restarts of the end of the forecast and the log of
`aeroanlgenb` are required by templates, and no dependency of `arch_tars` leads
to their tasks (`EveryRequiredFileMade` says it without the exception). The
archive fails then and is tried again.

**Fairness.** Weak fairness of `RoundsNext`: cron calls rocotorun every five
minutes, and a job ends or is killed at its walltime. Jobs do not fail for good
in this model: with a dead job nothing that needs it runs, which is rocoto's
and not this code's doing.

### Proofs (`RocotoProofs`)

For all experiments, jobs, dependencies and throttles:

| theorem | states | hypothesis |
|---|---|---|
| `TypeCorrect`, `RoundsTypeCorrect` | only jobs of the document are submitted, each once, done after begun | `NoJob` is not a job |
| `DependenciesHold` | the dependency of every job that has begun holds, and never ceases to | `Monotone` |
| `NothingElseBegins` | what begins while `h` is late is in every set closed for `h` | `Monotone`, finite experiment |
| `WaitingIsClosed` | what has begun in a waiting round is such a set | |
| `RoundsAreRocoto` | `Implements` | `NoJob` is not a job |

`Monotone` says that a dependency that holds still holds when more jobs are
done. The inductive step of `NothingElseBegins` needs that active cycles only
grow with what is done (`ActiveGrows`).

For all cases of the four nets:

| theorem | states | hypothesis besides `Generated` |
|---|---|---|
| `GeneratedMonotone` | `Monotone`, of every document the generator writes | |
| `WorkflowDependenciesHold` | `DependenciesHold` without its hypothesis | |
| `BackgroundComplete` | `AnalysesHaveBackground` | |
| `MarineBackgroundComplete` | `MarineAnalysesHaveBackground` | `HybridOceans` |
| `IncrementsComplete` | `ForecastsHaveIncrements` | `HybridOceans`, `AerosolsUsed` |
| `MembersArchived` | `MembersArchivedWhole` | `SeasonsHaveOcean` |
| `RequiredMade` | `RequiredFilesMade` | |
| `CleanupIsLast` | `CleanupAfterArchives` | |
| `SettingsSourced` | `ConfigsSourced` | `NoBoundaryWaves` |

`Generated` says that the engine runs the documents of the generator: `Jobs` is
`WorkflowJobs` and `Ready` is `WorkflowReady`, which is what the
configurations of TLC substitute. The runs are of 21 experiments; the theorems
are of every combination of switches, every length, interval and ensemble that
`CasesAssumption` allows; a forecast has one or two segments, as in the model.
The assumption asks little: a mode that exists, members with
`hybvar`, the control among the members of a GEFS or SFS, and, with
`MembersAssumption`, that no two tasks get the same name. TLC evaluates these
assumptions, and `SegmentNames`, for the cases of the runs: the provers do not
compute the concatenation of strings. The theorems are about `Spec` of
`Rocoto`, any calls at any time; the runs are about `RoundsSpec`, whose
behaviours are among those (`RoundsAreRocoto`).

*The argument.* No property is inductive: that an analysis finds the ensemble's
statistics done says nothing of the state before it began. What is inductive is
`BegunReady`, that the dependency of every job that has begun *still* holds,
and that needs `Monotone` of the documents. It is proved for each net by going
through the words of `RocotoTerms` and through every task
(`ReadyMonotone`): conditions on jobs are never negated, only those on cycles
and on the document are. From `BegunReady` (in `Ordered`, `GefsOrdered`,
`SfsOrdered`, `GcafsOrdered`) each property follows by walking the dependencies
back from the job to what it needs. A step back is possible only if the job
named is in the document at that cycle, which is why the lemmas about
documents (`GfsDocument`, `EnsembleDocument`, `IsGcafs`) come first: which
tasks a run has, at which cycles, and from which switches. The walk from an
analysis to its background passes `prep`, the one task that waits for the
cycle before. The cycledefs take part in it, since a half cycle has no analysis
and a cycle without a gfs forecast has no gfs jobs.

*The hypotheses.* Each excludes what the code does otherwise:

* `HybridOceans`: DOHYBVAR with the analysis of the ocean comes with
  DOHYBVAR_OCN. The document has `marineanlletkf` and `marineanlecen` without it,
  too (`gfs_cycled.py:437-442`), but then `marinebmatinit`, which `marineanlletkf`
  comes after, does not wait for the members (`gfs_tasks.py:846`), and `efcs`
  does not wait for `marineanlecen` (`:3201`).
* `AerosolsUsed`: a GCAFS that analyses aerosols uses them. Without
  `USE_AERO_ANL`, "Use aerosol analysis in forecast", its forecasts do not wait
  for the analysis (`gcafs_tasks.py:724`).
* `SeasonsHaveOcean`: an SFS without ocean or ice has `ocn_post` or `ice_post`
  all the same, of which nothing is ever ready, and no archive waits for it.
* `NoBoundaryWaves`: the bulletins of boundary points of an SFS look up the
  settings `wave` (`sfs_tasks.py:517`), which the application does not read.

Only model-checked are `EveryJobRuns`, which is about liveness and fails for the
documents of the finding below, and that the 21 experiments meet the
assumptions.

### Findings and known divergences

* **`workflow_every12h`**: the cleanup of a gdas or enkfgdas cycle waits for
  `gfs_fcst_seg0` one gfs interval later unless that *cycle* does not exist.
  The comment (`gfs_tasks.py:2503-2505`) has 6-hourly forecasts in mind, the
  code takes every interval (line 2511), and with 12 or 24 hours the cycle
  exists without a gfs forecast. Nothing of the experiment completes after
  that: the cycle stays active.
* `JGLOBAL_CLEANUP` says cleanup comes after the whole cycle; it waits for the
  archives and a few products only (`CleanupAfterCycle` is not satisfied).
* Waves with an interval of 0 end in a `NameError` (`gfs_tasks.py:2627`); wdqms
  with `jediatmvar` is never started.
* GEFS: the Globus task has no run in its name, so the cleanup that waits for
  it never runs; `wave_stat` has `#fhr_label#` in the place of a label.
  SFS: the application ATM waits for ever, `extractvars` waits for products
  the SFS does not have, bulletins of boundary points are a `KeyError`
  (`sfs_tasks.py:517`). GCAFS: `globus_arch` has no method; in forecast-only
  mode the second cycle never runs. The cases of `MCWorkflow`, like those of
  `dev/ci/cases`, stay clear of these.

## 6. Archive jobs: `Archive`, `ArchiveTimes`, `JobGroups`, `Schedules`

`Archive` is one cycle: jobs of `arch_vrfy`, `arch_tars` (one for each type of
tarball) and `earc_tars` (one for each group of members) run side by side,
each broken off at any step and submitted again. State: the temporary track
file of each node and who still has it open, the renamed tracks and their
copies, the tarballs (made, whole, protected), the list that Globus reads, the
copy of the EXPDIR. Actions follow `configure_vrfy`, `configure_tars`,
`execute_backup_dataset`, `_create_tarball`, `_protect_rstprod`,
`_create_datasets_yaml` and `clean`; renaming a track file is four steps (open,
write, copy, unlink), between which another job may take or truncate the file.

`Schedules` is one experiment: the generator splits hours (`JobGroups`, after
`get_job_groups`, `get_grouped_fhr_dict`, `_get_awipsgroups`) and members, and
each cycle saves what is due (`ArchiveTimes`, after `_arch_restart`,
`archive_tar_vars.py` and `_archive_expdir`). Two modules of the code compute
the days of a warm-start set, and two settings the times of its restarts; only
over all cycles can one see whether they agree. The list of groups that
`get_job_groups` returns is a function here, from pairs of segment and part to
hours; `Before` is the order of the list. `Generate` has the two calls that may
raise: fewer groups than segments, of the products or of AWIPS, and nothing is
generated.

| run | question | bounds |
|---|---|---|
| `archive_jobs` | what a job that ended well has left, whatever was broken off before | 3 sets of jobs, 2 tries, 3 breaks; all jobs on one node, `RenamesAlone` as a constraint; 108,417 states |
| `archive_list` *(violated)* | Globus sends all tarballs of a run | the same, without the constraint |
| `schedules` | what the archive adds up to; every hour and member in one job | 10 days of cycles; starts, archive hours, frequencies, windows, members, segments and group counts varied; 2,165 states |

| property | says |
|---|---|
| `ArchivedTracksOwn` | the tracks in ARCDIR are the run's own and whole |
| `TarballsComplete` | all tarballs of a job that ended well are whole, restricted ones protected, no EXPDIR copy is left |
| `GroupsSent` | Globus sends all tarballs of a group of members, whole |
| `WarmStartSets` | what any run saves for a warm start comes with the rest of the set |
| `SavedRestartsStart` | archived restarts were written, and have the time the next cycle starts at |
| `MembersPartitioned`, `GroupsPartition`, `AwipsGroups` | members and hours in one job each, none empty, none across a segment or step |
| `ExpdirArchived` | the EXPDIR is saved at the first and last cycle and as often as asked |

Ten days show every remainder of the largest frequency (4 days) more than
once. Nothing is promised of liveness here; the order of the jobs is section 5.

Conditions under which the properties hold, each an `ASSUME` or an operator of
`Schedules` with the code that needs it, and each violated without it:

* `StepsDivide`: output steps divide what they step through. Otherwise the
  hours run past the end of the forecast (`tasks.py:204-219`). With AWIPS the
  forecast has at least 84 hours and, if it is shorter than 240, ends at one of
  the hours of AWIPS; otherwise AWIPS hours lie beyond it.
* `SegmentsMeetOutput`: `FCST_SEGMENTS` increases from the first hour to the
  last and breaks only at hours with output. A segment without hours would make
  an empty group.
* `SameDays`: an experiment that starts at an hour of `ARCH_CYC` and archives
  less often than daily gets sets of two halves: `archive.py:897` counts days
  from the cycle, `archive_tar_vars.py:470` from the one after.
* `DOHYBVAR_OCN` with `DOIAU_ENKF`: the ocean restart of the members is named
  three hours after the cycle whether or not there is an IAU window.
* `(EDATE - SDATE)` a multiple of the interval, or the last cycle saves no
  EXPDIR (`archive.py:664`).
* `RenamesAlone`: while `arch_vrfy` of a run is at `/tmp/track_file`, no job of
  another run is there on its node. Nothing in the code sees to it; jobs share
  nodes (`OneNode` of `MCArchive`), one after the other too, and what a killed
  job of any run left at the path stays. `archive_jobs` explores the behaviours
  with this order (a `CONSTRAINT`); without it, see below. Jobs of one run
  do not need it: `arch_tars` waits for `arch_vrfy`, and what the `arch_tars`
  jobs rename is not copied any more.
* `ArchiveAssumption`: no two jobs make a tarball of the same name. A cycled
  GCAFS experiment does not meet it: only the GFS leaves the EXPDIR to one run
  (`archive.py:657`), so the `arch_tars` jobs of gcdas and of gcafs both make
  its tarball from the one copy `expdir.YMDH`, which the first to end removes.

Finding, **`archive_list`**: every `arch_tars` job of a run writes
`backup_tarballs.yaml` with its own tarballs alone (`archive.py:958-994`);
`globus_arch` then sends those of the job that wrote last.

Not among the runs, but seen by taking the `CONSTRAINT` out of
`MCArchive_jobs.cfg` (`ArchivedTracksOwn` is violated): all jobs write their renamed tracks to the one
path `/tmp/track_file` (`archive.py:594`), to "prevent partial file creation" as
the comment of `replace_string_from_to_file` says. `arch_vrfy` is a serial job
that shares its node (`config.resources:1210`). When gdas and gfs rename on one
node at a time, the second to open the file truncates what the first has written
and not yet moved: an empty or mixed file is archived and both jobs end well.

A job whose type of tarball has "restart" in its name (`IsRestart`: atmosphere,
ice, ocean and waves of gdas, atmosphere of gfs) and is not due this cycle makes
nothing and ends well (`archive.py:116`); which are due is free (`due`).

### Proofs (`ArchiveProofs`)

For any jobs, tarballs, restricted tarballs, tries and numbers of jobs broken
off, under `ArchiveAssumption`:

| theorem | states | hypothesis |
|---|---|---|
| `TypeCorrect` | `TypeOK` | |
| `TarsComplete` | `TarballsComplete` | |
| `GroupsAreSent` | `GroupsSent` | |
| `TracksAreOwn` | `ArchivedTracksOwn` | `[]RenamesAlone` |

`JobsAtWork` goes with the types: the steps a job may be at, and that it has
tries left when it waits. For the tarballs, `TarsInOrder` says of every job at
work that what it has behind it is complete; the next try starts over with the
whole list, which makes good whatever the last one left, and no other job
touches its tarballs or its copy of the EXPDIR. `GroupLists` adds that the list
of a group is written by its one job, and that once it is sent the job is done
for good. For the tracks (`TrackInv`), at most the one `arch_vrfy` job of a run
renames while it has not ended (`VrfyAlone`), every open temporary file is that
of a job about to write it (`OpenFiles`), so what a job copies from the path is
what it wrote, although a job killed before may have left anything at
the path (`TracksOwn`).

### Proofs (`SchedulesProofs`)

For every experiment that `ScheduleAssumption` allows: any start, end and
interval, archive hours, frequencies, windows, numbers of members and groups.

| theorem | states |
|---|---|
| `WarmStartsWhole` | `WarmStartSets` |
| `RestartsStart` | `SavedRestartsStart` |
| `MembersArchivedOnce` | `MembersPartitioned` |
| `ExpdirIsArchived` | `ExpdirArchived` |
| `GroupsAreExact` | `GroupsPartition` |
| `AwipsInStep` | `AwipsGroups` |
| `GroupsSplitHours` | what `get_job_groups` returns, of any hours and break points |

The invariant `SavedInv` says which cycles have run and that `saved` is what is
due at them, no more and no less; the rest is arithmetic of days, groups and
multiples, in lemmas. `SameSet` shows where `SameDays` is needed: the two
counts of days differ only at the cycle before the hour of the start, which
then is no hour of the archive, or no day is left out. An ensemble without
members is allowed. `ARCH_WARMICFREQ` is not 0, by which
`archive_tar_vars.py:459` would divide.

The groups: the code computes them in four steps, each with lemmas of its own.

1. *Hours.* `TwoSteps` under `StepsDivide` has exactly the hours with remainder
   0, of the short step to the change and of the long one after it, in order
   (`Hours`, `Aligned`); these are what the segments write (`common_predet`), each
   segment counting from its own bounds.
2. *Segments.* A break point that is an hour with output is found by `bisect_right`
   at its own place, so the ends of the segments rise strictly to `Len(fhrs)`:
   they are `Cuts`, and every place of the list lies between two of them.
3. *Number of groups of each.* The loop gives each further group to the first
   segment with the most hours per group. No segment ever gets more groups than
   it has hours: the one chosen would already have one group for each hour, then
   so has every other, and as many groups are made as there are hours, where the
   loop ends. The sum of the groups is the number asked for. `ngroups_segs` is a
   function defined by recursion; `Iteration` proves that it exists and has its
   defining equations, and `Induction` does the rest.
4. *Parts.* `numpy.array_split` cuts a segment at `PartEnd`; with no more parts
   than hours, no part is empty (`Cuts` again).

`GroupsSplitHours` puts these together for any hours, groups and break points.
`JobsInv` says that the jobs are those of `Generate` and that it did not raise;
from it `GroupsAreExact` takes the hours of the product, `AwipsInStep` those with
parm files and the break point 84.

## 7. The CI monitor: `CIMonitor`, `CIMonitorProofs`

Both scripts loop: `rocotorun`, wait, `rocotostat.py`, judge. `rocotostat.py`
counts jobs by state (`rocoto_statcount`), then reads which cycles are done
(`rocotostat_summary`), and when a state is lost or nothing seems to run counts
again (`RecountLost`, `RecountStalled`). In between jobs start and end, the
batch system goes away, and someone else (`OtherRun`, cron) runs rocotorun. A
call may end without an answer; `run_check_gitlab_ci.sh` then judges by the
state of the call before, `run_check_ci.sh` ends.

| property | says |
|---|---|
| `SuccessIsDone` | success is only reported when every job has succeeded |
| `FailureHasReason` | the GitLab script reports a failure only for a dead job, a state lost at both readings, or nothing in the batch system with cycles left |
| `WatchEnds` | the watch ends, whatever becomes of the jobs |

`ci_monitor`: three jobs in two cycles, any of which may be blocked for ever; 2 tries, one outage, one call that fails, one other
rocotorun in each call; 799,216 states. One of each is what it takes to
separate the readings; a stalled, a dead, a lost and a finished experiment all
occur. **Fairness**: the script goes on (weak fairness of `Monitor`), a job in
the batch system starts and ends. There is none for outages or others.

**Proofs**: `SuccessMeansDone` for any experiment: a finished job stays
finished, and "done" is only ever judged from a reading in which all were.
`FailureMeansReason` for `MaxOther <= 1`: with more calls of others between the
two counts, what could not be submitted at the first may have run to its end at
the second, and the finished experiment is reported as stalled. The invariant `ReasonInv` says
what each reading still tells about the database while the script goes on.
`WatchEnds` is model-checked.

Known divergences: in `run_check_ci.sh` a recount that finds the experiment
running again (`rocotostat.py:416`: no value for `rocoto_state`) is an error
and ends the watch with failure, which is why `FailureHasReason` is about the
GitLab script. A stall is also reported when a dependency on time or age of a
file is about to hold. The exit status is a number of jobs of which the shell
sees the remainder by 256 (`:394`).

## 8. Emissions: `FireEmissions`, `NexusEmissions`, `PrepEmissions`

The job makes the fires of each day (GBBEPx or QFED, historical or in real
time) and the NEXUS emissions. A file is abstracted to the day its data is of,
the day of its time coordinate and its species, so that "the right file for
the day" can be said; NEXUS files to the hours they hold. Actions are the
methods `initialize`, `execute` and `finalize` of both classes. Directory
listings come in any order. `Arrive` lets raw files come between tries, `Kill`
ends the job at any call, between two copies of the last one too, `Resubmit`
starts again with a new `DATA` and the old COM.

`emissions` checks nine configurations (cycles at the four hours, forecasts of
6 to 48 hours, both products, hourly and daily NEXUS, with and without a
member, at the turn of a year), every set of raw files that may have arrived,
one missing inventory or hour (`Lost`), a restart that `nexus.x` did not write,
a kill between any two copies; two tries; 77,664 states.

* `FireDaysDelivered`: once the fires have ended well, every member has the
  file of each day whose noon encloses the forecast, dated that day, with the
  data of that day (historical) or of the one NRT directory (real time). Files
  are paired with days by their position, some may have been missing, and an
  earlier try may have left others in COM.
* `NexusDaysDelivered`: every member has for each day the hours from the
  first in a row, all of them if `nexus.x` wrote all, and the restart of HEMCO,
  made with the inventories of that day: of a section inside another, of the
  daily, monthly, yearly and representative rules, for every kind of day
  (`patterns`) that a name tells apart.

### Proofs (`EmissionProofs`)

For any configurations, raw files, species, inventories and number of tries.
What is assumed is what the job itself relies on: numbers are numbers
(`JobAssumption`); there are finitely many raw files and one called "blend" in
a directory of real time is of the day of that directory
(`RawFileAssumption`); the HEMCO file turns its collections on before it opens
their sections, a representative sector has patterns (without any, nothing is
asked for and nothing missed), and no inventory has a file with `$MM` or another
field left in its name (`HemcoAssumption`): an entry whose rule leaves a field
out fails the job, in the model as in the code.

| theorem | states | hypothesis |
|---|---|---|
| `FiresDelivered` | `FireDaysDelivered` | `OneVersion` |
| `NexusDelivered` | `NexusDaysDelivered` | |

`OneVersion` says that a historical directory has one file of a day; the first
of the divergences below is what happens without it.

`FireInv` follows the files through the steps. A search that does not fail has
found, in the order of days, one file of each day (`GoodFind`,
`FoundInOrder`, `FoundInRealTime`): as many days as there are files in an
interval of that length is every day (`FillInterval`), so pairing files and
days by position pairs each file with its own day (`PairedWithDays`). What is
combined then has the data and the date of the day (`GoodFires`), and
`FiresDone` says the same of COM for every member from the last copy on,
whatever an earlier try had left there; a copy is found by its number, which is
division with remainder (`Numbered`, `CopyNumber`). `NexusInv` follows the
inventories (`UsedIsParsed`: one pass over the lines finds every entry whose
sections are on; `FilesOfDay`: the names asked for are those of the day), the hours and their days (`GoodDay`): the hours of a day are
joined up to the first that is missing, and the loop over days ends at the
first day that has none, so a day of the forecast that is in COM has its hours
in a row, and one that is not there has failed the job.

`ArithmeticTheorems` has what several of the proofs need: quotients, multiples,
places in a table, that a set of numbers that is not empty has a least one, and
induction over the naturals stated for sets, without an operator parameter. A
function that is defined by recursion on a number is proved there to exist
(`Iteration`), and a sequence of rising positions to reach every place (`Cuts`).

Known divergences, outside of the raw files and configurations of the run:

* the version in the name of a GBBEPx file is not looked at
  (`chem_fire_emission.py:394-455`): with two versions in the directory files
  shift against days, and `FireDaysDelivered` is violated;
* of "today and two previous days" (`:348`) the third is never reached; an NRT
  directory without files ends the search; a NRT file that is in COARDS form
  already ends the task (`:592`, `:814`); a "blend" file among historical ones
  is an `IndexError` (`:445`);
* QFED in real time always fails (`AERO_EMIS_FIRE_DIR` is not exported); a
  single missing species is left out silently; `none`, which `config.aero`
  documents, raises, as does NEXUS `Monthly`;
* NEXUS with `Daily` leaves out the last day (`nexus_emission.py:181`), and an
  hour that is missing shortens its day without an error (`:395`).

## 9. What is not modelled

Within the parts above: what `exglobal_cleanup.sh` removes and rewound cycles;
jobs of the workflow that fail for good; the creation of directories by
`setup_expt.py`; the contents of archive templates beyond required files and
restarts; namelists except `ODA_INCUPD`; the doorman's own programs.

Not at all, with the reason in `PROJECT.json`: ecFlow definitions (generated;
their triggers are those of the rocoto tasks), analysis tasks, staging,
products and monitoring (linear jobs around external programs), numerical
helpers (floating point), the MPMD and scron runners and the post managers
(their hazards are a status among several chunks, a mail that could not be
sent, a file taken for complete as soon as it can be read,
`wait_for_file.sh:38`), the viewer, the pipelines and the build.
