------------------------------ MODULE Forecast ------------------------------
(***************************************************************************)
(* The forecast job of one cycle: JGLOBAL_FCST and exglobal_fcst.sh run    *)
(* the coupled model one segment after the other.  All the attempts of all *)
(* the segments share the directories DATArestart and DATAoutput, so an    *)
(* attempt finds there what earlier ones left, and UFS_det decides from    *)
(* those files where the model starts.  Time is counted in ocean windows   *)
(* of FHOUT_OCN hours since the cycle; restart intervals and segments are  *)
(* whole numbers of windows, the aerosol output has hours of its own.      *)
(* With IAU the model of a first attempt starts half a cycle early: its    *)
(* time 0 stands for that start, and what it writes before the cycle is    *)
(* left out.                                                               *)
(*                                                                         *)
(* The model executable is external.  It integrates one window at a time,  *)
(* writes a restart per component every restart_interval, and does not     *)
(* step on before the restarts of the components other than the ocean are  *)
(* closed.  The ocean writes its restarts and its history asynchronously;  *)
(* the history of a window is closed only after the ocean restart of the   *)
(* time at which the window starts.                                        *)
(***************************************************************************)
EXTENDS Integers

CONSTANTS
    Comps,              \* the components with restarts in this configuration
    cplchm,             \* cplchm: the aerosol component runs too
    FHOUT_OCN,          \* hours per ocean history file: one window
    FHOUT_AERO,         \* hours between the aerosol files
    restart_interval_gfs, \* windows between the restarts of a forecast run, at
                        \* most the forecast (FV3_postdet cuts it)
    NSeg,               \* number of segments in FCST_SEGMENTS
    Bound,              \* FCST_SEGMENTS: segment s is from Bound[s] to Bound[s+1]
    RUN,
    assim_freq,         \* windows between cycles
    DOIAU,              \* incremental analysis update; DOIAU_ENKF for enkf*
    COLD_EXP,           \* not EXP_WARM_START: the first cycle of a cycled
                        \* experiment, any of a forecast-only one
    DO_AERO_ANL,        \* aerosol analysis
    ODA_INCUPD,         \* config.ocn: the ocean increment is applied
    COPY_FINAL_RESTARTS,
    KEEPDATA,
    Staged,             \* what may be in COM at the start: sets of components
                        \* with a restart, and "ic" for gfs_ctrl.nc
    MAXTRIES,           \* rocoto submits a task this many times
    MaxCrashes,         \* bound on the attempts that are killed or whose copies
                        \* fail without cause
    MaxRewinds          \* bound on the reruns of a finished forecast

Horizon == Bound[NSeg]

\* FV3_out: the runs that leave restarts for the next cycle.
Cycled == RUN \in {"gdas", "enkfgdas", "enkfgfs", "gcdas", "enkfgcafs"}

\* config.base: with IAU a cycled run also needs the start of the window, and
\* so does the aerosol analysis of GCAFS.
restart_interval ==
    IF Cycled
    THEN (IF DOIAU \/ (RUN = "gcdas" /\ DO_AERO_ANL) THEN 3 ELSE 6) \div FHOUT_OCN
    ELSE restart_interval_gfs

\* common_predet: where the model of the next cycle starts.
model_start_date_next_cycle ==
    IF DOIAU \/ DO_AERO_ANL THEN assim_freq - assim_freq \div 2 ELSE assim_freq

ASSUME ConfigAssumption ==
    /\ Comps \subseteq {"fv3", "med", "ocn", "ice", "wav"}
    /\ "fv3" \in Comps
    /\ "med" \in Comps <=> "ocn" \in Comps
    /\ Cycled \/ RUN \in {"gfs", "gefs", "sfs", "gcafs"}
    /\ COLD_EXP \in BOOLEAN /\ DOIAU \in BOOLEAN /\ DO_AERO_ANL \in BOOLEAN
    /\ cplchm \in BOOLEAN /\ ODA_INCUPD \in BOOLEAN
    /\ COPY_FINAL_RESTARTS \in BOOLEAN /\ KEEPDATA \in BOOLEAN
    /\ Staged \subseteq SUBSET (Comps \cup {"ic"})
    /\ MAXTRIES \in Nat \ {0} /\ MaxCrashes \in Nat /\ MaxRewinds \in Nat

ASSUME HoursAssumption ==
    /\ FHOUT_AERO \in Nat \ {0} /\ FHOUT_OCN \in Nat \ {0}
    /\ FHOUT_OCN % FHOUT_AERO = 0
    /\ restart_interval_gfs \in Nat \ {0}
    /\ NSeg \in Nat \ {0}
    /\ Bound \in [0..NSeg -> Nat]
    /\ Bound[0] = 0
    /\ \A s, t \in 0..NSeg : s < t => Bound[s] < Bound[t]
    /\ assim_freq \in Nat \ {0}
    \* config.base: three-hourly ocean output, and half a cycle is 3 hours
    /\ Cycled => FHOUT_OCN = 3 /\ assim_freq = 2
    \* a forecast has a restart at the end of every segment
    /\ ~Cycled => \A s \in 0..NSeg : Bound[s] % restart_interval = 0

VARIABLES
    pc,         \* what the current attempt does; "idle" between two attempts
    seg,        \* FCST_SEGMENT
    tries,      \* submissions of this segment's task
    crashes,    \* attempts killed, or failed in a copy, so far
    rewinds,    \* reruns of the finished forecast so far
    prev,       \* the member of Staged this cycle found
    part,       \* files that exist in DATArestart/DATAoutput, not fully written
    whole,      \* files that exist there and are complete
    cleaned,    \* an attempt has begun to remove DATArestart
    now,        \* the time the running model has reached
    todo,       \* files the running model still has to open
    opened,     \* files the running model is writing
    start,      \* the time the model of this attempt starts at
    rerun,      \* RERUN = YES
    warm,       \* warm_start
    oda,        \* ODA_INCUPD as the namelist of this attempt has it
    out,        \* the components whose *_out is still to run
    com,        \* restarts copied to COM
    chemData,   \* hours of the aerosol files in this attempt's DATA
    chemCom     \* hours of the aerosol files in COM

disk == <<part, whole, cleaned>>
model == <<now, todo, opened>>
decision == <<start, rerun, warm, oda>>
products == <<com, chemData, chemCom>>
job == <<seg, tries, crashes, rewinds, prev>>
vars == <<pc, job, disk, model, decision, out, products>>

-----------------------------------------------------------------------------
FHMIN == Bound[seg]
FHMAX == Bound[seg + 1]          \* forecast_end_cycle
LastSegment == seg = NSeg - 1

cplflx == "ocn" \in Comps
rerunAllowed == RUN \notin {"gdas", "enkfgdas", "enkfgfs"}
HistoryChecked == cplflx /\ FHOUT_OCN <= 6

Res(c, h) == <<c, h>>            \* the restart of component c at hour h
His(w) == <<"his", w>>           \* the ocean history of the window from hour w
Exists(f) == f \in part \/ f \in whole

\* Mistaken variant: the restart at the end of the segment is not written.
RestartHour_NotAtEnd(h) == h > 0 /\ h % restart_interval = 0 /\ h < FHMAX

RestartHour(h) == h > 0 /\ h % restart_interval = 0
Hours == 0..Horizon

\* Mistaken variants: the history of one window is enough, or of none.
AllRestartsFound_OneWindow(d) ==
    /\ \A c \in Comps : Exists(Res(c, d))
    /\ HistoryChecked => Exists(His(d))
AllRestartsFound_NoHistory(d) == \A c \in Comps : Exists(Res(c, d))

\* UFS_det's collective check of the restarts at hour d.
AllRestartsFound(d) ==
    /\ \A c \in Comps : Exists(Res(c, d))
    /\ HistoryChecked => Exists(His(d)) /\ Exists(His(d + 1))

\* Mistaken variant: only restarts of the current segment are looked at.
Candidates_OfSegment == {d \in Hours : d >= FHMIN /\ Exists(Res("fv3", d))}

Candidates == {d \in Hours : Exists(Res("fv3", d))}
Accepted == {d \in Candidates : AllRestartsFound(d)}

\* Mistaken variant: the files are looked at from the oldest to the newest.
Newest_Oldest(d) == d \in Accepted /\ \A e \in Accepted : d <= e

Newest(d) == d \in Accepted /\ \A e \in Accepted : e <= d

-----------------------------------------------------------------------------
Init ==
    /\ pc = "idle" /\ seg = 0 /\ tries = 0 /\ crashes = 0 /\ rewinds = 0
    /\ prev \in Staged
    /\ part = {} /\ whole = {} /\ cleaned = FALSE
    /\ now = 0 /\ todo = {} /\ opened = {}
    /\ start = 0 /\ rerun = FALSE /\ warm = FALSE /\ oda = ODA_INCUPD
    /\ out = {}
    /\ com = {} /\ chemData = {} /\ chemCom = {}

(***************************************************************************)
(* Rocoto submits the task of the current segment: JGLOBAL_FCST makes a    *)
(* DATA of its own for the attempt and sources the configuration.          *)
(***************************************************************************)
Submit ==
    /\ pc = "idle"
    /\ tries < MAXTRIES
    /\ pc' = "det"
    /\ tries' = tries + 1
    /\ UNCHANGED <<seg, crashes, rewinds, prev, disk, model, decision, out, products>>

\* The processes of the attempt are gone, and its DATA is of no more use.
ProcessesEnd ==
    /\ now' = 0 /\ todo' = {} /\ opened' = {} /\ out' = {}
    /\ start' = 0 /\ rerun' = FALSE /\ warm' = FALSE /\ oda' = ODA_INCUPD
    /\ chemData' = {}

\* The attempt ends with an error; the files it has written stay.
EndInError ==
    /\ pc' = IF tries < MAXTRIES THEN "idle" ELSE "dead"
    /\ ProcessesEnd
    /\ UNCHANGED <<seg, tries, rewinds, prev, disk, chemCom>>

Fail == EndInError /\ com' = com

\* The job is killed (wall clock, node failure, model failure) at any moment.
Crash ==
    /\ pc \notin {"idle", "done", "dead"}
    /\ crashes < MaxCrashes
    /\ crashes' = crashes + 1
    /\ Fail

-----------------------------------------------------------------------------
(***************************************************************************)
(* UFS_det.  A restart of the previous cycle makes it a warm start; a      *)
(* cold start needs gfs_ctrl.nc.  Then the newest restart of an earlier    *)
(* attempt that passes the check makes it a RERUN.  The MOM6 settings are  *)
(* those of a restart as soon as one FV3 restart has been looked at.       *)
(***************************************************************************)
ColdICsMissing == "fv3" \notin prev /\ "ic" \notin prev

RestartAtEnd ==
    /\ rerunAllowed
    /\ \E d \in Accepted : d >= FHMAX

DetFatal ==
    /\ pc = "det"
    /\ ColdICsMissing \/ RestartAtEnd
    /\ crashes' = crashes
    /\ Fail

DetRerun ==
    /\ pc = "det"
    /\ ~ColdICsMissing
    /\ rerunAllowed
    /\ \E d \in Accepted : Newest(d) /\ d < FHMAX /\ start' = d
    /\ pc' = "post"
    /\ rerun' = TRUE
    /\ warm' = TRUE
    /\ oda' = IF cplflx THEN FALSE ELSE oda
    /\ UNCHANGED <<job, disk, model, out, products>>

DetStart ==
    /\ pc = "det"
    /\ ~ColdICsMissing
    /\ ~rerunAllowed \/ Accepted = {}
    /\ pc' = "post"
    /\ start' = 0
    /\ rerun' = FALSE
    /\ warm' = ("fv3" \in prev)
    /\ oda' = IF rerunAllowed /\ cplflx /\ Candidates # {} THEN FALSE ELSE oda
    /\ UNCHANGED <<job, disk, model, out, products>>

(***************************************************************************)
(* The *_postdet functions stage the initial conditions, from DATArestart  *)
(* for a RERUN and from the previous cycle otherwise.  Ocean and ice need  *)
(* their restart; the waves may start from rest unless the mediator        *)
(* continues.  GOCART_postdet removes the aerosol files of the hours the   *)
(* model is about to write, because the model would not overwrite them.    *)
(***************************************************************************)
MediatorContinues == warm /\ "med" \in prev

PreviousMissing ==
    \/ "ocn" \in Comps \ prev
    \/ "ice" \in Comps \ prev
    \/ "wav" \in Comps \ prev /\ MediatorContinues

\* MOM6_postdet and CICE_postdet do not know these runs.
UnsupportedRun ==
    RUN \in {"gcdas", "enkfgcafs"} /\ Comps \cap {"ocn", "ice"} # {}

\* The hours of IAU: config.base takes them back for a cold experiment, UFS_det
\* only IAU_OFFSET for a cycle without restarts; a RERUN starts from the offset.
IAUHours == DOIAU /\ ~COLD_EXP
IAU_OFFSET == IF IAUHours /\ "fv3" \in prev THEN 6 ELSE 0
IAU_FHROT ==
    IF rerun THEN IAU_OFFSET + start * FHOUT_OCN
    ELSE IF IAUHours THEN 3 ELSE 0

AeroSeq(first) ==
    {h \in first..(FHMAX * FHOUT_OCN) : (h - first) % FHOUT_AERO = 0}

\* Mistaken variant: the list begins with the hour the model starts at, and
\* stops short of the last.
ChemHours_Shifted ==
    {h \in AeroSeq(IF IAU_FHROT > FHMIN * FHOUT_OCN THEN IAU_FHROT ELSE FHMIN * FHOUT_OCN) :
        h < FHMAX * FHOUT_OCN}

\* Mistaken variant: the start of the model counts, not that of the segment.
ChemHours_FromStart == AeroSeq(IAU_FHROT + FHOUT_AERO)

\* GOCART_output_fh.
ChemHours ==
    AeroSeq(FHOUT_AERO +
        (IF IAU_FHROT > FHMIN * FHOUT_OCN THEN IAU_FHROT ELSE FHMIN * FHOUT_OCN))

PostDet ==
    /\ pc = "post"
    /\ rerun \/ ~PreviousMissing
    /\ ~UnsupportedRun
    /\ pc' = "run"
    /\ now' = start
    /\ chemCom' = IF cplchm THEN chemCom \ ChemHours ELSE chemCom
    /\ UNCHANGED <<job, disk, todo, opened, decision, out, com, chemData>>

\* An incomplete restart may lack a file that cpreq requires.
PostDetFatal ==
    /\ pc = "post"
    /\ \/ IF rerun THEN \E c \in Comps : Res(c, start) \in part ELSE PreviousMissing
       \/ UnsupportedRun
    /\ crashes' = crashes
    /\ Fail

-----------------------------------------------------------------------------
(***************************************************************************)
(* The executable.                                                         *)
(***************************************************************************)
Busy == todo \cup opened
RestartsAt(h) == IF RestartHour(h) THEN {Res(c, h) : c \in Comps} ELSE {}

\* The aerosol files of a window are those of the hours up to its end.
AeroFiles(w) ==
    {h \in (w * FHOUT_OCN + 1)..((w + 1) * FHOUT_OCN) : h % FHOUT_AERO = 0}

\* One window of integration.
Integrate ==
    /\ pc = "run"
    /\ now < FHMAX
    /\ \A f \in Busy : f[1] \in {"ocn", "his"}
    /\ now' = now + 1
    /\ todo' = todo \cup RestartsAt(now + 1)
                    \cup (IF cplflx THEN {His(now)} ELSE {})
    /\ chemData' = IF cplchm THEN chemData \cup AeroFiles(now) ELSE chemData
    /\ UNCHANGED <<pc, job, disk, opened, decision, out, com, chemCom>>

\* Mistaken variant: the file an earlier attempt left keeps passing for whole.
Open_InPlace(f) ==
    /\ pc = "run"
    /\ f \in todo
    /\ \A g \in Busy : g[1] = f[1] => g[2] >= f[2]
    /\ todo' = todo \ {f}
    /\ opened' = opened \cup {f}
    /\ part' = part \cup {f}
    /\ UNCHANGED <<pc, job, whole, cleaned, now, decision, out, products>>

\* A writer opens a file: it exists from now on, and loses what it held.
\* Each stream writes its files in the order of their hours.
Open(f) ==
    /\ pc = "run"
    /\ f \in todo
    /\ \A g \in Busy : g[1] = f[1] => g[2] >= f[2]
    /\ todo' = todo \ {f}
    /\ opened' = opened \cup {f}
    /\ part' = part \cup {f}
    /\ whole' = whole \ {f}
    /\ UNCHANGED <<pc, job, cleaned, now, decision, out, products>>

Close(f) ==
    /\ pc = "run"
    /\ f \in opened
    /\ f[1] = "his" => Res("ocn", f[2]) \notin Busy
    /\ opened' = opened \ {f}
    /\ part' = part \ {f}
    /\ whole' = whole \cup {f}
    /\ UNCHANGED <<pc, job, cleaned, now, todo, decision, out, products>>

\* The executable ends once every file is written; the *_out functions follow.
ModelEnd ==
    /\ pc = "run"
    /\ now >= FHMAX
    /\ Busy = {}
    /\ pc' = "out"
    /\ out' = Comps \cup (IF cplchm THEN {"chem"} ELSE {})
    /\ UNCHANGED <<job, disk, model, decision, products>>

-----------------------------------------------------------------------------
(***************************************************************************)
(* FV3_out, MOM6_out, CMEPS_out, WW3_out and CICE_out, in this order, copy *)
(* restarts to COM: a cycled run those the next cycle starts from, another *)
(* run, if told to, those of the segment's end.                            *)
(***************************************************************************)
OutOrder(c) ==
    CASE c = "fv3" -> 1 [] c = "ocn" -> 2 [] c = "med" -> 3
      [] c = "wav" -> 4 [] c = "ice" -> 5 [] c = "chem" -> 6

NextOut(c) == c \in out /\ \A d \in out : OutOrder(c) <= OutOrder(d)

CopyHours(c) ==
    IF Cycled
    THEN CASE c = "fv3" -> {h \in model_start_date_next_cycle..FHMAX :
                (h - model_start_date_next_cycle) % restart_interval = 0}
           [] c = "wav" -> IF RUN = "gdas"
                           THEN {model_start_date_next_cycle, assim_freq} ELSE {}
           [] OTHER -> {model_start_date_next_cycle}
    ELSE IF COPY_FINAL_RESTARTS /\ ~(c = "wav" /\ RUN = "sfs") THEN {FHMAX} ELSE {}

Wanted(c) == {Res(c, h) : h \in CopyHours(c)}

Present(c) == {f \in Wanted(c) : Exists(f)}

\* run_mpmd.sh fails on a restart that is not there; CMEPS_out leaves it out.
CanCopy(c) == c = "med" \/ \A f \in Wanted(c) : Exists(f)

\* Mistaken variant: the list of copies is begun anew for every time.
Component_out_Last(c) ==
    /\ pc = "out"
    /\ NextOut(c)
    /\ CanCopy(c)
    /\ com' = com \cup {f \in Present(c) : \A g \in Wanted(c) : g[2] <= f[2]}
    /\ out' = out \ {c}
    /\ UNCHANGED <<pc, job, disk, model, decision, chemData, chemCom>>

Component_out(c) ==
    /\ pc = "out"
    /\ NextOut(c)
    /\ CanCopy(c)
    /\ com' = com \cup Present(c)
    /\ out' = out \ {c}
    /\ UNCHANGED <<pc, job, disk, model, decision, chemData, chemCom>>

\* One of the copies that run_mpmd.sh makes side by side fails, because its
\* restart is missing or by itself; any of the others are made, each one whole.
OutFatal(c) ==
    /\ pc = "out"
    /\ NextOut(c)
    /\ IF CanCopy(c) THEN crashes < MaxCrashes /\ crashes' = crashes + 1
                     ELSE crashes' = crashes
    /\ \E copied \in SUBSET Present(c) :
          /\ CanCopy(c) => copied # Present(c)
          /\ com' = com \cup copied
    /\ EndInError

\* GOCART_out copies the aerosol files found in this attempt's DATA.
GOCART_out ==
    /\ pc = "out"
    /\ NextOut("chem")
    /\ chemCom' = chemCom \cup (chemData \cap ChemHours)
    /\ out' = out \ {"chem"}
    /\ UNCHANGED <<pc, job, disk, model, decision, com, chemData>>

-----------------------------------------------------------------------------
(***************************************************************************)
(* The end of JGLOBAL_FCST: without KEEPDATA the last segment removes      *)
(* DATArestart, directory by directory.                                    *)
(***************************************************************************)
Restarts == {f \in part \cup whole : f[1] # "his"}

RemoveRestart(c) ==
    /\ pc = "out" /\ out = {}
    /\ ~KEEPDATA /\ LastSegment
    /\ \E f \in Restarts : f[1] = c
    /\ part' = {f \in part : f[1] # c}
    /\ whole' = {f \in whole : f[1] # c}
    /\ cleaned' = TRUE
    /\ UNCHANGED <<pc, job, model, decision, out, products>>

Finish ==
    /\ pc = "out" /\ out = {}
    /\ ~KEEPDATA /\ LastSegment => Restarts = {}
    /\ pc' = IF LastSegment THEN "done" ELSE "idle"
    /\ seg' = IF LastSegment THEN seg ELSE seg + 1
    /\ tries' = 0
    /\ ProcessesEnd
    /\ UNCHANGED <<crashes, rewinds, prev, disk, com, chemCom>>

\* rocotorewind of the finished forecast's last segment.
Rewind ==
    /\ pc = "done"
    /\ rewinds < MaxRewinds
    /\ rewinds' = rewinds + 1
    /\ pc' = "idle"
    /\ UNCHANGED <<seg, tries, crashes, prev, disk, model, decision, out, products>>

-----------------------------------------------------------------------------
Terminated == pc \in {"done", "dead"} /\ UNCHANGED vars

Program ==
    \/ Submit
    \/ DetFatal \/ DetRerun \/ DetStart
    \/ PostDet \/ PostDetFatal
    \/ Integrate \/ (\E f \in todo : Open(f)) \/ (\E f \in opened : Close(f))
    \/ ModelEnd
    \/ (\E c \in Comps : Component_out(c) \/ OutFatal(c) \/ RemoveRestart(c))
    \/ GOCART_out
    \/ Finish

Next == Program \/ Crash \/ Rewind \/ Terminated

Spec == Init /\ [][Next]_vars

\* Rocoto keeps submitting and a running job makes progress; nothing obliges
\* a job to be killed or an operator to rewind.
FairSpec == Spec /\ WF_vars(Program)

-----------------------------------------------------------------------------
(* What the job promises. *)
Files == (Comps \cup {"his"}) \X Nat

\* Types of the variables of the forecast job.
TypeOK ==
    /\ pc \in {"idle", "det", "post", "run", "out", "done", "dead"}
    /\ seg \in 0..(NSeg - 1)
    /\ tries \in 0..MAXTRIES
    /\ crashes \in 0..MaxCrashes
    /\ rewinds \in 0..MaxRewinds
    /\ prev \subseteq Comps \cup {"ic"}
    /\ part \subseteq Files /\ whole \subseteq Files /\ part \cap whole = {}
    /\ cleaned \in BOOLEAN
    /\ now \in Nat /\ start \in Nat
    /\ todo \subseteq Files /\ opened \subseteq Files
    /\ rerun \in BOOLEAN /\ warm \in BOOLEAN /\ oda \in BOOLEAN
    /\ out \subseteq Comps \cup {"chem"}
    /\ com \subseteq Files
    /\ chemData \subseteq Nat /\ chemCom \subseteq Nat

-----------------------------------------------------------------------------
Sound == rerunAllowed /\ HistoryChecked /\ ~cleaned

(***************************************************************************)
(* A RERUN starts from restarts that were completely written, although     *)
(* UFS_det only tests that files exist: the history of two ocean windows   *)
(* after the restart shows that the model had gone past it.  This is for   *)
(* the runs where that history is checked, as long as DATArestart has not  *)
(* been removed.                                                           *)
(***************************************************************************)
StartsWhole ==
    rerun /\ pc \in {"post", "run"} => \A c \in Comps : Res(c, start) \in whole
RerunFromWholeRestart == Sound => StartsWhole

(***************************************************************************)
(* The fatal exit of UFS_det, a restart at or after the end of the         *)
(* forecast, is not reached when the ocean history is checked, whatever    *)
(* attempts were killed and even after a finished forecast is rewound.     *)
(***************************************************************************)
NeverRestartsAtEnd == pc = "det" /\ HistoryChecked => ~RestartAtEnd

(***************************************************************************)
(* A later segment goes on from restarts of the forecast so far: no        *)
(* attempt of it integrates the whole forecast again from the analysis.    *)
(***************************************************************************)
SegmentContinues ==
    seg > 0 /\ ~cleaned /\ pc \in {"post", "run"} => rerun

(***************************************************************************)
(* When a segment's model has ended and when its task has succeeded, all   *)
(* ocean history up to its end is complete, whichever attempts wrote it    *)
(* and although each attempt rewrites windows others may have left.        *)
(***************************************************************************)
Delivered == IF pc \in {"out", "done"} THEN FHMAX ELSE FHMIN
HistoryComplete ==
    Sound /\ (pc \in {"out", "done"} \/ tries = 0)
        => \A w \in Hours : w < Delivered => His(w) \in whole

(***************************************************************************)
(* The restarts the *_out functions copy are complete, none is left out,   *)
(* not even the mediator's, which CMEPS_out would skip without an error.   *)
(***************************************************************************)
HandsOverWhole ==
    pc = "out" => /\ \A c \in Comps \cap out : Wanted(c) \subseteq whole
                  /\ \A c \in Comps \ out : Wanted(c) \subseteq com

\* The task does not succeed without the restarts the next job needs in COM.
SuccessHandsOver ==
    pc = "done" => \A c \in Comps : Wanted(c) \subseteq com

(***************************************************************************)
(* The aerosol files an attempt has written are in COM once its GOCART_out *)
(* is over: all those after the start of its model and of its segment.     *)
(* The code does so only where config.base has no hours of IAU; with them  *)
(* the first files an attempt writes are never copied.                     *)
(***************************************************************************)
AeroTimes == {h \in 0..(Horizon * FHOUT_OCN) : h % FHOUT_AERO = 0}
AttemptAerosolsDelivered ==
    pc = "out" /\ cplchm /\ "chem" \notin out
        => \A h \in AeroTimes :
              h > start * FHOUT_OCN /\ h > FHMIN * FHOUT_OCN /\ h <= FHMAX * FHOUT_OCN
                  => h \in chemCom

(***************************************************************************)
(* No attempt removes the aerosol files of the segments before its own,    *)
(* although its model may have to start before the segment does.           *)
(***************************************************************************)
EarlierAerosolsKept ==
    [][\A h \in chemCom : h <= FHMIN * FHOUT_OCN => h \in chemCom']_vars

(***************************************************************************)
(* No step of any attempt rewrites a restart that UFS_det would accept:    *)
(* what a later attempt may start from stays complete.                     *)
(***************************************************************************)
KeepsAccepted ==
    Sound' => \A d \in Accepted : \A c \in Comps :
        Res(c, d) \in whole => Res(c, d) \in whole'
AcceptedNotRewritten == [][KeepsAccepted]_vars

(***************************************************************************)
(* Kills that leave one try per segment do not keep the forecast from      *)
(* finishing (with everything it needs staged for a warm start).  The one  *)
(* exception is a kill while DATArestart is removed and another kill: the  *)
(* ocean history, which stays, may then vouch for a restart at the end     *)
(* that the attempt between the two had not completed.                     *)
(***************************************************************************)
KilledRemoving == cleaned /\ pc \in {"idle", "dead"}
FinishesDespiteKills ==
    MaxCrashes < MAXTRIES /\ Comps \subseteq prev
        => <>(pc = "done" \/ (KilledRemoving /\ crashes > 1))

-----------------------------------------------------------------------------
(* What a comment of the code says and the code does not do.               *)

\* "Copy increment (only when RERUN=NO)": an attempt that starts from the
\* analysis applies the ocean increment the configuration asks for.
AnalysisStartAppliesIncrement ==
    pc = "run" /\ ~rerun => oda = ODA_INCUPD
=============================================================================
