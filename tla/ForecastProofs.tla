--------------------------- MODULE ForecastProofs ---------------------------
(***************************************************************************)
(* Theorems about Forecast, for every configuration its assumptions allow. *)
(*                                                                         *)
(* The properties that matter are not inductive: what makes an accepted    *)
(* restart complete is what all earlier attempts left, and what the        *)
(* running one is about to write.  IInv says both.                         *)
(***************************************************************************)
EXTENDS Forecast, ArithmeticTheorems, TLAPS

Running == pc \in {"run", "out"}
Started == pc \in {"post", "run", "out"}

-----------------------------------------------------------------------------
(* The attempt: its hours, and the files it is busy with.                  *)

Attempt ==
    /\ pc \notin {"idle", "done"} => tries > 0
    /\ ~Running => now = 0
    /\ Running => start <= now /\ now <= FHMAX
    /\ Started => start < FHMAX
    /\ pc # "run" => Busy = {}
    /\ pc = "out" => now = FHMAX
    /\ rerun => rerunAllowed /\ Started /\ RestartHour(start)
    /\ Started /\ ~rerun => start = 0
    /\ Running => ~UnsupportedRun

\* What is open exists, and what is to be opened is not open.
BusyFiles == opened \subseteq part /\ todo \cap opened = {}

\* The running model writes nothing from before its start or after now.
BusyHours ==
    /\ \A c \in Comps, d \in Nat : Res(c, d) \in Busy =>
            start < d /\ d <= now /\ RestartHour(d) /\ (c # "ocn" => d = now)
    /\ \A w \in Nat : His(w) \in Busy => start <= w /\ w < now

\* The ocean history of a window waits for the restart at its start.
OceanOrder ==
    cplflx => \A d \in Nat :
        Res("ocn", d) \in Busy /\ d < now => His(d) \in Busy

\* What the model has passed is written, or is being written.
Passed ==
    Running =>
        /\ pc = "run" \/ out # {} => \A c \in Comps, d \in Nat :
              RestartHour(d) /\ start < d /\ d <= now => Res(c, d) \in Busy \cup whole
        /\ cplflx => \A w \in Nat : start <= w /\ w < now => His(w) \in Busy \cup whole

-----------------------------------------------------------------------------
(* The files of all the attempts.                                          *)

\* No file is from after the end of the segment or between restart times.
FileHours ==
    /\ \A c \in Comps, d \in Nat : Exists(Res(c, d)) => RestartHour(d)
    /\ \A w \in Nat : Exists(His(w)) => w < FHMAX

\* The history of the window after a restart time vouches for the restarts
\* of that time, for the window before, and for all history before them.
Vouched ==
    Sound => \A d \in Nat : RestartHour(d) /\ Exists(His(d + 1)) =>
        /\ \A c \in Comps : Res(c, d) \in whole
        /\ Exists(His(d))
        /\ \A w \in Nat : w < d => His(w) \in whole

\* An attempt that starts before a vouched restart has gone past it, and is
\* not busy with what it vouches for.
NotBusyBehind ==
    Sound /\ Started => \A d \in Nat :
        start < d /\ RestartHour(d) /\ Exists(His(d + 1)) =>
            /\ d + 1 < now
            /\ \A c \in Comps : Res(c, d) \notin Busy
            /\ \A w \in Nat : w <= d => His(w) \notin Busy

\* Everything up to the start of an attempt is complete.
StartComplete ==
    Sound /\ Started =>
        /\ \A c \in Comps, d \in Nat : RestartHour(d) /\ d <= start => Res(c, d) \in whole
        /\ \A w \in Nat : w < start => His(w) \in whole

IInv ==
    /\ Attempt /\ BusyFiles /\ BusyHours /\ OceanOrder /\ Passed
    /\ FileHours /\ Vouched /\ NotBusyBehind /\ StartComplete
    /\ HistoryComplete
-----------------------------------------------------------------------------
(* Constants.                                                              *)

LEMMA SegmentsWithinHorizon ==
    ASSUME TypeOK
    PROVE  FHMIN \in Nat /\ FHMAX \in Nat /\ FHMIN < FHMAX /\ Horizon \in Nat /\ FHMAX <= Horizon
BY HoursAssumption DEF TypeOK, FHMIN, FHMAX, Horizon

LEMMA FileNames ==
    /\ \A c \in Comps, d \in Nat : Res(c, d) \in Files
    /\ \A w \in Nat : His(w) \in Files
    /\ \A f \in Files : f = <<f[1], f[2]>> /\ f[2] \in Nat
    /\ "his" \notin Comps
BY ConfigAssumption DEF Res, His, Files

-----------------------------------------------------------------------------
(* Type correctness.                                                       *)

Flags == cleaned \in BOOLEAN /\ rerun \in BOOLEAN /\ warm \in BOOLEAN /\ oda \in BOOLEAN

LEMMA InitTypeOK == Init => TypeOK
<1> SUFFICES ASSUME Init PROVE TypeOK
    OBVIOUS
<1>1. Flags
    BY ConfigAssumption DEF Init, Flags
<1>2. 0 \in 0..(NSeg - 1) /\ 0 \in 0..MAXTRIES /\ 0 \in 0..MaxCrashes /\ 0 \in 0..MaxRewinds
    BY ConfigAssumption, HoursAssumption
<1> QED
    BY <1>1, <1>2, ConfigAssumption DEF Init, TypeOK, Flags

LEMMA FailTypeOK ==
    ASSUME TypeOK, EndInError, crashes' \in 0..MaxCrashes, com' \subseteq Files
    PROVE  TypeOK'
BY ConfigAssumption DEF TypeOK, EndInError, ProcessesEnd, disk

LEMMA StepTypeOK == TypeOK /\ [Next]_vars => TypeOK'
<1> SUFFICES ASSUME TypeOK, [Next]_vars PROVE TypeOK'
    OBVIOUS
<1> USE DEF TypeOK, job, disk, model, decision, products
<1>1. CASE Submit
    BY <1>1, ConfigAssumption DEF Submit
<1>2. CASE DetFatal
    BY <1>2, FailTypeOK DEF DetFatal, Fail, TypeOK
<1>3. CASE DetRerun
  <2>1. start' \in Nat
      BY <1>3 DEF DetRerun, Newest, Accepted, Candidates, Hours
  <2>2. oda' = FALSE \/ oda' = oda
      BY <1>3 DEF DetRerun
  <2>3. oda' \in BOOLEAN
      BY <2>2
  <2> QED
      BY <1>3, <2>1, <2>3 DEF DetRerun
<1>4. CASE DetStart
  <2>1. oda' = FALSE \/ oda' = oda
      BY <1>4 DEF DetStart
  <2>2. oda' \in BOOLEAN
      BY <2>1
  <2>3. warm' \in BOOLEAN
    <3>1. warm' = ("fv3" \in prev)
        BY <1>4 DEF DetStart
    <3>2. CASE "fv3" \in prev
        BY <3>1, <3>2
    <3>3. CASE "fv3" \notin prev
        BY <3>1, <3>3
    <3> QED
        BY <3>2, <3>3
  <2> QED
      BY <1>4, <2>2, <2>3 DEF DetStart
<1>5. CASE PostDet
    BY <1>5 DEF PostDet
<1>6. CASE PostDetFatal
    BY <1>6, FailTypeOK DEF PostDetFatal, Fail, TypeOK
<1>7. CASE Integrate
  <2>1. RestartsAt(now + 1) \subseteq Files /\ His(now) \in Files
    <3>1. now + 1 \in Nat
        OBVIOUS
    <3>2. \A c \in Comps : Res(c, now + 1) \in Files
        BY <3>1, FileNames
    <3> QED
        BY <3>2, FileNames DEF RestartsAt
  <2>2. todo' \subseteq Files
      BY <1>7, <2>1 DEF Integrate
  <2>3. AeroFiles(now) \subseteq Nat
      BY HoursAssumption DEF AeroFiles
  <2>4. chemData' \subseteq Nat
      BY <1>7, <2>3 DEF Integrate
  <2>5. now' \in Nat
      BY <1>7 DEF Integrate
  <2> QED
      BY <1>7, <2>2, <2>4, <2>5 DEF Integrate
<1>8. CASE \E f \in todo : Open(f)
    BY <1>8 DEF Open
<1>9. CASE \E f \in opened : Close(f)
    BY <1>9 DEF Close
<1>10. CASE ModelEnd
    BY <1>10 DEF ModelEnd
<1>11. CASE \E c \in Comps : Component_out(c)
    BY <1>11 DEF Component_out, Present, Exists
<1>12. CASE \E c \in Comps : OutFatal(c)
  <2> PICK c \in Comps : OutFatal(c)
      BY <1>12
  <2>1. crashes' \in 0..MaxCrashes
      BY ConfigAssumption DEF OutFatal, TypeOK
  <2>2. com' \subseteq Files
      BY DEF OutFatal, Present, Exists, TypeOK
  <2> QED
      BY <2>1, <2>2, FailTypeOK DEF OutFatal
<1>13. CASE \E c \in Comps : RemoveRestart(c)
    BY <1>13 DEF RemoveRestart
<1>14. CASE GOCART_out
    BY <1>14 DEF GOCART_out
<1>15. CASE Finish
  <2>1. tries' \in 0..MAXTRIES
      BY <1>15, ConfigAssumption DEF Finish
  <2>2. seg' \in 0..(NSeg - 1)
      BY <1>15, HoursAssumption DEF Finish, LastSegment
  <2>3. oda' \in BOOLEAN
      BY <1>15, ConfigAssumption DEF Finish, ProcessesEnd
  <2> QED
      BY <1>15, <2>1, <2>2, <2>3 DEF Finish, ProcessesEnd
<1>16. CASE Crash
  <2>1. crashes' \in 0..MaxCrashes
      BY <1>16, ConfigAssumption DEF Crash
  <2> QED
      BY <1>16, <2>1, FailTypeOK DEF Crash, Fail, TypeOK
<1>17. CASE Rewind
    BY <1>17, ConfigAssumption DEF Rewind
<1>18. CASE UNCHANGED vars
    BY <1>18 DEF vars
<1> QED
    BY <1>1, <1>2, <1>3, <1>4, <1>5, <1>6, <1>7, <1>8, <1>9, <1>10, <1>11,
       <1>12, <1>13, <1>14, <1>15, <1>16, <1>17, <1>18
       DEF Next, Program, Terminated

\* Every reachable state of the forecast job has the types of TypeOK: no file
\* passes for complete while a writer has it open, and no bound is passed.
THEOREM TypeCorrect == Spec => []TypeOK
<1>1. QED BY InitTypeOK, StepTypeOK, PTL DEF Spec
-----------------------------------------------------------------------------
(* The invariant is inductive.                                             *)

LEMMA InitIInv == Init => IInv
<1> SUFFICES ASSUME Init PROVE IInv
    OBVIOUS
<1> USE DEF Init
<1>1. FHMIN = 0 /\ FHMAX \in Nat
    BY HoursAssumption DEF FHMIN, FHMAX
<1>2. Attempt /\ BusyFiles /\ BusyHours /\ OceanOrder /\ Passed
    BY DEF Attempt, BusyFiles, BusyHours, OceanOrder, Passed, Running, Started, Busy
<1>3. FileHours /\ Vouched /\ NotBusyBehind /\ StartComplete
    BY DEF FileHours, Vouched, NotBusyBehind, StartComplete, Started, Exists
<1>4. HistoryComplete
    BY <1>1 DEF HistoryComplete, Delivered, Hours
<1> QED
    BY <1>2, <1>3, <1>4 DEF IInv

LEMMA FailIInv ==
    ASSUME TypeOK, IInv, EndInError, pc \notin {"idle", "done"}
    PROVE  IInv'
<1> USE DEF IInv, EndInError, ProcessesEnd, disk
<1>1. Attempt' /\ BusyFiles' /\ BusyHours' /\ OceanOrder' /\ Passed'
    BY DEF Attempt, BusyFiles, BusyHours, OceanOrder, Passed, Running, Started, Busy
<1>2. FileHours' /\ Vouched'
    BY DEF FileHours, Vouched, Exists, FHMAX, Sound
<1>3. NotBusyBehind' /\ StartComplete'
    BY DEF NotBusyBehind, StartComplete, Started
<1>4. HistoryComplete'
    BY DEF HistoryComplete, Attempt, TypeOK
<1> QED
    BY <1>1, <1>2, <1>3, <1>4

LEMMA SubmitIInv ==
    ASSUME TypeOK, IInv, Submit
    PROVE  IInv'
<1> USE DEF IInv, Submit, disk, model, decision, products
<1>1. Attempt' /\ BusyFiles' /\ BusyHours' /\ OceanOrder' /\ Passed'
    BY DEF TypeOK, Attempt, BusyFiles, BusyHours, OceanOrder, Passed, Running, Started, Busy, FHMAX
<1>2. FileHours' /\ Vouched'
    BY DEF FileHours, Vouched, Exists, FHMAX, Sound
<1>3. NotBusyBehind' /\ StartComplete'
    BY DEF NotBusyBehind, StartComplete, Started
<1>4. HistoryComplete'
    BY DEF HistoryComplete, TypeOK
<1> QED
    BY <1>1, <1>2, <1>3, <1>4

\* UFS_det accepts only restarts that are vouched for, and no restart from
\* after the one it takes is.
LEMMA DetRerunIInv ==
    ASSUME TypeOK, IInv, DetRerun
    PROVE  IInv'
<1> USE DEF IInv, DetRerun, job, disk, model, products
<1>1. PICK d \in Accepted : Newest(d) /\ d < FHMAX /\ start' = d
    OBVIOUS
<1>2. d \in Nat /\ RestartHour(d) /\ 0 < d
    BY <1>1, ConfigAssumption DEF Accepted, Candidates, Hours, FileHours, RestartHour, AllRestartsFound
<1>3. Attempt' /\ BusyFiles' /\ BusyHours' /\ OceanOrder' /\ Passed'
    BY <1>1, <1>2 DEF TypeOK, Attempt, BusyFiles, BusyHours, OceanOrder, Passed, Running,
       Started, Busy, FHMAX, rerunAllowed
<1>4. FileHours' /\ Vouched'
    BY DEF FileHours, Vouched, Exists, FHMAX, Sound
<1>5. NotBusyBehind'
  <2> SUFFICES ASSUME Sound, NEW e \in Nat, d < e, RestartHour(e), Exists(His(e + 1))
               PROVE  FALSE
      BY <1>1 DEF NotBusyBehind, Sound, Exists, Started
  <2>1. e \in Hours
    <3>1. e + 1 < FHMAX
        BY DEF FileHours
    <3> QED
        BY <3>1, SegmentsWithinHorizon DEF TypeOK, Hours
  <2>2. e \in Accepted
      BY <2>1, ConfigAssumption DEF Accepted, Candidates, AllRestartsFound, Vouched, Exists
  <2> QED
      BY <1>1, <1>2, <2>1, <2>2 DEF Newest
<1>6. StartComplete'
  <2> SUFFICES ASSUME Sound
               PROVE  /\ \A c \in Comps, e \in Nat : RestartHour(e) /\ e <= d => Res(c, e) \in whole
                      /\ \A w \in Nat : w < d => His(w) \in whole
      BY <1>1 DEF StartComplete, Sound
  <2>1. Exists(His(d)) /\ Exists(His(d + 1))
      BY DEF Accepted, AllRestartsFound, Sound
  <2>2. \A w \in Nat : w < d => His(w) \in whole
      BY <1>2, <2>1 DEF Vouched
  <2>3. \A e \in Nat : e <= d => Exists(His(e + 1))
      BY <1>2, <2>1, <2>2 DEF Exists
  <2> QED
      BY <1>2, <2>2, <2>3 DEF Vouched
<1>7. HistoryComplete'
    BY DEF HistoryComplete, Attempt, TypeOK
<1> QED
    BY <1>3, <1>4, <1>5, <1>6, <1>7

\* An attempt starts from the analysis only if no restart is vouched for.
LEMMA DetStartIInv ==
    ASSUME TypeOK, IInv, DetStart
    PROVE  IInv'
<1> USE DEF IInv, DetStart, job, disk, model, products
<1>1. Attempt' /\ BusyFiles' /\ BusyHours' /\ OceanOrder' /\ Passed'
    BY SegmentsWithinHorizon DEF TypeOK, Attempt, BusyFiles, BusyHours, OceanOrder, Passed,
       Running, Started, Busy, FHMAX, FHMIN
<1>2. FileHours' /\ Vouched'
    BY DEF FileHours, Vouched, Exists, FHMAX, Sound
<1>3. NotBusyBehind'
  <2> SUFFICES ASSUME Sound, NEW e \in Nat, RestartHour(e), Exists(His(e + 1))
               PROVE  FALSE
      BY DEF NotBusyBehind, Sound, Exists
  <2>1. e \in Hours
    <3>1. e + 1 < FHMAX
        BY DEF FileHours
    <3> QED
        BY <3>1, SegmentsWithinHorizon DEF Hours
  <2>2. e \in Accepted
      BY <2>1, ConfigAssumption DEF Accepted, Candidates, AllRestartsFound, Vouched, Exists
  <2> QED
      BY <2>2 DEF Sound
<1>4. StartComplete'
    BY DEF StartComplete, RestartHour
<1>5. HistoryComplete'
    BY DEF HistoryComplete, Attempt, TypeOK
<1> QED
    BY <1>1, <1>2, <1>3, <1>4, <1>5

LEMMA PostDetIInv ==
    ASSUME TypeOK, IInv, PostDet
    PROVE  IInv'
<1> USE DEF IInv, PostDet, job, disk, decision
<1>1. Attempt' /\ BusyFiles' /\ BusyHours' /\ OceanOrder' /\ Passed'
    BY SegmentsWithinHorizon DEF TypeOK, Attempt, BusyFiles, BusyHours, OceanOrder, Passed,
       Running, Started, Busy, FHMAX
<1>2. FileHours' /\ Vouched'
    BY DEF FileHours, Vouched, Exists, FHMAX, Sound
<1>3. NotBusyBehind'
    BY DEF NotBusyBehind, Attempt, Running, Started, Sound, Exists
<1>4. StartComplete'
    BY DEF StartComplete, Started, Sound
<1>5. HistoryComplete'
    BY DEF HistoryComplete, Attempt, TypeOK
<1> QED
    BY <1>1, <1>2, <1>3, <1>4, <1>5

\* Only the ocean is busy when the model steps, and with nothing it has not passed.
LEMMA IntegrateIInv ==
    ASSUME TypeOK, IInv, Integrate
    PROVE  IInv'
<1> USE DEF IInv, Integrate, job, disk, decision
<1>1. now' = now + 1 /\ now + 1 \in Nat /\ now + 1 <= FHMAX
    BY SegmentsWithinHorizon DEF TypeOK
<1>2. \A c \in Comps, d \in Nat :
        Res(c, d) \in Busy' <=> Res(c, d) \in Busy \/ (d = now + 1 /\ RestartHour(d))
    BY FileNames DEF Busy, RestartsAt, Res, His
<1>3. \A w \in Nat : His(w) \in Busy' <=> His(w) \in Busy \/ (w = now /\ cplflx)
    BY FileNames DEF Busy, RestartsAt, Res, His
<1>4. \A c \in Comps, d \in Nat : Res(c, d) \in Busy => c = "ocn"
    BY FileNames DEF Res
<1>5. Attempt'
    BY <1>1 DEF Attempt, Running, Started, Busy, FHMAX, TypeOK
<1>6. BusyFiles'
  <2>1. His(now) \notin opened /\ \A c \in Comps : Res(c, now + 1) \notin opened
      BY <1>1 DEF BusyHours, Busy, TypeOK
  <2> QED
      BY <2>1 DEF BusyFiles, RestartsAt
<1>7. BusyHours'
    BY <1>1, <1>2, <1>3, <1>4 DEF BusyHours, Attempt, Running, TypeOK
<1>8. OceanOrder'
    BY <1>1, <1>2, <1>3, ConfigAssumption DEF OceanOrder, TypeOK, cplflx
<1>9. Passed'
    BY <1>1, <1>2, <1>3 DEF Passed, Running, TypeOK
<1>10. FileHours' /\ Vouched'
    BY DEF FileHours, Vouched, Exists, FHMAX, Sound
<1>11. NotBusyBehind'
    BY <1>1, <1>2, <1>3 DEF NotBusyBehind, Started, Sound, Exists, TypeOK
<1>12. StartComplete'
    BY DEF StartComplete, Started, Sound
<1>13. HistoryComplete'
    BY DEF HistoryComplete, Attempt, TypeOK
<1> QED
    BY <1>5, <1>6, <1>7, <1>8, <1>9, <1>10, <1>11, <1>12, <1>13

\* What a writer opens is behind the attempt's start and vouched for by nothing;
\* a history file is opened after all that its existence vouches for is complete.
LEMMA OpenIInv ==
    ASSUME TypeOK, IInv, NEW f \in todo, Open(f)
    PROVE  IInv'
<1> USE DEF IInv, Open, job, decision
<1>1. /\ Busy' = Busy
      /\ f \in Busy
      /\ \A g : Exists(g)' <=> Exists(g) \/ g = f
      /\ \A g : g \in whole' <=> g \in whole /\ g # f
    BY DEF Busy, Exists
<1>2. Attempt' /\ BusyHours' /\ OceanOrder'
    BY <1>1 DEF Attempt, BusyHours, OceanOrder, Running, Started, FHMAX
<1>3. BusyFiles'
    BY DEF BusyFiles
<1>4. Passed'
    BY <1>1 DEF Passed, Running
<1>5. ASSUME \E c \in Comps, d \in Nat : f = Res(c, d)
      PROVE  FileHours' /\ Vouched' /\ NotBusyBehind' /\ StartComplete'
  <2>1. PICK c \in Comps, d \in Nat : f = Res(c, d)
      BY <1>5
  <2>2. start < d /\ RestartHour(d) /\ \A w \in Nat : f # His(w)
      BY <1>1, <2>1, FileNames DEF BusyHours, Res, His
  <2>3. Sound => ~Exists(His(d + 1))
      BY <1>1, <2>1, <2>2 DEF NotBusyBehind, Started
  <2>4. FileHours'
      BY <1>1, <2>1, <2>2 DEF FileHours, FHMAX, Res
  <2>5. Vouched'
      BY <1>1, <2>1, <2>2, <2>3 DEF Vouched, Sound, Res
  <2>6. NotBusyBehind'
      BY <1>1, <2>2 DEF NotBusyBehind, Started, Sound
  <2>7. StartComplete'
      BY <1>1, <2>1, <2>2 DEF StartComplete, Started, Sound, Res, TypeOK
  <2> QED
      BY <2>4, <2>5, <2>6, <2>7
<1>6. ASSUME \E w \in Nat : f = His(w)
      PROVE  FileHours' /\ Vouched' /\ NotBusyBehind' /\ StartComplete'
  <2>1. PICK w \in Nat : f = His(w)
      BY <1>6
  <2>2. start <= w /\ w < now /\ \A c \in Comps, d \in Nat : f # Res(c, d)
      BY <1>1, <2>1, FileNames DEF BusyHours, Res, His
  <2>3. \A v \in Nat : v < w => His(v) \notin Busy
      BY <2>1 DEF His
  <2>4. Sound => \A v \in Nat : v < w => His(v) \in whole
      BY <2>2, <2>3 DEF Passed, StartComplete, Running, Started, Sound, HistoryChecked, TypeOK
  <2>5. Sound => \A d \in Nat : RestartHour(d) /\ d < w =>
            \A c \in Comps : Res(c, d) \notin Busy /\ Res(c, d) \in whole
    <3> SUFFICES ASSUME Sound, NEW d \in Nat, RestartHour(d), d < w, NEW c \in Comps
                 PROVE  Res(c, d) \notin Busy /\ Res(c, d) \in whole
        OBVIOUS
    <3>1. Res(c, d) \notin Busy
        BY <2>2, <2>3 DEF BusyHours, OceanOrder, Sound, HistoryChecked, TypeOK
    <3>2. start < d \/ d <= start
        BY DEF TypeOK
    <3> QED
        BY <2>2, <3>1, <3>2 DEF Passed, StartComplete, Running, Started, Sound, TypeOK
  <2>6. FileHours'
    <3>1. w < FHMAX
        BY <2>2, SegmentsWithinHorizon DEF Attempt, Running, TypeOK
    <3> QED
        BY <1>1, <2>1, <2>2, <3>1 DEF FileHours, FHMAX, His
  <2>7. Vouched'
    <3> SUFFICES ASSUME Sound, NEW d \in Nat, RestartHour(d), Exists(His(d + 1))'
                 PROVE  /\ \A c \in Comps : Res(c, d) \in whole'
                        /\ Exists(His(d))'
                        /\ \A v \in Nat : v < d => His(v) \in whole'
        BY DEF Vouched, Sound
    <3>1. CASE w = d + 1
        BY <1>1, <2>1, <2>2, <2>4, <2>5, <3>1 DEF His, Exists
    <3>2. CASE w # d + 1
      <4>1. Exists(His(d + 1))
          BY <1>1, <2>1, <3>2 DEF His
      <4>2. d <= w
          BY <1>1, <2>1, <2>2, <4>1 DEF NotBusyBehind, Started, TypeOK
      <4>3. /\ \A c \in Comps : Res(c, d) \in whole
            /\ Exists(His(d))
            /\ \A v \in Nat : v < d => His(v) \in whole
          BY <4>1 DEF Vouched
      <4>4. \A v \in Nat : v < d => His(v) # f
          BY <2>1, <4>2 DEF His, TypeOK
      <4> QED
          BY <1>1, <2>2, <4>3, <4>4
    <3> QED
        BY <3>1, <3>2
  <2>8. NotBusyBehind'
    <3> SUFFICES ASSUME Sound, NEW d \in Nat, start < d, RestartHour(d), Exists(His(d + 1))'
                 PROVE  /\ d + 1 < now
                        /\ \A c \in Comps : Res(c, d) \notin Busy
                        /\ \A v \in Nat : v <= d => His(v) \notin Busy
        BY <1>1 DEF NotBusyBehind, Sound, Started
    <3>1. CASE w = d + 1
        BY <2>2, <2>3, <2>5, <3>1
    <3>2. CASE w # d + 1
      <4>1. Exists(His(d + 1))
          BY <1>1, <2>1, <3>2 DEF His
      <4> QED
          BY <4>1 DEF NotBusyBehind, Started
    <3> QED
        BY <3>1, <3>2
  <2>9. StartComplete'
      BY <1>1, <2>1, <2>2 DEF StartComplete, Started, Sound, His, TypeOK
  <2> QED
      BY <2>6, <2>7, <2>8, <2>9
<1>7. f \in Files
    BY DEF TypeOK
<1>8. HistoryComplete'
    BY DEF HistoryComplete, Attempt, TypeOK
<1> QED
    BY <1>2, <1>3, <1>4, <1>5, <1>6, <1>7, <1>8 DEF Files, Res, His

\* A closed file exists as before; the history of a window is not closed
\* before the restart at its start.
LEMMA CloseIInv ==
    ASSUME TypeOK, IInv, NEW f \in opened, Close(f)
    PROVE  IInv'
<1> USE DEF IInv, Close, job, decision
<1>1. /\ \A g : g \in Busy' <=> g \in Busy /\ g # f
      /\ f \in Busy
      /\ \A g : Exists(g)' <=> Exists(g)
      /\ \A g : g \in whole' <=> g \in whole \/ g = f
    BY DEF Busy, Exists, BusyFiles, TypeOK
<1>2. Attempt' /\ BusyHours'
    BY <1>1 DEF Attempt, BusyHours, Running, Started, FHMAX
<1>3. BusyFiles'
    BY DEF BusyFiles
<1>4. OceanOrder'
    BY <1>1 DEF OceanOrder, His
<1>5. Passed'
    BY <1>1 DEF Passed, Running
<1>6. FileHours' /\ Vouched'
    BY <1>1 DEF FileHours, Vouched, FHMAX, Sound
<1>7. NotBusyBehind'
    BY <1>1 DEF NotBusyBehind, Started, Sound
<1>8. StartComplete'
    BY <1>1 DEF StartComplete, Started, Sound
<1>9. HistoryComplete'
    BY DEF HistoryComplete, Attempt, TypeOK
<1> QED
    BY <1>2, <1>3, <1>4, <1>5, <1>6, <1>7, <1>8, <1>9

\* Nothing is open any more: what the model has passed is complete.
LEMMA ModelEndIInv ==
    ASSUME TypeOK, IInv, ModelEnd
    PROVE  IInv'
<1> USE DEF IInv, ModelEnd, job, disk, model, decision
<1>1. Attempt' /\ BusyFiles' /\ BusyHours' /\ OceanOrder' /\ Passed'
    BY SegmentsWithinHorizon DEF TypeOK, Attempt, BusyFiles, BusyHours, OceanOrder, Passed,
       Running, Started, Busy, FHMAX
<1>2. FileHours' /\ Vouched'
    BY DEF FileHours, Vouched, Exists, FHMAX, Sound
<1>3. NotBusyBehind' /\ StartComplete'
    BY DEF NotBusyBehind, StartComplete, Started, Sound, Exists, Busy
<1>4. HistoryComplete'
  <2> SUFFICES ASSUME Sound, NEW w \in Hours, w < FHMAX
               PROVE  His(w) \in whole
      BY DEF HistoryComplete, Delivered, Sound, FHMAX
  <2>1. w \in Nat /\ (w < start \/ start <= w)
      BY DEF Hours, TypeOK
  <2> QED
      BY <2>1, SegmentsWithinHorizon
         DEF Passed, StartComplete, Running, Started, Sound, HistoryChecked, TypeOK
<1> QED
    BY <1>1, <1>2, <1>3, <1>4

LEMMA OutIInv ==
    ASSUME TypeOK, IInv, (\E c \in Comps : Component_out(c)) \/ GOCART_out
    PROVE  IInv'
<1>1. pc = "out" /\ out # {} /\ UNCHANGED <<pc, job, disk, model, decision>>
    BY DEF Component_out, Present, GOCART_out, NextOut
<1> USE <1>1 DEF IInv, job, disk, model, decision
<1>2. Attempt' /\ BusyFiles' /\ BusyHours' /\ OceanOrder' /\ Passed'
    BY DEF Attempt, BusyFiles, BusyHours, OceanOrder, Passed, Running, Started, Busy, FHMAX
<1>3. FileHours' /\ Vouched'
    BY DEF FileHours, Vouched, Exists, FHMAX, Sound
<1>4. NotBusyBehind' /\ StartComplete'
    BY DEF NotBusyBehind, StartComplete, Started, Sound, Exists, Busy
<1>5. HistoryComplete'
    BY DEF HistoryComplete, Delivered, Sound, FHMAX
<1> QED
    BY <1>2, <1>3, <1>4, <1>5

\* Once DATArestart is being removed, nothing is vouched for any more.
LEMMA RemoveRestartIInv ==
    ASSUME TypeOK, IInv, NEW c \in Comps, RemoveRestart(c)
    PROVE  IInv'
<1> USE DEF IInv, RemoveRestart, job, model, decision
<1>1. Attempt' /\ BusyHours' /\ OceanOrder'
    BY DEF Attempt, BusyHours, OceanOrder, Running, Started, Busy, FHMAX
<1>2. BusyFiles'
    BY DEF BusyFiles, Attempt, Busy
<1>3. \A f : Exists(f)' => Exists(f)
    BY DEF Exists
<1>4. \A w \in Nat : His(w) \in whole => His(w) \in whole'
    BY FileNames DEF His
<1>5. Passed'
    BY <1>4 DEF Passed, Running, Busy
<1>6. FileHours'
    BY <1>3 DEF FileHours, FHMAX
<1>7. Vouched' /\ NotBusyBehind' /\ StartComplete' /\ HistoryComplete'
    BY DEF Vouched, NotBusyBehind, StartComplete, HistoryComplete, Sound
<1> QED
    BY <1>1, <1>2, <1>5, <1>6, <1>7

LEMMA FinishIInv ==
    ASSUME TypeOK, IInv, Finish
    PROVE  IInv'
<1> USE DEF IInv, Finish, ProcessesEnd, disk
<1>1. FHMAX <= FHMAX'
    BY HoursAssumption DEF FHMAX, LastSegment, TypeOK
<1>2. Attempt' /\ BusyFiles' /\ BusyHours' /\ OceanOrder' /\ Passed'
    BY DEF Attempt, BusyFiles, BusyHours, OceanOrder, Passed, Running, Started, Busy
<1>3. FileHours' /\ Vouched'
  <2>1. FHMAX \in Nat /\ FHMAX' \in Nat
      BY SegmentsWithinHorizon, HoursAssumption DEF FHMAX, LastSegment, TypeOK
  <2> QED
      BY <1>1, <2>1 DEF FileHours, Vouched, Exists, Sound
<1>4. NotBusyBehind' /\ StartComplete'
    BY DEF NotBusyBehind, StartComplete, Started
<1>5. HistoryComplete'
  <2>1. Delivered' = Delivered
      BY HoursAssumption DEF Delivered, FHMIN, FHMAX, LastSegment, TypeOK
  <2> QED
      BY <2>1 DEF HistoryComplete, Sound
<1> QED
    BY <1>2, <1>3, <1>4, <1>5

LEMMA RewindIInv ==
    ASSUME TypeOK, IInv, Rewind
    PROVE  IInv'
<1> USE DEF IInv, Rewind, disk, model, decision
<1>1. Attempt' /\ BusyFiles' /\ BusyHours' /\ OceanOrder' /\ Passed'
    BY DEF Attempt, BusyFiles, BusyHours, OceanOrder, Passed, Running, Started, Busy
<1>2. FileHours' /\ Vouched'
    BY DEF FileHours, Vouched, Exists, FHMAX, Sound
<1>3. NotBusyBehind' /\ StartComplete'
    BY DEF NotBusyBehind, StartComplete, Started
<1>4. HistoryComplete'
    BY SegmentsWithinHorizon DEF HistoryComplete, Delivered, Sound, FHMIN, Hours
<1> QED
    BY <1>1, <1>2, <1>3, <1>4

LEMMA StutterIInv ==
    ASSUME TypeOK, IInv, UNCHANGED vars
    PROVE  IInv'
<1> USE DEF IInv, vars, job, disk, model, decision, products
<1>1. Attempt' /\ BusyFiles' /\ BusyHours' /\ OceanOrder' /\ Passed'
    BY DEF Attempt, BusyFiles, BusyHours, OceanOrder, Passed, Running, Started, Busy, FHMAX
<1>2. FileHours' /\ Vouched'
    BY DEF FileHours, Vouched, Exists, FHMAX, Sound
<1>3. NotBusyBehind' /\ StartComplete'
    BY DEF NotBusyBehind, StartComplete, Started, Sound, Exists, Busy
<1>4. HistoryComplete'
    BY DEF HistoryComplete, Delivered, Sound, FHMAX, FHMIN
<1> QED
    BY <1>1, <1>2, <1>3, <1>4

LEMMA StepIInv == TypeOK /\ IInv /\ [Next]_vars => IInv'
<1> SUFFICES ASSUME TypeOK, IInv, [Next]_vars PROVE IInv'
    OBVIOUS
<1>1. CASE Submit
    BY <1>1, SubmitIInv
<1>2. CASE \/ DetFatal \/ PostDetFatal \/ Crash
           \/ \E c \in Comps : OutFatal(c)
    BY <1>2, FailIInv DEF DetFatal, PostDetFatal, Crash, OutFatal, Fail
<1>3. CASE DetRerun
    BY <1>3, DetRerunIInv
<1>4. CASE DetStart
    BY <1>4, DetStartIInv
<1>5. CASE PostDet
    BY <1>5, PostDetIInv
<1>6. CASE Integrate
    BY <1>6, IntegrateIInv
<1>7. CASE \E f \in todo : Open(f)
    BY <1>7, OpenIInv
<1>8. CASE \E f \in opened : Close(f)
    BY <1>8, CloseIInv
<1>9. CASE ModelEnd
    BY <1>9, ModelEndIInv
<1>10. CASE (\E c \in Comps : Component_out(c)) \/ GOCART_out
    BY <1>10, OutIInv
<1>11. CASE \E c \in Comps : RemoveRestart(c)
    BY <1>11, RemoveRestartIInv
<1>12. CASE Finish
    BY <1>12, FinishIInv
<1>13. CASE Rewind
    BY <1>13, RewindIInv
<1>14. CASE UNCHANGED vars
    BY <1>14, StutterIInv
<1> QED
    BY <1>1, <1>2, <1>3, <1>4, <1>5, <1>6, <1>7, <1>8, <1>9, <1>10,
       <1>11, <1>12, <1>13, <1>14
       DEF Next, Program, Terminated

LEMMA Invariant == Spec => [](TypeOK /\ IInv)
<1>1. QED BY InitTypeOK, StepTypeOK, InitIInv, StepIInv, PTL DEF Spec

-----------------------------------------------------------------------------
(* What follows from the invariant.                                        *)

\* With the ocean history check, no attempt ever starts from a restart that
\* was cut short: what UFS_det looks at vouches for all the files it stages.
THEOREM RerunSound == Spec => []RerunFromWholeRestart
<1>1. TypeOK /\ IInv => RerunFromWholeRestart
  <2> SUFFICES ASSUME TypeOK, IInv, Sound, rerun, pc \in {"post", "run"}, NEW c \in Comps
               PROVE  Res(c, start) \in whole
      BY DEF RerunFromWholeRestart, StartsWhole
  <2>1. RestartHour(start) /\ start \in Nat /\ start <= start
      BY DEF IInv, Attempt, TypeOK
  <2> QED
      BY <2>1 DEF IInv, StartComplete, Started
<1> QED
    BY <1>1, Invariant, PTL

\* With the ocean history check, the fatal exit of UFS_det for a restart at or
\* after the end of the forecast is unreachable.
THEOREM NeverAtEnd == Spec => []NeverRestartsAtEnd
<1>1. TypeOK /\ IInv => NeverRestartsAtEnd
  <2> SUFFICES ASSUME TypeOK, IInv, HistoryChecked, NEW d \in Accepted, d >= FHMAX
               PROVE  FALSE
      BY DEF NeverRestartsAtEnd, RestartAtEnd
  <2>1. d \in Nat /\ d + 1 \in Nat /\ Exists(His(d + 1))
      BY DEF Accepted, Candidates, AllRestartsFound, Hours
  <2>2. d + 1 < FHMAX
      BY <2>1 DEF IInv, FileHours
  <2> QED
      BY <2>1, <2>2, SegmentsWithinHorizon
<1> QED
    BY <1>1, Invariant, PTL

\* A segment whose model or task has ended leaves complete ocean history from
\* the start of the forecast on, whichever attempts wrote it.
THEOREM HistoryDelivered == Spec => []HistoryComplete
<1>1. TypeOK /\ IInv => HistoryComplete
    BY DEF IInv
<1> QED
    BY <1>1, Invariant, PTL

\* No attempt opens a restart again that UFS_det would accept.
THEOREM AcceptedStays == Spec => AcceptedNotRewritten
<1>1. TypeOK /\ IInv /\ [Next]_vars => KeepsAccepted
  <2> SUFFICES ASSUME TypeOK, IInv, [Next]_vars, Sound',
                      NEW d \in Accepted, NEW c \in Comps, Res(c, d) \in whole
               PROVE  Res(c, d) \in whole'
      BY DEF KeepsAccepted
  <2>1. CASE \E f \in todo : Open(f)
    <3>1. PICK f \in todo : Open(f)
        BY <2>1
    <3>2. Sound /\ d \in Nat
        BY <3>1 DEF Open, Sound, job, Accepted, Candidates, Hours
    <3>3. RestartHour(d) /\ Exists(His(d + 1))
        BY <3>2 DEF Accepted, AllRestartsFound, Sound, IInv, FileHours
    <3>4. Res(c, d) \notin Busy
        BY <3>1, <3>2, <3>3 DEF IInv, BusyHours, NotBusyBehind, Open, Started
    <3> QED
        BY <3>1, <3>4 DEF Open, Busy
  <2>2. CASE \E k \in Comps : RemoveRestart(k)
      BY <2>2 DEF RemoveRestart, Sound
  <2>3. CASE ~(\E f \in todo : Open(f)) /\ ~(\E k \in Comps : RemoveRestart(k))
    <3>1. whole \subseteq whole'
        BY <2>3 DEF Next, Program, vars, Submit, Crash, Fail, EndInError, DetFatal, DetRerun, DetStart,
           PostDet, PostDetFatal, Integrate, Close, ModelEnd, Component_out, OutFatal,
           GOCART_out, Finish, Rewind, Terminated, disk
    <3> QED
        BY <3>1
  <2> QED
      BY <2>1, <2>2, <2>3
<1> QED
    BY <1>1, Invariant, PTL DEF AcceptedNotRewritten, Spec

(***************************************************************************)
(* A forecast (gfs, gefs, sfs, gcafs) hands over complete restarts of      *)
(* every component at the end of each segment, the mediator's included,    *)
(* which CMEPS_out would leave out silently.                               *)
(***************************************************************************)
THEOREM HandsOver ==
    ASSUME ~Cycled
    PROVE  Spec => []HandsOverWhole
<1> DEFINE HInv == pc = "out" => \A c \in Comps \ out : Wanted(c) \subseteq com
<1>1. TypeOK /\ IInv /\ pc = "out" =>
        \A c \in Comps : out # {} => Wanted(c) \subseteq whole
  <2> SUFFICES ASSUME TypeOK, IInv, pc = "out", out # {}, NEW c \in Comps
               PROVE  Wanted(c) \subseteq whole
      OBVIOUS
  <2>1. RestartHour(FHMAX)
      BY SegmentsWithinHorizon, HoursAssumption DEF RestartHour, FHMAX, TypeOK
  <2>2. Res(c, FHMAX) \in whole
      BY <2>1, SegmentsWithinHorizon DEF IInv, Attempt, Passed, Running, Started
  <2> QED
      BY <2>2 DEF Wanted, CopyHours
<1>2. Init => HInv
    BY DEF Init
<1>3. TypeOK /\ IInv /\ HInv /\ [Next]_vars => HInv'
  <2> SUFFICES ASSUME TypeOK, IInv, HInv, [Next]_vars, pc' = "out",
                      NEW c \in Comps \ out'
               PROVE  Wanted(c)' \subseteq com'
      OBVIOUS
  <2>1. CASE seg' = seg /\ com' = com /\ out' = out /\ pc = "out"
      BY <2>1 DEF Wanted, CopyHours, FHMAX
  <2>2. CASE ModelEnd
      BY <2>2 DEF ModelEnd
  <2>3. CASE \E k \in Comps : Component_out(k)
    <3>1. PICK k \in Comps : Component_out(k)
        BY <2>3
    <3>2. Wanted(c)' = Wanted(c) /\ pc = "out" /\ out # {} /\ com \subseteq com'
        BY <3>1 DEF Component_out, Present, NextOut, job, Wanted, CopyHours, FHMAX
    <3>3. CASE c = k
        BY <1>1, <3>1, <3>2, <3>3 DEF Component_out, Present, Exists
    <3>4. CASE c # k
        BY <3>1, <3>2, <3>4 DEF Component_out, Present
    <3> QED
        BY <3>3, <3>4
  <2>4. CASE GOCART_out
    <3>1. Wanted(c)' = Wanted(c) /\ pc = "out" /\ com' = com /\ "chem" \notin Comps
        BY <2>4, ConfigAssumption DEF GOCART_out, job, Wanted, CopyHours, FHMAX
    <3> QED
        BY <2>4, <3>1 DEF GOCART_out
  <2> QED
      BY <2>1, <2>2, <2>3, <2>4
         DEF Next, Program, vars, Submit, Crash, Fail, EndInError, DetFatal, DetRerun, DetStart,
             PostDet, PostDetFatal, Integrate, Open, Close, OutFatal, RemoveRestart,
             Finish, Rewind, Terminated, job, products
<1>4. TypeOK /\ IInv /\ HInv => HandsOverWhole
    BY <1>1 DEF HandsOverWhole
<1> QED
    BY <1>2, <1>3, <1>4, Invariant, PTL DEF Spec

(***************************************************************************)
(* When the first segment is long enough for the ocean to write the        *)
(* history of two windows after a restart, every attempt of every later    *)
(* segment goes on from a restart.                                         *)
(***************************************************************************)
THEOREM Continues ==
    ASSUME rerunAllowed, HistoryChecked,
           0 < restart_interval, restart_interval + 2 <= Bound[1]
    PROVE  Spec => []SegmentContinues
<1> DEFINE d == restart_interval
           KInv == seg > 0 /\ ~cleaned => Exists(His(d + 1))
           CInv == seg > 0 /\ ~cleaned /\ pc \in {"post", "run"} => rerun
<1>1. d \in Nat /\ RestartHour(d)
    BY ConfigAssumption, HoursAssumption DEF restart_interval, RestartHour
<1>2. Init => KInv /\ CInv
    BY DEF Init
<1>3. TypeOK /\ IInv /\ KInv /\ [Next]_vars => KInv'
  <2> SUFFICES ASSUME TypeOK, IInv, KInv, [Next]_vars, seg' > 0, ~cleaned'
               PROVE  Exists(His(d + 1))'
      OBVIOUS
  <2>1. CASE Finish /\ seg = 0
    <3>1. Sound /\ pc = "out" /\ UNCHANGED disk
        BY <2>1 DEF Finish, Sound, rerunAllowed, disk
    <3>2. d + 1 \in Hours /\ d + 1 < FHMAX
        BY <1>1, <2>1, SegmentsWithinHorizon DEF FHMAX, Hours
    <3>3. His(d + 1) \in whole
        BY <3>1, <3>2 DEF IInv, HistoryComplete, Delivered
    <3> QED
        BY <3>1, <3>3 DEF Exists, disk
  <2>2. CASE ~(Finish /\ seg = 0)
    <3>1. ~ \E c \in Comps : RemoveRestart(c)
        BY DEF RemoveRestart
    <3>2. cleaned' = cleaned /\ (seg' = seg \/ Finish)
        BY <3>1 DEF Next, Program, vars, Submit, Crash, Fail, EndInError, DetFatal, DetRerun,
           DetStart, PostDet, PostDetFatal, Integrate, Open, Close, ModelEnd, Component_out,
           OutFatal, GOCART_out, Finish, Rewind, Terminated, job, disk
    <3>3. seg > 0 /\ ~cleaned
        BY <2>2, <3>2, HoursAssumption DEF TypeOK
    <3>4. Exists(His(d + 1)) => Exists(His(d + 1))'
        BY <3>1 DEF Exists, Next, Program, vars, Submit, Crash, Fail, EndInError, DetFatal, DetRerun,
           DetStart, PostDet, PostDetFatal, Integrate, Open, Close, ModelEnd, Component_out,
           OutFatal, GOCART_out, Finish, Rewind, Terminated, disk
    <3> QED
        BY <3>3, <3>4
  <2> QED
      BY <2>1, <2>2
<1>4. TypeOK /\ IInv /\ KInv /\ CInv /\ [Next]_vars => CInv'
  <2> SUFFICES ASSUME TypeOK, IInv, KInv, CInv, [Next]_vars,
                      seg' > 0, ~cleaned', pc' \in {"post", "run"}
               PROVE  rerun'
      OBVIOUS
  <2>1. CASE DetStart
    <3>1. Sound /\ Exists(His(d + 1))
        BY <2>1 DEF DetStart, job, disk, Sound, rerunAllowed
    <3>2. d \in Hours
      <4>1. d + 1 < FHMAX
          BY <1>1, <3>1 DEF IInv, FileHours
      <4> QED
          BY <1>1, <4>1, SegmentsWithinHorizon DEF Hours
    <3>3. d \in Accepted
        BY <1>1, <3>1, <3>2, ConfigAssumption
           DEF IInv, Vouched, Accepted, Candidates, AllRestartsFound, Exists
    <3> QED
        BY <2>1, <3>3 DEF DetStart, rerunAllowed
  <2>2. CASE DetRerun
      BY <2>2 DEF DetRerun
  <2>3. CASE ~DetStart /\ ~DetRerun
    <3>1. seg' = seg /\ cleaned' = cleaned /\ rerun' = rerun /\ pc \in {"post", "run"}
        BY <2>3 DEF TypeOK, Next, Program, vars, Submit, Crash, Fail, EndInError, DetFatal,
           PostDet, PostDetFatal, Integrate, Open, Close, ModelEnd, Component_out,
           OutFatal, GOCART_out, RemoveRestart, Finish, Rewind, Terminated, job, disk, decision
    <3> QED
        BY <3>1
  <2> QED
      BY <2>1, <2>2, <2>3
<1>5. CInv => SegmentContinues
    BY DEF SegmentContinues
<1> QED
    BY <1>2, <1>3, <1>4, <1>5, Invariant, PTL DEF Spec

-----------------------------------------------------------------------------
(* The aerosols of an attempt.                                             *)

\* A number of windows is a number of hours with an aerosol file at the end.
LEMMA WindowHours ==
    ASSUME NEW w \in Nat
    PROVE  /\ w * FHOUT_OCN \in Nat
           /\ (w * FHOUT_OCN) % FHOUT_AERO = 0
           /\ (w + 1) * FHOUT_OCN = w * FHOUT_OCN + FHOUT_OCN
           /\ \A v \in Nat : v <= w => v * FHOUT_OCN <= w * FHOUT_OCN
<1> DEFINE k == FHOUT_OCN \div FHOUT_AERO
<1>1. k \in Int /\ FHOUT_OCN = FHOUT_AERO * k
    BY HoursAssumption, Quotient
<1> HIDE DEF k
<1>2. w * FHOUT_OCN = FHOUT_AERO * (w * k) /\ w * k \in Int
    BY <1>1, HoursAssumption
<1>3. w * FHOUT_OCN \in Nat /\ (w + 1) * FHOUT_OCN = w * FHOUT_OCN + FHOUT_OCN
    BY HoursAssumption
<1>4. (w * FHOUT_OCN) % FHOUT_AERO = 0
    BY <1>2, <1>3, HoursAssumption, Multiple
<1>5. ASSUME NEW v \in Nat, v <= w PROVE v * FHOUT_OCN <= w * FHOUT_OCN
    BY <1>5, HoursAssumption, Products
<1> QED
    BY <1>3, <1>4, <1>5

\* The model writes its aerosol files into a DATA that no earlier attempt used.
AerosolsWritten ==
    cplchm =>
        \A h \in AeroTimes : h > start * FHOUT_OCN =>
            /\ pc = "run" /\ h <= now * FHOUT_OCN => h \in chemData
            /\ pc = "out" /\ h <= FHMAX * FHOUT_OCN => h \in chemData

LEMMA StepAerosolsWritten ==
    ASSUME TypeOK, IInv, AerosolsWritten, [Next]_vars
    PROVE  AerosolsWritten'
<1> SUFFICES ASSUME cplchm, NEW h \in AeroTimes, h > start' * FHOUT_OCN
             PROVE  /\ pc' = "run" /\ h <= now' * FHOUT_OCN => h \in chemData'
                    /\ pc' = "out" /\ h <= FHMAX' * FHOUT_OCN => h \in chemData'
    BY DEF AerosolsWritten, AeroTimes, Horizon
<1>0. h \in Nat /\ h % FHOUT_AERO = 0
    BY DEF AeroTimes
<1>1. CASE PostDet
  <2>1. now' = start /\ start' = start /\ pc' = "run"
      BY <1>1 DEF PostDet, decision
  <2>2. start * FHOUT_OCN \in Nat
      BY WindowHours DEF TypeOK
  <2> QED
      BY <1>0, <2>1, <2>2
<1>2. CASE Integrate
  <2>1. /\ pc = "run" /\ pc' = "run" /\ now' = now + 1 /\ start' = start
        /\ chemData' = chemData \cup AeroFiles(now)
      BY <1>2 DEF Integrate, decision
  <2>2. now * FHOUT_OCN \in Nat /\ (now + 1) * FHOUT_OCN \in Nat
    <3>1. now \in Nat /\ now + 1 \in Nat
        BY DEF TypeOK
    <3> QED
        BY <3>1, WindowHours
  <2>3. CASE h <= now * FHOUT_OCN
      BY <2>1, <2>3 DEF AerosolsWritten
  <2>4. CASE h > now * FHOUT_OCN /\ h <= (now + 1) * FHOUT_OCN
      BY <1>0, <2>1, <2>2, <2>4 DEF AeroFiles
  <2> QED
      BY <1>0, <2>1, <2>2, <2>3, <2>4
<1>3. CASE ModelEnd
  <2>1. now = FHMAX /\ FHMAX' = FHMAX
      BY <1>3, SegmentsWithinHorizon
         DEF ModelEnd, job, FHMAX, IInv, Attempt, Running, TypeOK
  <2> QED
      BY <1>3, <2>1 DEF ModelEnd, AerosolsWritten, decision, products
<1>4. CASE UNCHANGED <<pc, seg, now, start, chemData>>
    BY <1>4 DEF AerosolsWritten, FHMAX
<1>5. CASE pc' \notin {"run", "out"}
    BY <1>5
<1> QED
    BY <1>1, <1>2, <1>3, <1>4, <1>5
       DEF Next, Program, vars, Submit, Crash, Fail, EndInError, DetFatal, DetRerun, DetStart,
           PostDetFatal, Open, Close, Component_out, OutFatal, GOCART_out, RemoveRestart,
           Finish, Rewind, Terminated, job, products, model, decision, disk

\* Without hours of IAU the list of GOCART_output_fh has every aerosol file
\* after the start of the model and of the segment.
LEMMA ChemHoursWithoutIAU ==
    ASSUME TypeOK, IInv, Started, ~IAUHours, NEW h \in AeroTimes,
           h > start * FHOUT_OCN, h > FHMIN * FHOUT_OCN, h <= FHMAX * FHOUT_OCN
    PROVE  h \in ChemHours
<1> DEFINE s == start * FHOUT_OCN
           m == FHMIN * FHOUT_OCN
           e == FHMAX * FHOUT_OCN
           first == FHOUT_AERO + (IF s > m THEN s ELSE m)
<1>1. /\ s \in Nat /\ s % FHOUT_AERO = 0
      /\ m \in Nat /\ m % FHOUT_AERO = 0
      /\ e \in Nat
    BY SegmentsWithinHorizon, WindowHours DEF TypeOK
<1>2. IAU_FHROT = s
  <2>1. CASE rerun
      BY <1>1, <2>1 DEF IAU_FHROT, IAU_OFFSET
  <2>2. CASE ~rerun
    <3>1. start = 0
        BY <2>2 DEF IInv, Attempt
    <3> QED
        BY <2>2, <3>1, HoursAssumption DEF IAU_FHROT
  <2> QED
      BY <2>1, <2>2
<1>3. h \in Nat /\ h % FHOUT_AERO = 0 /\ h > s /\ h > m /\ h <= e
    BY DEF AeroTimes
<1> HIDE DEF s, m, e
<1>4. ASSUME NEW b \in {s, m} PROVE h >= FHOUT_AERO + b /\ (h - (FHOUT_AERO + b)) % FHOUT_AERO = 0
  <2>0. b \in Int /\ b % FHOUT_AERO = 0 /\ b < h /\ FHOUT_AERO \in Nat \ {0}
      BY <1>1, <1>3, HoursAssumption
  <2>1. PICK k \in Int : b = FHOUT_AERO * k
      BY <2>0, IsMultiple
  <2>2. PICK n \in Int : h = FHOUT_AERO * n
      BY <1>3, <2>0, IsMultiple
  <2>3. FHOUT_AERO * k < FHOUT_AERO * n
      BY <2>0, <2>1, <2>2
  <2>4. k + 1 <= n
      BY <2>3, HoursAssumption, Products
  <2>5. FHOUT_AERO * (k + 1) = FHOUT_AERO + b /\ FHOUT_AERO * (k + 1) <= FHOUT_AERO * n
      BY <2>1, <2>4, HoursAssumption, Products
  <2>6. h - (FHOUT_AERO + b) = FHOUT_AERO * (n - (k + 1)) /\ n - (k + 1) \in Int
      BY <2>2, <2>5, HoursAssumption
  <2>7. h - (FHOUT_AERO + b) \in Int
      BY <1>1, <1>3, HoursAssumption
  <2>8. (h - (FHOUT_AERO + b)) % FHOUT_AERO = 0
      BY <2>6, <2>7, HoursAssumption, Multiple
  <2> QED
      BY <2>2, <2>5, <2>8
<1>5. h >= first /\ (h - first) % FHOUT_AERO = 0 /\ first \in Nat
    BY <1>1, <1>4, HoursAssumption
<1> QED
    BY <1>1, <1>2, <1>3, <1>5 DEF ChemHours, AeroSeq, s, m, e

\* Once its GOCART_out is over, an attempt has delivered the aerosol files of
\* every hour it has integrated, for any segments, kills and reruns, where
\* config.base has no hours of IAU; with them it does not (MCForecast_iau.cfg).
THEOREM AerosolsDelivered ==
    ASSUME ~IAUHours
    PROVE  Spec => []AttemptAerosolsDelivered
<1>1. Init => AerosolsWritten /\ AttemptAerosolsDelivered
    BY DEF Init, AerosolsWritten, AttemptAerosolsDelivered
<1>2. TypeOK /\ IInv /\ AerosolsWritten /\ AttemptAerosolsDelivered /\ [Next]_vars
        => AttemptAerosolsDelivered'
  <2> SUFFICES ASSUME TypeOK, IInv, AerosolsWritten, AttemptAerosolsDelivered, [Next]_vars,
                      pc' = "out", cplchm, "chem" \notin out',
                      NEW h \in AeroTimes, h > start' * FHOUT_OCN, h > FHMIN' * FHOUT_OCN,
                      h <= FHMAX' * FHOUT_OCN
               PROVE  h \in chemCom'
      BY DEF AttemptAerosolsDelivered, AeroTimes, Horizon
  <2>1. CASE GOCART_out
    <3>1. pc = "out" /\ UNCHANGED <<start, seg>>
        BY <2>1 DEF GOCART_out, job, decision
    <3>2. h \in chemData /\ h \in ChemHours
        BY <3>1, ChemHoursWithoutIAU DEF FHMIN, FHMAX, AerosolsWritten, Started
    <3> QED
        BY <2>1, <3>2 DEF GOCART_out
  <2>2. CASE ModelEnd
      BY <2>2 DEF ModelEnd
  <2>3. CASE \E c \in Comps : Component_out(c)
    <3>1. UNCHANGED <<pc, seg, start, chemCom>> /\ "chem" \notin out
        BY <2>3, ConfigAssumption DEF Component_out, Present, job, decision
    <3> QED
        BY <3>1 DEF AttemptAerosolsDelivered, FHMIN, FHMAX
  <2>4. CASE UNCHANGED <<pc, seg, start, chemCom, out>>
      BY <2>4 DEF AttemptAerosolsDelivered, FHMIN, FHMAX
  <2> QED
      BY <2>1, <2>2, <2>3, <2>4
         DEF Next, Program, vars, Submit, Crash, Fail, EndInError, DetFatal, DetRerun, DetStart,
             PostDet, PostDetFatal, Integrate, Open, Close, OutFatal, RemoveRestart,
             Finish, Rewind, Terminated, job, products, decision
<1> QED
    BY <1>1, <1>2, StepAerosolsWritten, Invariant, PTL DEF Spec

\* No step of any attempt takes from COM an aerosol file of the segments before
\* its own: only GOCART_postdet removes any, and none from before FHMIN, even of
\* a model that starts before it, with or without IAU.
THEOREM EarlierAerosolsStay == Spec => EarlierAerosolsKept
<1> DEFINE Kept == \A h \in chemCom : h <= FHMIN * FHOUT_OCN => h \in chemCom'
<1>1. TypeOK /\ [Next]_vars => [Kept]_vars
  <2> SUFFICES ASSUME TypeOK, Next PROVE Kept
      OBVIOUS
  <2>1. CASE PostDet
    <3>1. ASSUME NEW h \in Nat, h <= FHMIN * FHOUT_OCN PROVE h \notin ChemHours
      <4>1. FHMIN * FHOUT_OCN \in Nat /\ start * FHOUT_OCN \in Nat
          BY SegmentsWithinHorizon, WindowHours DEF TypeOK
      <4>2. IAU_FHROT \in Int
          BY <4>1 DEF IAU_FHROT, IAU_OFFSET
      <4> QED
          BY <3>1, <4>1, <4>2, HoursAssumption DEF ChemHours, AeroSeq
    <3> QED
        BY <2>1, <3>1 DEF PostDet, TypeOK
  <2>2. CASE chemCom \subseteq chemCom'
      BY <2>2
  <2> QED
      BY <2>1, <2>2
         DEF Next, Program, vars, products, Submit, Crash, Fail, EndInError, DetFatal, DetRerun, DetStart,
             PostDetFatal, Integrate, Open, Close, ModelEnd, Component_out, OutFatal,
             GOCART_out, RemoveRestart, Finish, Rewind, Terminated
<1> QED
    BY <1>1, TypeCorrect, PTL DEF Spec, EarlierAerosolsKept

-----------------------------------------------------------------------------
(* What the next job needs.                                                *)

\* No restart is from after the end of the segment, on disk or in COM.
RestartsUpToEnd ==
    \A c \in Comps, d \in Nat :
        Exists(Res(c, d)) \/ Res(c, d) \in com => RestartHour(d) /\ d <= FHMAX

\* The components that were handed over are in COM whole.
HandedOver ==
    /\ pc = "out" => \A c \in Comps \ out : Wanted(c) \subseteq com
    /\ pc = "done" => \A c \in Comps : Wanted(c) \subseteq com

LEMMA EndNeverMovesBack ==
    ASSUME TypeOK, [Next]_vars
    PROVE  FHMAX' \in Nat /\ FHMAX <= FHMAX'
<1>1. seg' = seg \/ (seg' = seg + 1 /\ ~LastSegment)
    BY DEF Next, Program, vars, Submit, Crash, Fail, EndInError, DetFatal, DetRerun, DetStart,
       PostDet, PostDetFatal, Integrate, Open, Close, ModelEnd, Component_out, OutFatal,
       GOCART_out, RemoveRestart, Finish, Rewind, Terminated, job
<1>2. CASE seg' = seg
    BY <1>2, SegmentsWithinHorizon DEF FHMAX
<1>3. CASE seg' = seg + 1 /\ ~LastSegment
    BY <1>3, HoursAssumption DEF FHMAX, LastSegment, TypeOK
<1> QED
    BY <1>1, <1>2, <1>3

\* A file that is new on disk was opened, one that is new in COM was on disk.
LEMMA NewFiles ==
    ASSUME TypeOK, IInv, [Next]_vars,
           NEW f, f \in part' \cup whole' \cup com'
    PROVE  f \in part \cup whole \cup com \cup Busy
<1>1. CASE \E c \in Comps : OutFatal(c)
  <2> PICK c \in Comps : OutFatal(c)
      BY <1>1
  <2>1. PICK copied \in SUBSET Present(c) : com' = com \cup copied
      BY DEF OutFatal
  <2> QED
      BY <2>1 DEF OutFatal, EndInError, Present, Exists, disk
<1>2. CASE \E c \in Comps : Component_out(c)
    BY <1>2 DEF Component_out, Present, Exists, disk
<1> QED
    BY <1>1, <1>2
       DEF Next, Program, vars, Submit, Crash, Fail, EndInError, DetFatal, DetRerun, DetStart,
           PostDet, PostDetFatal, Integrate, Open, Close, ModelEnd, GOCART_out,
           RemoveRestart, Finish, Rewind, Terminated, disk, products, Busy

LEMMA StepRestartsUpToEnd ==
    ASSUME TypeOK, IInv, RestartsUpToEnd, [Next]_vars
    PROVE  RestartsUpToEnd'
<1> SUFFICES ASSUME NEW c \in Comps, NEW d \in Nat,
                    Res(c, d) \in part' \cup whole' \cup com'
             PROVE  RestartHour(d) /\ d <= FHMAX'
    BY DEF RestartsUpToEnd, Exists, RestartHour, Res
<1>1. CASE Res(c, d) \in part \cup whole \cup com
    BY <1>1, EndNeverMovesBack, SegmentsWithinHorizon DEF RestartsUpToEnd, Exists
<1>2. CASE Res(c, d) \in Busy
  <2>1. RestartHour(d) /\ d <= now /\ pc = "run"
      BY <1>2 DEF IInv, BusyHours, Attempt
  <2>2. now <= FHMAX
      BY <2>1 DEF IInv, Attempt, Running
  <2> QED
      BY <2>1, <2>2, EndNeverMovesBack, SegmentsWithinHorizon DEF TypeOK
<1> QED
    BY <1>1, <1>2, NewFiles

\* The mediator's restart of a time is there if the ocean's is: the model has
\* passed that time in this attempt, for it starts earlier.
LEMMA MediatorWithOcean ==
    ASSUME TypeOK, IInv, RestartsUpToEnd, pc = "out", out # {}, "med" \in Comps,
           Wanted("ocn") \subseteq com
    PROVE  \A f \in Wanted("med") : Exists(f)
<1> SUFFICES ASSUME NEW h \in CopyHours("med") PROVE Exists(Res("med", h))
    BY DEF Wanted
<1>1. h \in CopyHours("ocn") /\ h \in Nat
    BY SegmentsWithinHorizon, HoursAssumption DEF CopyHours, model_start_date_next_cycle
<1>2. "ocn" \in Comps /\ Res("ocn", h) \in com
    BY <1>1, ConfigAssumption DEF Wanted
<1>3. RestartHour(h) /\ h <= FHMAX
    BY <1>1, <1>2 DEF RestartsUpToEnd
<1>4. start < h
  <2>1. CASE ~Cycled
    <3>1. h = FHMAX
        BY <2>1 DEF CopyHours
    <3> QED
        BY <3>1 DEF IInv, Attempt, Started
  <2>2. CASE Cycled
    <3>1. RUN \notin {"gcdas", "enkfgcafs"}
        BY <1>2 DEF IInv, Attempt, Running, UnsupportedRun
    <3>2. start = 0
        BY <2>2, <3>1 DEF IInv, Attempt, Cycled, rerunAllowed, Started
    <3> QED
        BY <1>1, <1>3, <3>2 DEF RestartHour
  <2> QED
      BY <2>1, <2>2
<1>5. Res("med", h) \in Busy \cup whole
  <2>1. Running /\ now = FHMAX
      BY DEF Running, IInv, Attempt
  <2> QED
      BY <1>1, <1>3, <1>4, <2>1 DEF IInv, Passed
<1>6. Busy = {}
    BY DEF IInv, Attempt
<1> QED
    BY <1>5, <1>6 DEF Exists

LEMMA StepHandedOver ==
    ASSUME TypeOK, IInv, RestartsUpToEnd, HandedOver, [Next]_vars
    PROVE  HandedOver'
<1>1. CASE \E k \in Comps : Component_out(k)
  <2> PICK k \in Comps : Component_out(k)
      BY <1>1
  <2> SUFFICES ASSUME NEW c \in Comps \ out' PROVE Wanted(c)' \subseteq com'
      BY DEF HandedOver, Component_out
  <2>1. Wanted(c)' = Wanted(c) /\ pc = "out" /\ out # {} /\ com \subseteq com'
      BY DEF Component_out, Present, NextOut, job, Wanted, CopyHours, FHMAX
  <2>2. CASE c = k
    <3>1. CASE k = "med"
      <4>1. "ocn" \notin out
          BY <3>1 DEF Component_out, Present, NextOut, OutOrder
      <4>2. Wanted("ocn") \subseteq com
          BY <2>1, <3>1, <4>1, ConfigAssumption DEF HandedOver
      <4> QED
          BY <2>1, <2>2, <3>1, <4>2, MediatorWithOcean DEF Component_out, Present
    <3>2. CASE k # "med"
        BY <2>1, <2>2, <3>2 DEF Component_out, Present, CanCopy
    <3> QED
        BY <3>1, <3>2
  <2>3. CASE c # k
      BY <2>1, <2>3 DEF Component_out, Present, HandedOver
  <2> QED
      BY <2>2, <2>3
<1>2. CASE GOCART_out
    BY <1>2, ConfigAssumption DEF GOCART_out, job, HandedOver, Wanted, CopyHours, FHMAX
<1>3. CASE ModelEnd
    BY <1>3 DEF ModelEnd, HandedOver
<1>4. CASE Finish
    BY <1>4 DEF Finish, HandedOver, Wanted, CopyHours, FHMAX
<1>5. CASE UNCHANGED <<pc, seg, com, out>>
    BY <1>5 DEF HandedOver, Wanted, CopyHours, FHMAX
<1>6. CASE pc' \notin {"out", "done"}
    BY <1>6 DEF HandedOver
<1> QED
    BY <1>1, <1>2, <1>3, <1>4, <1>5, <1>6
       DEF Next, Program, vars, Submit, Crash, Fail, EndInError, DetFatal, DetRerun, DetStart,
           PostDet, PostDetFatal, Integrate, Open, Close, OutFatal, RemoveRestart,
           Rewind, Terminated, job, products

\* In every RUN, cycled or not, rerun or not and with or without IAU, a
\* forecast succeeds only when COM has every restart its *_out functions are
\* asked for, although CMEPS_out skips a missing one without an error: the
\* ocean's restart of the same time, which is required, vouches for it.
THEOREM SuccessIsHandover == Spec => []SuccessHandsOver
<1>1. Init => RestartsUpToEnd /\ HandedOver
    BY DEF Init, RestartsUpToEnd, HandedOver, Exists
<1>2. HandedOver => SuccessHandsOver
    BY DEF HandedOver, SuccessHandsOver
<1> QED
    BY <1>1, <1>2, StepRestartsUpToEnd, StepHandedOver, Invariant, PTL DEF Spec

=============================================================================
