----------------------------- MODULE MCSchedules -----------------------------
(* Cycled experiments of ten days and forecast-only ones, each part of the    *)
(* configuration varied while the rest stays.                                 *)
EXTENDS Schedules

Forecast(fhmax, hf, segs, n, ocean) ==
    [FHMIN |-> 0, FHMAX_GFS |-> fhmax, FHOUT_GFS |-> IF ocean THEN 6 ELSE 3,
     FHMAX_HF_GFS |-> hf, FHOUT_HF_GFS |-> 1, FCST_SEGMENTS |-> segs, MAX_TASKS |-> n,
     ocean |-> ocean, DO_AWIPS |-> n > 1]

Usual == [MODE |-> "cycled", SDATE |-> 18, EDATE |-> 258, interval |-> 6,
          ARCH_CYC |-> {0}, ARCH_WARMICFREQ |-> 4, ARCH_FCSTICFREQ |-> 1,
          ARCH_EXPDIR_FREQ |-> 0, DOIAU |-> TRUE, DOIAU_ENKF |-> TRUE,
          DOHYBVAR_OCN |-> FALSE, marine |-> TRUE, wave |-> TRUE,
          NMEM_ENS |-> 80, NMEM_EARCGRP |-> 10,
          fcst |-> Forecast(120, 48, <<0, 120>>, 25, FALSE)]

\* Starts and archive hours that agree on the days; 0Z every day.
Starts == {[Usual EXCEPT !.SDATE = s, !.EDATE = s + 240, !.ARCH_CYC = h, !.ARCH_WARMICFREQ = w] :
              s \in {6, 12, 18}, h \in {{0}, {0, 12}, {18}}, w \in {1, 3, 4}}
          \cup {[Usual EXCEPT !.SDATE = 0, !.EDATE = 240, !.ARCH_WARMICFREQ = 1]}

Windows == {[Usual EXCEPT !.DOIAU = i, !.DOIAU_ENKF = e, !.DOHYBVAR_OCN = e, !.EDATE = 120] :
               i \in BOOLEAN, e \in BOOLEAN}

Members == {[Usual EXCEPT !.NMEM_ENS = n, !.NMEM_EARCGRP = g, !.EDATE = 42] :
               n \in {0, 1, 2, 20, 30, 80}, g \in {4, 10, 20, 80}}

Expdirs == {[Usual EXCEPT !.ARCH_EXPDIR_FREQ = f, !.EDATE = 90] : f \in {6, 12, 24}}
           \cup {[Usual EXCEPT !.MODE = "forecast-only", !.EDATE = 18 + 5 * i, !.interval = i,
                               !.ARCH_EXPDIR_FREQ = f] : i \in {6, 12, 24}, f \in {0, 24}}

Hourly == {[Usual EXCEPT !.EDATE = 24, !.fcst = Forecast(m, hf, s, n, o)] :
              m \in {84, 120, 252}, hf \in {0, 48, 72}, n \in {1, 2, 3, 7, 25, 42},
              s \in {<<0, 84>>, <<0, 120>>, <<0, 252>>, <<0, 30, 84>>, <<0, 48, 120>>,
                     <<0, 66, 120, 252>>},
              o \in BOOLEAN}

Varied == {e \in Starts \cup Windows \cup Members \cup Expdirs : Cycled(e) => SameDays(e)}
          \cup {e \in Hourly : e.fcst.FHMAX_GFS = Last(e.fcst.FCST_SEGMENTS)}
=============================================================================
