----------------------------- MODULE MCWorkflow -----------------------------
(* Cases of dev/ci/cases, with two members at most and as many cycles as the  *)
(* case has.                                                                  *)
EXTENDS Workflow

Monitors == {"tracker", "genesis"}
TwoMembers == {"fcst_mem001", "fcst_mem002"}

\* dev/parm/config/gfs/yaml/defaults.yaml, cycled and forecast-only
Cycled == [net |-> "gfs", mode |-> "cycled", app |-> "ATM", eupd |-> "gdas", hour0 |-> 3, last |-> 2,
           gfs0 |-> 1, every |-> 4, nseg |-> 1, members |-> TwoMembers,
           aeroFcstRuns |-> {"gdas"},
           switches |-> Monitors \cup {"hybvar", "metp", "jediatmens_split_obssol"}]

With(case, yes, no) == [case EXCEPT !.switches = (@ \cup yes) \ no]

C96C48_hybatmDA == With(Cycled, {"gsisoilda", "land_iau"}, {})

C96_atm3DVar == [With(Cycled, {}, {"hybvar"}) EXCEPT !.members = {}]

C96_atm3DVar_extended ==
    [With(C96_atm3DVar, {"goes", "bufrsnd", "gempak", "awips", "archcom", "wdqms"}, {})
        EXCEPT !.last = 4, !.every = 1]

C96C48_hybatmsoilDA ==
    [With(Cycled, {"jedisnowda", "gsisoilda", "land_iau"}, {}) EXCEPT !.hour0 = 1]

C96C48_ufs_hybatmDA == With(Cycled, {"jediatmvar", "jediatmens"}, {"metp"})

C96C48_ufsgsi_hybatmDA == With(Cycled, {"jediatmvar"}, {"metp"})

C96C48_ufs_hybatmsoilDA ==
    [With(Cycled, {"jediatmvar", "jediatmens", "jedisnowda", "jedisoildavar", "jedisoildaens"},
          {"metp"})
        EXCEPT !.every = 0, !.hour0 = 1]

C48_gsienkf_atmDA == [With(Cycled, {"enkfonly_atm", "archcom"}, {}) EXCEPT !.every = 0]

C48_ufsenkf_atmDA == With(C48_gsienkf_atmDA, {"jediatmens"}, {})

C48mx500_3DVarAOWCDA ==
    [With(Cycled, {"jediocnvar"}, {"hybvar", "metp"})
        EXCEPT !.app = "S2SW", !.every = 1, !.members = {}]

C48mx500_hybAOWCDA ==
    [With(Cycled, {"jediocnvar", "hybvar_ocn", "letkf_ocn"}, {"metp"})
        EXCEPT !.app = "S2S", !.every = 0]

C96C48mx500_S2SW_cyc_gfs ==
    [With(Cycled, {"jediocnvar", "jedisnowda", "gsisoilda", "hybvar_ocn"}, {})
        EXCEPT !.app = "S2SW", !.hour0 = 2, !.every = 1, !.eupd = "both"]

ForecastOnly ==
    [With(Cycled, {}, {"hybvar"}) EXCEPT
        !.mode = "forecast-only", !.last = 0, !.gfs0 = 0, !.every = 1, !.members = {}]

C48_S2SW_extended ==
    [With(ForecastOnly, {"goes", "bufrsnd", "gempak", "awips", "archcom"}, {})
        EXCEPT !.app = "S2SW", !.nseg = 2]

\* Aerosols in the forecasts of the gfs, from the first of which the next start.
AerosolForecasts ==
    [With(ForecastOnly, {"upp", "fetch", "genesis_fsu", "globusarch", "archcom"}, {"metp"})
        EXCEPT !.app = "ATMA", !.last = 2, !.aeroFcstRuns = {"gfs"}]

-----------------------------------------------------------------------------
\* Ensembles from the start: GEFS and SFS, the control and two members.
Ensemble == [net |-> "gefs", app |-> "S2SWA", members |-> {"000", "001", "002"},
             nseg |-> 2, last |-> 4, every |-> 4, switches |-> {"archcom"}]

C48_S2SWA_gefs == With(Ensemble, {"extractvars"}, {})

C48_S2SWA_gefs_RT ==
    [With(Ensemble, {"gefs_real_time", "awips", "gempak"}, {}) EXCEPT !.nseg = 1, !.last = 0]

C96mx100_S2S ==
    [Ensemble EXCEPT !.net = "sfs", !.app = "S2S"]

\* Waves and aerosols, archived through globus.
SeasonalWaves ==
    [With(C96mx100_S2S, {"globusarch"}, {}) EXCEPT !.app = "S2SWA", !.nseg = 1, !.last = 0]

-----------------------------------------------------------------------------
\* Aerosols: dev/parm/config/gcafs/yaml/defaults.yaml
C96_gcafs_cycled ==
    [net |-> "gcafs", mode |-> "cycled", aeroAnlRuns |-> {"gcdas"}, hour0 |-> 2,
     last |-> 3, gfs0 |-> 1, every |-> 2, nseg |-> 2,
     switches |-> {"use_aero_anl", "archcom"}]

C96_gcafs_cycled_noDA ==
    [With(C96_gcafs_cycled, {"goes", "metp"}, {"use_aero_anl"})
        EXCEPT !.aeroAnlRuns = {}]

C96_gcafs ==
    [C96_gcafs_cycled EXCEPT !.mode = "forecast-only", !.last = 0, !.gfs0 = 0,
                             !.every = 4, !.aeroAnlRuns = {}]

-----------------------------------------------------------------------------
AllCases ==
    [C96C48_hybatmDA |-> C96C48_hybatmDA,
     C96_atm3DVar |-> C96_atm3DVar,
     C96_atm3DVar_extended |-> C96_atm3DVar_extended,
     C96C48_hybatmsoilDA |-> C96C48_hybatmsoilDA,
     C96C48_ufs_hybatmDA |-> C96C48_ufs_hybatmDA,
     C96C48_ufsgsi_hybatmDA |-> C96C48_ufsgsi_hybatmDA,
     C96C48_ufs_hybatmsoilDA |-> C96C48_ufs_hybatmsoilDA,
     C48_gsienkf_atmDA |-> C48_gsienkf_atmDA,
     C48_ufsenkf_atmDA |-> C48_ufsenkf_atmDA,
     C48mx500_3DVarAOWCDA |-> C48mx500_3DVarAOWCDA,
     C48mx500_hybAOWCDA |-> C48mx500_hybAOWCDA,
     C96C48mx500_S2SW_cyc_gfs |-> C96C48mx500_S2SW_cyc_gfs,
     C48_S2SW_extended |-> C48_S2SW_extended,
     AerosolForecasts |-> AerosolForecasts,
     C48_S2SWA_gefs |-> C48_S2SWA_gefs,
     C48_S2SWA_gefs_RT |-> C48_S2SWA_gefs_RT,
     C96mx100_S2S |-> C96mx100_S2S,
     SeasonalWaves |-> SeasonalWaves,
     C96_gcafs_cycled |-> C96_gcafs_cycled,
     C96_gcafs_cycled_noDA |-> C96_gcafs_cycled_noDA,
     C96_gcafs |-> C96_gcafs]

CaseNames == DOMAIN AllCases

-----------------------------------------------------------------------------
(* A gfs forecast every other cycle, as gfsv17/s2sw_stream1b has it.           *)
Stream1b == [With(Cycled, {}, {"metp"} \cup Monitors) EXCEPT !.every = 2, !.last = 4]

EveryTwelveHours == [Stream1b |-> Stream1b]
TwelveHourNames == DOMAIN EveryTwelveHours
=============================================================================
