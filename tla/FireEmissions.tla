--------------------------- MODULE FireEmissions ---------------------------
(* ChemFireEmissions (pygfs/task/chem_fire_emission.py): find the raw files   *)
(* of the fires, make one file of each day of the forecast, deliver them to   *)
(* every member.  The content of a netCDF file is abstracted to the day its   *)
(* data is of, the day its time coordinate names and the species it holds.    *)
EXTENDS EmissionTimes, Functions, SequencesExt

CONSTANTS
    RawFiles,           \* what the directories of raw files may come to hold
    Species             \* the variables of QFED, a file each

(* Fields of a raw file: product; dir, the day of its directory or -99 where  *)
(* all days are in one; day; version; form, "raw" or "coards"; name, "blend"  *)
(* (..._s<day>..._e<day>..._c<day>.nc) or "daily" (..._<day>.nc); species.    *)
(* In real time the files of a day are in the directory of the day.           *)
ASSUME RawFileAssumption ==
    /\ IsFiniteSet(RawFiles) /\ Species # {}
    /\ \A f \in RawFiles :
        f.day \in Int /\ (f.dir # -99 /\ f.name = "blend" => f.day = f.dir)

VARIABLES
    raw,        \* the raw files there are
    rawfiles,   \* task_config.rawfiles, copied to DATA
    fireData,   \* FIRE_EMIS_<day>.nc in DATA, by day
    fireCom     \* FIRE_EMIS_<day>.nc in COM, by <<member, day>>

fireVars == <<raw, rawfiles, fireData, fireCom>>

NoFiles == [f \in {} |-> {}]

\* Every order os.listdir can return the members of S in.
Listings(S) == {s \in [1 .. Cardinality(S) -> S] : \A i, j \in DOMAIN s : s[i] = s[j] => i = j}

-----------------------------------------------------------------------------
(* __init__: the days from the one before the cycle to 36 hours after the end *)
(* of the forecast.                                                           *)
start_date == x.cycle - 24
end_date == x.cycle + x.fhmax + 36
numdays == Day(end_date) - Day(start_date) + 1

forecast_days == [i \in 1 .. numdays |-> Day(start_date) + i - 1]

ForecastDays == {forecast_days[i] : i \in DOMAIN forecast_days}

-----------------------------------------------------------------------------
(* The searches; each is the set of the lists it can return.                  *)

\* _find_gbbepx_files on one date.  Which version is asked for is not looked at.
FoundOn(d) == {f \in raw : f.product = "gbbepx" /\ f.dir = -99 /\ f.day = d}

\* Files of the form "blend" end the search: its pattern has no third group.
BlendInHistory == \E f \in raw : f.product = "gbbepx" /\ f.dir = -99 /\ f.name = "blend"

\* The files of each day in turn, those of one day in any order.
InDateOrder ==
    {s \in Listings(UNION {FoundOn(d) : d \in ForecastDays}) :
        \A i, j \in DOMAIN s : i < j => s[i].day <= s[j].day}

(* _find_gbbepx_nrt_fires: the directory of start_date or of the day before.  *)
(* The third date of dates_to_look_for is not reached: the path no longer     *)
(* names start_date when it is replaced again.                                *)
NrtDirs == {f.dir : f \in {g \in raw : g.product = "gbbepx" /\ g.dir # -99}}

nrt_date ==
    IF Day(start_date) \in NrtDirs THEN Day(start_date) ELSE Day(start_date) - 1

_find_gbbepx_nrt_fires ==
    {f \in raw : f.product = "gbbepx" /\ f.dir = nrt_date /\ f.name = "blend"}

\* The species of a day are looked for in the order of qfed_vars.
_find_qfed_files(d) == SetToSeq({f \in raw : f.product = "qfed" /\ f.day = d})

Searches ==
    IF x.AERO_EMIS_FIRE = "qfed"
    THEN {FlattenSeq([i \in 1 .. numdays |-> _find_qfed_files(forecast_days[i])])}
    ELSE IF x.historical THEN InDateOrder ELSE Listings(_find_gbbepx_nrt_fires)

(* No product: files_found has no value.  QFED that is not historical:        *)
(* AERO_EMIS_FIRE_DIR has none, as config.aero does not export it.            *)
SearchFails ==
    \/ x.AERO_EMIS_FIRE \notin {"gbbepx", "qfed"}
    \/ x.AERO_EMIS_FIRE = "qfed" /\ ~x.historical
    \/ x.AERO_EMIS_FIRE = "gbbepx" /\ x.historical /\ BlendInHistory

-----------------------------------------------------------------------------
(* initialize: the raw files are copied to DATA.                              *)
FireInitialize ==
    /\ step = "fire_initialize"
    /\ IF SearchFails
       THEN GoTo("failed") /\ UNCHANGED rawfiles
       ELSE GoTo("fire_execute") /\ rawfiles' \in Searches
    /\ UNCHANGED <<raw, fireData, fireCom>>

-----------------------------------------------------------------------------
(* execute.                                                                   *)
FireFile(d, t, species) == [data |-> d, time |-> t, species |-> species]

Converted(f, t) == FireFile(f.day, t, Species)

\* _process_gbbepx_files, not historical: the first file stands for every day.
OneForAllDays == [d \in ForecastDays |-> Converted(rawfiles[1], d)]

\* _process_gbbepx_files, historical: zip(forecast_dates, rawfiles).
ZippedWithDays ==
    LET n == IF Len(rawfiles) < numdays THEN Len(rawfiles) ELSE numdays
    IN  [d \in {forecast_days[i] : i \in 1 .. n} |->
            LET f == rawfiles[CHOOSE i \in 1 .. n : forecast_days[i] = d]
            IN  Converted(f, f.day)]

(* _process_qfed_files: the species found for each day are merged; a day of   *)
(* whose files combine_qfed_files makes nothing is left out.                  *)
CombinedByDay(unreadable) ==
    LET of(d) == {f \in Range(rawfiles) : f.day = d}
    IN  [d \in {e \in ForecastDays : of(e) # {} /\ of(e) \cap unreadable = {}} |->
            FireFile(d, d, {f.species : f \in of(d)})]

\* GBBEPx_to_COARDS returns nothing for such a file, which is then used.
CoardsAlready == ~x.historical /\ rawfiles # <<>> /\ rawfiles[1].form = "coards"

FireExecute ==
    /\ step = "fire_execute"
    /\ \/ /\ x.AERO_EMIS_FIRE = "gbbepx" /\ CoardsAlready
          /\ GoTo("failed") /\ UNCHANGED fireData
       \/ /\ x.AERO_EMIS_FIRE = "gbbepx" /\ ~CoardsAlready
          /\ GoTo("fire_finalize")
          /\ fireData' = IF x.historical THEN ZippedWithDays
                         ELSE IF rawfiles = <<>> THEN NoFiles ELSE OneForAllDays
       \/ /\ x.AERO_EMIS_FIRE = "qfed"
          /\ GoTo("fire_finalize")
          /\ \E u \in {{}} \cup {{f} : f \in Range(rawfiles)} : fireData' = CombinedByDay(u)
    /\ UNCHANGED <<raw, rawfiles, fireCom>>

-----------------------------------------------------------------------------
(* finalize: FIRE_EMIS of every day of forecast_dates to every member.        *)
Copies(days) ==
    [k \in 1 .. (x.NMEM_ENS + 1) * Len(days) |->
        LET d == days[((k - 1) % Len(days)) + 1]
        IN  [from |-> d, to |-> <<(k - 1) \div Len(days), d>>]]

\* Mistaken variant: what was made, not what the forecast needs.
fire_data_out_Made == Copies(SelectSeq(forecast_days, LAMBDA d : d \in DOMAIN fireData))

fire_data_out == Copies(forecast_days)

FireFinalize ==
    /\ step = "fire_finalize"
    /\ fireCom' = Sync(fireCom, fire_data_out, fireData)
    /\ GoTo(IF \A k \in DOMAIN fire_data_out : fire_data_out[k].from \in DOMAIN fireData
            THEN "nexus_initialize" ELSE "failed")
    /\ UNCHANGED <<raw, rawfiles, fireData>>

-----------------------------------------------------------------------------
(* Raw files keep arriving, in any order.  Only the searches read them: what  *)
(* arrives later in a try is taken to arrive before the next.                 *)
Arrive ==
    /\ step \in {"init", "failed"}
    /\ \E f \in RawFiles \ raw :
        /\ f.product = x.AERO_EMIS_FIRE /\ (f.dir = -99) = (x.historical \/ f.product = "qfed")
        /\ raw' = raw \cup {f}
    /\ UNCHANGED <<jobVars, rawfiles, fireData, fireCom>>

\* A new submission has a new DATA; COM stays as it is.
FireRestart ==
    /\ rawfiles' = <<>>
    /\ fireData' = NoFiles
    /\ UNCHANGED <<raw, fireCom>>

FireInit ==
    /\ raw = {}
    /\ rawfiles = <<>>
    /\ fireData = NoFiles
    /\ fireCom = NoFiles
=============================================================================
