--------------------------- MODULE NexusEmissions ---------------------------
(* NEXUSEmissions (pygfs/task/nexus_emission.py): gather the inventories that *)
(* the HEMCO configuration names, run nexus.x, join its hourly files by day   *)
(* and deliver them.  HEMCO itself, nexus.x and the configuration templates   *)
(* are not part of the repository.                                            *)
EXTENDS EmissionTimes

CONSTANTS
    HemcoLines,         \* the lines of NEXUS_Config.rc, in order, see below
    Date(_),            \* the [year, month, day] of a day
    Stored(_),          \* what the inventories may hold in a configuration
    Lost                \* bound: sets of hours that nexus.x may leave out

(* A line is [kind, name], kind "switch" (turned on), "open" and "close" of a *)
(* conditional section, or an "entry" with [fields, years, frequency,         *)
(* patterns] too.  An entry names a file whose name carries fields: YYYY, MM  *)
(* and DD of the date, DAY for the kind of day.  years, <<>> or <<first,      *)
(* last>>, are those its inventory covers; frequency and patterns, the kinds  *)
(* of day, numbered, are the rule for its sector.                             *)
VARIABLES
    inputs,     \* inventory files copied to DATA/INPUT
    hours,      \* indices of the hourly files nexus.x has written
    daily,      \* NEXUS_DIAG.<day>.nc in DATA: the indices joined, by day
    restart,    \* whether nexus.x has written DATA/Restarts/RestartFile
    nexusCom,   \* NEXUS_DIAG.<day>.nc in COM, by <<member, day>>
    restartCom  \* members with RestartFile in their COMOUT_CHEM_RESTART

nexusVars == <<inputs, hours, daily, restart, nexusCom, restartCom>>

Nothing == [f \in {} |-> {}]

-----------------------------------------------------------------------------
(* __init__: output times from the cycle to an hour after the forecast.       *)
total_hrs == x.fhmax + 1

forecast_dates ==
    LET every == IF x.NEXUS_DIAG_FREQ = "Hourly" THEN 1 ELSE 24
    IN  [i \in 1 .. (total_hrs \div every) + 1 |-> x.cycle + (i - 1) * every]

\* HEMCO does not write the last one.  Indices count from 0, as in the code.
Indices == 0 .. Len(forecast_dates) - 2
TimeOf(i) == forecast_dates[i + 1]

FINAL_OUTPUT == {Day(TimeOf(i)) : i \in Indices}

-----------------------------------------------------------------------------
(* The inventories a run needs.                                               *)

\* parse_hemco_time_file: the dates of the first and the last output, without their hours.
parse_hemco_time_file == <<Day(x.cycle), Day(x.cycle + total_hrs)>>

\* Mistaken variant: the last day, which the forecast only just enters, is left out.
daterange_Short == parse_hemco_time_file[1] .. parse_hemco_time_file[2] - 1

daterange == parse_hemco_time_file[1] .. parse_hemco_time_file[2]

get_effective_year(e, year) ==
    IF e.years = <<>> THEN year
    ELSE IF year > e.years[2] THEN e.years[2]
    ELSE IF year < e.years[1] THEN e.years[1]
    ELSE year

\* The file of entry e on day d for kind of day p: its fields, 0 for one not
\* filled in.
Name(e, d, filled, p) ==
    [entry |-> e.name,
     fields |-> [f \in e.fields |->
        IF f \notin filled THEN 0
        ELSE CASE f = "YYYY" -> get_effective_year(e, Date(d).year)
               [] f = "MM"   -> Date(d).month
               [] f = "DD"   -> Date(d).day
               [] f = "DAY"  -> p]]

FilledBy(frequency) ==
    CASE frequency = "daily"          -> {"YYYY", "MM", "DD"}
      [] frequency = "monthly"        -> {"YYYY", "MM"}
      [] frequency = "representative" -> {"YYYY", "MM", "DAY"}
      [] OTHER                        -> {"YYYY"}

\* Mistaken variant: the patterns after the first are left out.
PatternsOf_First(e) ==
    IF e.frequency = "representative" THEN {CHOOSE p \in e.patterns : TRUE} ELSE {0}

\* A name for each pattern of a representative sector, one of the others.
PatternsOf(e) == IF e.frequency = "representative" THEN e.patterns ELSE {0}

expand_filenames(e) ==
    {Name(e, d, FilledBy(e.frequency), p) : d \in daterange, p \in PatternsOf(e)}

(* parse_hemco reads the lines once.  Of nested sections only the last one    *)
(* opened counts, and none after the first that closes; a switch counts from  *)
(* the line that turns it on.                                                 *)
LinesOf(kind) == {k \in DOMAIN HemcoLines : HemcoLines[k].kind = kind}

in_conditional_section(k) ==
    {HemcoLines[i].name : i \in {j \in LinesOf("open") : /\ j < k
        /\ \A c \in j + 1 .. k : c \notin LinesOf("open") \cup LinesOf("close")}}

enabled_collections(k) == {HemcoLines[i].name : i \in {j \in LinesOf("switch") : j < k}}

parse_hemco ==
    UNION {expand_filenames(HemcoLines[k]) :
              k \in {j \in LinesOf("entry") :
                        in_conditional_section(j) \subseteq enabled_collections(j)}}

(* NEXUS_Config.rc turns on the collections before it opens their sections.   *)
(* A representative sector has patterns: without, nothing is asked for.  No    *)
(* inventory has a file with a field left in its name.                         *)
ASSUME HemcoAssumption ==
    /\ DOMAIN HemcoLines = 1 .. Len(HemcoLines)
    /\ \A k \in LinesOf("entry") :
        /\ \A i \in LinesOf("switch") : i < k
        /\ HemcoLines[k].frequency = "representative" => HemcoLines[k].patterns # {}
    /\ \A c \in Configurations : \A stored \in Stored(c) : \A file \in stored :
        \A f \in DOMAIN file.fields : file.fields[f] # 0

gather_emissions_files(stored) ==
    [found |-> parse_hemco \cap stored, missing |-> parse_hemco \ stored]

(* initialize: any file that is missing ends the task.                        *)
NexusInitialize ==
    /\ step = "nexus_initialize"
    /\ \E stored \in Stored(x) :
        IF gather_emissions_files(stored).missing = {}
        THEN inputs' = gather_emissions_files(stored).found /\ GoTo("nexus_execute")
        ELSE UNCHANGED inputs /\ GoTo("failed")
    /\ UNCHANGED <<hours, daily, restart, nexusCom, restartCom>>

-----------------------------------------------------------------------------
(* execute.                                                                   *)

\* The indices of each day, with the midnight it ends at.
_get_day_indices ==
    LET of(d) == {i \in Indices : Day(TimeOf(i)) = d \/ TimeOf(i) = 24 * (d + 1)}
    IN  [d \in {e \in Day(x.cycle) - 1 .. Day(x.cycle + total_hrs) : of(e) # {}} |-> of(d)]

(* The days in the order their first index is met: the day that ends at the   *)
(* cycle comes after the day that begins there.                               *)
Turn(d) == IF d < Day(x.cycle) THEN 1 ELSE 2 * (d - Day(x.cycle))

\* Mistaken variant: a missing hour is passed over, not the rest of the day.
JoinedFor_Continue(d) == _get_day_indices[d] \cap hours'

\* The indices of a day up to the first whose file is missing.
JoinedFor(d) ==
    {i \in _get_day_indices[d] : \A j \in _get_day_indices[d] : j <= i => j \in hours'}

\* The first day of which there is nothing ends the loop.
ConcatenateByDay ==
    LET days == DOMAIN _get_day_indices
    IN  [d \in {e \in days : \A f \in days : Turn(f) <= Turn(e) => JoinedFor(f) # {}}
            |-> JoinedFor(d)]

(* nexus.x fails, or ends well with its hourly files and its restart written, *)
(* perhaps not all of them; then the files of each day are joined.            *)
NexusExecute ==
    /\ step = "nexus_execute"
    /\ \/ GoTo("failed") /\ UNCHANGED <<hours, daily, restart>>
       \/ /\ hours' \in {Indices \ l : l \in Lost}
          /\ daily' = ConcatenateByDay
          /\ restart' \in BOOLEAN
          /\ GoTo("nexus_finalize")
    /\ UNCHANGED <<inputs, nexusCom, restartCom>>

-----------------------------------------------------------------------------
(* finalize: to each member in turn FINAL_OUTPUT, a list in no set order, and *)
(* then the restart.                                                          *)
OutputMade == FINAL_OUTPUT \subseteq DOMAIN daily /\ restart

\* The copies to the members before m, and of days to m.
CopiedUpTo(m, days) ==
    LET copies == ((0 .. m - 1) \X FINAL_OUTPUT) \cup ({m} \X days)
    IN  /\ nexusCom' = [t \in DOMAIN nexusCom \cup copies |->
                          IF t \in copies THEN daily[t[2]] ELSE nexusCom[t]]
        /\ restartCom' = restartCom \cup (0 .. m - 1)

\* The first copy whose source is missing ends finalize.
CopyFails ==
    \E days \in SUBSET (FINAL_OUTPUT \cap DOMAIN daily) :
        /\ FINAL_OUTPUT \subseteq DOMAIN daily => days = FINAL_OUTPUT
        /\ CopiedUpTo(0, days)

NexusFinalize ==
    /\ step = "nexus_finalize"
    /\ IF OutputMade THEN CopiedUpTo(x.NMEM_ENS + 1, {}) /\ GoTo("done")
                     ELSE CopyFails /\ GoTo("failed")
    /\ UNCHANGED <<inputs, hours, daily, restart>>

\* The job is killed between two of the copies.
CopiesCut ==
    \E m \in Members, days \in SUBSET (FINAL_OUTPUT \cap DOMAIN daily) :
        (m > 0 => OutputMade) /\ CopiedUpTo(m, days)

-----------------------------------------------------------------------------
NexusRestart ==
    /\ inputs' = {}
    /\ hours' = {}
    /\ daily' = Nothing
    /\ restart' = FALSE
    /\ UNCHANGED <<nexusCom, restartCom>>

NexusInit ==
    /\ inputs = {}
    /\ hours = {}
    /\ daily = Nothing
    /\ restart = FALSE
    /\ nexusCom = Nothing
    /\ restartCom = {}
=============================================================================
