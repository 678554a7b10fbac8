--------------------------- MODULE EmissionTimes ---------------------------
(* What the two halves of the job prep_emissions share                        *)
(* (exglobal_prep_emissions.py): the configuration of the run, the step the   *)
(* script is at, and the copies its tasks make.  A time is a number of hours  *)
(* since midnight of day 0; a day is the number of that midnight.             *)
EXTENDS Integers, FiniteSets, Sequences

CONSTANTS
    Configurations,     \* what the job may be configured with, see below
    MaxTries            \* bound: submissions of the job

(* Fields: cycle and fhmax, the hours of the cycle and of its forecast;       *)
(* AERO_EMIS_FIRE, historical; NEXUS_DIAG_FREQ; NMEM_ENS.                     *)
ASSUME JobAssumption ==
    \A c \in Configurations :
        c.cycle \in Nat /\ c.fhmax \in Nat /\ c.NMEM_ENS \in Nat /\ c.historical \in BOOLEAN

VARIABLES
    x,          \* the configuration, which does not change
    step,       \* the call the script makes next, or how it has ended
    tries       \* submissions so far

jobVars == <<x, step, tries>>

Day(t) == t \div 24

Steps == {"init", "fire_initialize", "fire_execute", "fire_finalize",
          "nexus_initialize", "nexus_execute", "nexus_finalize", "done", "failed"}

\* COMOUT_CHEM_INPUT with mem000 replaced, or the directory of the run itself.
Members == 0 .. x.NMEM_ENS

GoTo(s) == step' = s /\ UNCHANGED <<x, tries>>

(* FileHandler copies one file after the other and raises at the first whose  *)
(* source is missing: copies is the sequence of [from, to].                   *)
Copied(copies, sources) ==
    {k \in DOMAIN copies : \A j \in 1 .. k : copies[j].from \in sources}

Sync(dest, copies, source) ==
    LET good == Copied(copies, DOMAIN source)
        last(t) == CHOOSE k \in good : /\ copies[k].to = t
                                       /\ \A j \in good : copies[j].to = t => j <= k
    IN  [t \in DOMAIN dest \cup {copies[k].to : k \in good} |->
            IF \E k \in good : copies[k].to = t THEN source[copies[last(t)].from]
                                                ELSE dest[t]]

JobInit ==
    /\ x \in Configurations
    /\ step = "init"
    /\ tries = 1
=============================================================================
