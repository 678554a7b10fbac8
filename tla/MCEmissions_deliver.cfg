CONSTANTS
    Configurations <- Runs
    MaxTries = 2
    RawFiles <- MCRawFiles
    Species <- MCSpecies
    HemcoLines <- MCHemcoLines
    Date <- MCDate
    Stored <- MCStored
    Lost <- MCLost

SPECIFICATION Spec
INVARIANTS FireDaysDelivered NexusDaysDelivered
CHECK_DEADLOCK FALSE
