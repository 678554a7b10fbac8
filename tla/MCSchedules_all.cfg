SPECIFICATION Spec
CONSTANT Experiments <- Varied
INVARIANTS
    WarmStartSets
    SavedRestartsStart
    MembersPartitioned
    ExpdirArchived
    GroupsPartition
    AwipsGroups
CHECK_DEADLOCK FALSE
