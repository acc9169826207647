CONSTANTS
    Tasks <- MCTasks
    After <- MCAfter
    Do <- MCDo
    Targets = {"switch", "random"}
    ResultsSize = 1
    Wanted <- MCWanted
    Kmods <- MCModules
    Copied = {"init"}
    Present <- MCPresent
    Dirs <- MCDirs
    Graphs <- MCGraphs
    MaxFailures = 1
    Modules <- MCModules
    Devices <- MCDevices
    Matches <- MCMatches
    Builtin = {"scsi"}
    NoDevice = {"libata"}
    Preloads = {{}, {"libata"}}
    WalkOrder <- MCWalkOrder
    Generators = {g1}
    Chunks = 2
    Interfaces = {eth0, eth1}
    Acks <- MCAcks
    NoIface = NoIface
SPECIFICATION FairSpec
INVARIANTS DependenciesFirst LoadedInKernel UpMeansConfigured ImageComplete NothingMissing
PROPERTIES GeneratorsEnd BootEnds
CHECK_DEADLOCK FALSE
