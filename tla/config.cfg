SPECIFICATION Spec
CONSTANTS
    MaxLabel = 3
    Spelling <- MCSpelling
    Files <- MCFiles
    Cwd <- MCCwd
    Hosts <- MCHosts
INVARIANTS
    UniqueLocations
    FirstBlockServes
    HostAgrees
PROPERTIES
    NoSilentOverride
    StartupEnds
CHECK_DEADLOCK FALSE
