SPECIFICATION Spec
\* The manager waits for someone to ask it for something.
CHECK_DEADLOCK FALSE
CONSTANTS
    Firmwares <- Fedora
    SecbootNames = {"CODE.secboot.fd"}
    Hosts = {"x86_64", "aarch64"}
    Templates <- FedoraFiles
    Outside <- OutsideFiles
    AtFirst <- FirstFiles
    Names <- FileNames
    Qcow2Names <- EndInQcow2
    Memory = 8192
    Processors = 4
    Options <- MCOptions
    GoOn <- MCGoOn
    Scripts <- MCScripts
    Written <- Named
    Failing <- MCFailing
    MaxHarms = 1
    MaxResets = 1
    MaxBackups = 9
INVARIANT NewAsAsked
INVARIANT DamageIsTold
INVARIANT RunsWhole
INVARIANT CloneOwns
PROPERTY NothingLost
PROPERTY CloneSame
