SPECIFICATION Spec
\* The manager waits for someone to ask it for something.
CHECK_DEADLOCK FALSE
CONSTANTS
    Firmwares <- Fedora
    SecbootNames = {"CODE.secboot.fd"}
    Hosts = {"x86_64", "aarch64"}
    Templates <- FedoraFiles
    Outside <- OutsideFiles
    AtFirst <- FirstFiles
    Names <- FileNames
    Qcow2Names <- EndInQcow2
    Memory = 8192
    Processors = 4
    Options <- MCOptions
    GoOn <- MCGoOn
    Scripts <- MCScripts
    Written <- Nameless
    Failing <- MCFailing
    MaxHarms = 0
    MaxResets = 0
    MaxBackups = 9
INVARIANT CloneOwns
