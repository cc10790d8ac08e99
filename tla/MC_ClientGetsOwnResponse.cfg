\* One accepted value per flag and every descriptor given: the run is
\* about the running process, its responders and its re-execs.
CONSTANTS
    TpmImpls = {"host_device"}
    KeymintImpls = {"tpm"}
    GatekeeperImpls = {"tpm"}
    OemlockImpls = {"software"}
    GivenFdSets <- MCAllGiven
    MaxBoots = 2
    GuestChannels = {"oemlock"}
SPECIFICATION Spec
\* The process may abort (LOG(FATAL), CHECK) and then nothing runs.
CHECK_DEADLOCK FALSE
PROPERTY ClientGetsOwnResponse
