\* Every accepted value of each implementation flag plus one the code
\* rejects, every subset of the descriptor flags, and two guest boots: a
\* re-exec with requests still in the pipes, and a re-exec of an image
\* that was itself re-executed.
CONSTANTS
    TpmImpls = {"in_memory", "host_device", "other"}
    KeymintImpls = {"software", "tpm", "other"}
    GatekeeperImpls = {"software", "tpm", "other"}
    OemlockImpls = {"software", "tpm", "other"}
    GivenFdSets <- MCAnyGiven
    MaxBoots = 2
    GuestChannels = {"keymaster", "oemlock"}
SPECIFICATION Spec
\* The process may abort (LOG(FATAL), CHECK) and then nothing runs.
CHECK_DEADLOCK FALSE
INVARIANT TypeOK
INVARIANT ReExecNeverFailsFlagCheck
PROPERTY ResponderKeepsServing
