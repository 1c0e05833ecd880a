\* A counter.
CONSTANTS
    Configs <- OnlyCounter
    Iotdb = "iotdb"
    MaxTwins = 2
SPECIFICATION Spec
PROPERTY CleanReloadRegisters
