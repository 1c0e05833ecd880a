\* Two metrics and a counter; labels, help, servers and switches change; anything may fail.
CONSTANTS
    Configs <- AllConfigs
    Iotdb = "iotdb"
    MaxTwins = 4
SPECIFICATION FairSpec
INVARIANTS TypeOK ExposedIsConfigured RegistriesAgree
PROPERTIES ReloadConnects ExposedIsCollected
