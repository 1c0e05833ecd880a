\* A gauge whose help changes.
CONSTANTS
    Configs <- HelpOnly
    Iotdb = "iotdb"
    MaxTwins = 2
SPECIFICATION Spec
PROPERTY ChangesNeverConflict
