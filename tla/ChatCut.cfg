\* Reads that end where the connection happens to cut the stream.
CONSTANTS
    None = None
    Scripts <- SomeScripts
    MaxStored = 3
    MaxClicks = 1
    MaxEvents = 1
SPECIFICATION Spec
INVARIANT EventsAreHandled
CHECK_DEADLOCK FALSE
