SPECIFICATION Spec
CONSTANTS
    Branch = {"main"}
    MaxPreviews = 2
    MaxConfirms = 2
    MaxCrashes = 0
    DbFails = FALSE
PROPERTIES PublishedIsFinal
CHECK_DEADLOCK FALSE
