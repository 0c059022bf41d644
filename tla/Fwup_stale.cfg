\* Two releases while one update is under way; nothing fails, nothing crashes.
SPECIFICATION Spec
CONSTANTS
    MaxVersion = 3
    Modes = {"normal"}
    MaxStarts = 3
    MaxFaults = 0
    MaxCrashes = 0
PROPERTIES UxcCommitsVerified
