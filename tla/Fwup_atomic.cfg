SPECIFICATION FairSpec
CONSTANTS
    MaxVersion = 2
    Modes = {"normal", "delta"}
    MaxStarts = 2
    MaxFaults = 1
    MaxCrashes = 1
INVARIANTS TypeOK AlwaysBootable
PROPERTIES CoreCommitsAfterUxc UxcCommitsVerified StagedResolved
