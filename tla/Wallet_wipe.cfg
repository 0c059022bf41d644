SPECIFICATION Spec
CONSTANTS
    TemplateCount = 1
    MaxWipes = 2
    MaxFaults = 2
    MaxCrashes = 1
INVARIANTS TypeOK AnsweredKeysKept NoStaleKeys StaysUnlockable WipedClean
