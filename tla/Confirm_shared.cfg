\* Three tasks over one pending confirmation and one session, and an app that
\* keeps asking for the result.
SPECIFICATION FairSpec
CONSTANTS
    Kinds = {"sign", "stream", "sap"}
    MaxRequests = 2
    MaxRefreshes = 1
    MaxCorruptions = 1
INVARIANTS TypeOK ReturnedWasApproved
PROPERTIES  RejectedStaysRejected PollAnswered
