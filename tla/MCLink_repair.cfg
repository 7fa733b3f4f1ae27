\* One session of video with every loss there is.
CONSTANTS
    MAX_QUEUED_FRAMES = 1
    MaxInFlight = 1
    MaxRequests = 1
SPECIFICATION FairSpec
INVARIANTS
    LossIsRepaired
    KeyframeGoesFirst
PROPERTY FirstPicture
CHECK_DEADLOCK FALSE
