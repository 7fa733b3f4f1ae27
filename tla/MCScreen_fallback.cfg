\* The chain of two codecs, with any order of answers, losses of the surface,
\* pictures and complaints.
CONSTANTS
    ChainSize = 2
    MaxPosts = 2
SPECIFICATION FairSpec
INVARIANTS
    OwnsWhatIsCurrent
    CodecAgrees
    NeverStuck
PROPERTIES
    ComplaintsAreCurrent
    PictureSurvives
    PictureWins
    NeverSilent
CHECK_DEADLOCK FALSE
