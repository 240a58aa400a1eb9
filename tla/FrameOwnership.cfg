SPECIFICATION FairSpec
CONSTANTS
    FrameChunks = 2
    MaxSequence = 3
    ReadAttempts = 2
INVARIANT Inv
PROPERTIES
    PanelFaithful
    HeldPhotoUntouched
    PreparedReleased
    HeldPhotoTaken
