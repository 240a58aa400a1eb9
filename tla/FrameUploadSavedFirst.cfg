SPECIFICATION Spec
CONSTANTS
    FrameChunks = 1
    MaxSequence = 2
    ReadAttempts = 1
PROPERTIES
    UploadsSavedFirst
