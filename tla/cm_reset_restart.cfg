SPECIFICATION Spec
CONSTANTS
    NumChunks = 3
    NumFiles = 2
    First <- SharedFirst
    Last <- SharedLast
    Multimedia <- Video
    PreviewLen = 1
    UserPriority = {10, 40}
INVARIANT HaveIsReal
