SPECIFICATION LiveSpec
CONSTANTS
    NumChunks = 2
    NumFiles = 2
    First <- PairFirst
    Last <- PairLast
    Multimedia <- Video
    PreviewLen = 1
    UserPriority = {10, 20, 40}
    MaxDisturb = 4
PROPERTY EventuallyComplete
CHECK_DEADLOCK FALSE
