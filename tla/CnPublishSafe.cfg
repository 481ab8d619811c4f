\* Three attempts stopped anywhere, fresh or begun by the release before the cutover.
SPECIFICATION FairSpec
CONSTANTS
    NumNodes = 4
    NumRanges = 3
    StageNodes = {1, 2}
    MaxFaults = 3
INVARIANT DoneIsPublished
INVARIANT OneMode
PROPERTY NoRework
PROPERTY Converges
