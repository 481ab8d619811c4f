\* One attempt stops anywhere.
SPECIFICATION FairSpec
CONSTANTS
    NumNodes = 4
    NumRanges = 3
    StageNodes = {1, 2}
    MaxFaults = 1
PROPERTY Finishes
