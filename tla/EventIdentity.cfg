SPECIFICATION IdSpec
CONSTANTS
    a = a
    b = b
    c = c
    TrackIds <- MCTrackIds
    MaxTracks = 2
    MaxSeq = 3
    MaxSerial = 2
    MaxVersion = 2
    Configs <- MCConfigs
    Scenes <- MCScenes
    Times <- MCTimes
    MaxEpoch = 2
    MaxFrame = 4
    MaxLife = 2
INVARIANT EventIdUnique
