SPECIFICATION Spec
CONSTANTS
    Voices = {v1, v2}
    Streaming = {v1}
    Capacity = 2
    None = None
CHECK_DEADLOCK FALSE
CONSTRAINT OneSounds
INVARIANTS
    TypeOK
    SpeechOutlivesStop
    DropsAreReported
PROPERTIES
    ImplementsDictation
    StartsAndStopsEnd
