CONSTANTS
    Wires <- Streams
    MaxSize = 36
    MaxIterations = 3
    QueueSize = 1
    Losses = {0, 1, 27}
SPECIFICATION Spec
INVARIANTS
    BytesInOrderOnce
    WholeFramesComeOut
    DamageIsSeen
    AnswersAreUnderstood
\* A stream ends, and then nothing arrives any more.
CHECK_DEADLOCK FALSE
