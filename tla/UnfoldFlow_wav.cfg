\* What the Transcription River transcribes.
CONSTANTS
    Flow = {f, g}
    Task <- Tasks
    File = {"a", "b"}
    NULL = NULL
    SameMs = FALSE
SPECIFICATION Spec
INVARIANTS
    TranscriptFromWav
CHECK_DEADLOCK FALSE
