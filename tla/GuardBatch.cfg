SPECIFICATION GuardSpec
CONSTANTS
    MaxFrames = 4
    Calls = {0, 1}
    None = None
INVARIANT NoCallTwiceAtAll
