SPECIFICATION Spec
CONSTANTS
    None = None
    Scripts <- MCScripts
    Noise <- MCNoise
    Arg <- MCArg
    Words <- MCWords
    MaxTrouble = 1
INVARIANTS
    TypeOK
    HandledWasSaid
    SoundIsHandled
    AskedIsObeyed
CHECK_DEADLOCK FALSE
