\* Two blocks, a socket that holds one BLOCK_REP and one short command.
SPECIFICATION FairSpec
CONSTANTS
    Block = {b1, b2}
    NoBlock = none
    RepLen = 2
    XmitbufMaxlen = 3
    MaxCmd = 5
INVARIANTS
    TypeOK
    ReadIsFront
    QueueIsDriven
    NoLostRequest
    UnauthIsFinal
PROPERTIES
    EventuallyAnswered
