\* A FIFO of two, messages of two; a log of two lines and a start-up log of three.
SPECIFICATION FairBoardSpec
CONSTANTS
    CFG_TUD_CDC_TX_BUFSIZE = 2
    HEAD = 1
    SLACK = 2
    TEXT = 2
    OUTPUT = 2
    LOG_BOOT_BUF_MAX = 11
    LOG_LIST_BUF_MAX = 8
    LINE_MOD = 2
    RESET_BIT_MAX = 1
    TRIES = 1
    MAX_NEST = 3
INVARIANTS
    LogTells
    OutputInOrder
    DarkWhenAsleep
PROPERTIES
    LoopTurns
