\* Lines of three characters, a history of three, one command, of names one character is kept.
SPECIFICATION Spec
CONSTANTS
    a = a
    Chars = {a, sp}
    Space = sp
    Nul = Nul
    Names <- OneName
    CLI_CMD_LIST_MAX = 2
    CLI_CMD_NAME_MAX = 2
    CLI_LINE_BUF_MAX = 5
    CLI_LINE_HIS_MAX = 3
    RX_MAX = 1
    None = None
CONSTRAINT
    FewLong
INVARIANTS
    TypeOK
    ScreenMirrors
PROPERTIES
    RunsWhatIsSeen
    ImplementsHistory
