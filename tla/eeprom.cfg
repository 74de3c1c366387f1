SPECIFICATION FairSpec
CONSTANTS
    Codes = {dflt, x}
    Default = dflt
    Blank = Blank
    EEPROM_PROFILE_MAX = 2
    MAX_REFUSED = 1
    Edits <- WholeKeymap
INVARIANTS
    DirtyCovers
    NoDeadProfile
PROPERTIES
    KeepsProfilesApart
    AllIsSaved
