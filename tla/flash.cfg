\* Pages and sectors of three bytes, one of firmware and three of users'; every
\* address, and lengths of up to three sectors, which reach round to the firmware.
SPECIFICATION Spec
CONSTANTS
    HW_FLASH_PAGE_SIZE = 3
    HW_FLASH_SECTOR_SIZE = 3
    HW_FLASH_SIZE = 12
    HW_FLASH_USER_BEGIN = 3
    ADDR_MOD = 24
    MAX_ADDR = 23
    MAX_LEN = 9
    HW_FLASH_TEST_BEGIN = 9
    TestPattern <- Count
    Patterns <- TwoPatterns
    None = None
INVARIANT
    TestTells
PROPERTIES
    OnlyWrapsHurt
    ImplementsNor
