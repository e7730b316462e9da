SPECIFICATION Spec
CONSTANTS
    INT_MAX = 2
    SIGN_BIT = 16
    Strings = {1, 2, 3}
    Hash <- MCHash
    CharCount <- MCCharCount
    MAX_DEPTH = 2
    BLOCK_SIZE = 2
    MAX_ROW_IDS = 2
    Tables <- MCTables
    IndexDefs <- MCIndexDefs
    Inserts <- MCInserts
    Updates <- MCUpdates
    Deletes <- MCDeletes
    Selects <- MCSelects
    Predicates <- MCPredicates
    MaxRoot = 6
    MaxRow = 3
    MaxVisits = 12
    MaxStatements = 5
INVARIANT SqlTypeOK
INVARIANT CatalogMatches
INVARIANT IndexesExact
INVARIANT UniqueHolds
INVARIANT PkIsRowId
INVARIANT FreshRowIds
INVARIANT PlansAgree
INVARIANT WritesOnce
INVARIANT JoinsAgree
INVARIANT AnswersAgree
INVARIANT WindowsAgree
