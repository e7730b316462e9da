SPECIFICATION Spec
CONSTANTS
    PAGE_SIZE = 21
    SLOT_ELEM_SIZE = 1
    RECORD_META_SIZE = 1
    LEAF_NODE_HEADER_SIZE = 1
    INTERNAL_NODE_HEADER_SIZE = 3
    INDEX_ENTRY_SIZE = 5
    MAX_VALUE_SIZE = 6
    Keys = {1, 2, 3, 4, 5}
    Payloads = {1, 5, 7}
INVARIANT TreeTypeOK
INVARIANT TreeShape
INVARIANT Balanced
INVARIANT PagesFit
INVARIANT ReadsInOrder
INVARIANT DeleteVisitsAll
INVARIANT UpdateVisitsAll
INVARIANT MaxRowIdIsLargest
INVARIANT UniformWritesSucceed
INVARIANT ActsAsMap
