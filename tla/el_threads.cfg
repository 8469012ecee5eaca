\* Two threads that share hooks, locks and NO_EVENT_INFO.
SPECIFICATION Spec
CONSTANTS
    main = main
    update = update
    KEYPRESS = KEYPRESS
    UPDATE = UPDATE
    NO_EVENT_INFO = NO_EVENT_INFO
    Fresh = Fresh
    Own = Own
    Threads = {main, update}
    Events = {KEYPRESS, UPDATE}
    StaticInfos = {NO_EVENT_INFO}
    Emits <- MCEmits
    Nested <- UpdateNested
    Defaults <- MCDefaults
    MaxHooks = 2
    MaxDepth = 2
    MaxCalls = 1
INVARIANTS TypeOK LockHasOwner
PROPERTIES HonoursPrevention EndsOnlyOnRequest
