\* One thread, two hooks, handlers that emit either event.
SPECIFICATION FairSpec
CONSTANTS
    main = main
    update = update
    KEYPRESS = KEYPRESS
    UPDATE = UPDATE
    NO_EVENT_INFO = NO_EVENT_INFO
    Fresh = Fresh
    Own = Own
    Threads = {main}
    Events = {KEYPRESS, UPDATE}
    StaticInfos = {NO_EVENT_INFO}
    Emits <- MCEmits
    Nested <- MCNested
    Defaults <- MCDefaults
    MaxHooks = 2
    MaxDepth = 7
    MaxCalls = 1
INVARIANTS NoReentry DepthBound
PROPERTIES DispatchEnds
