\* Three names, lists of up to three entries, sorted and not; a level of 3 by 2.
SPECIFICATION Spec
CONSTANTS
    Names = {1, 2, 3}
    Values <- MCValues
    Defaults <- MCDefaults
    MaxModifiers = 3
    Viewpoints <- MCViewpoints
    Steps <- MCSteps
    max_width = 3
    max_height = 2
    MaxInt = 6
    Word = 16
INVARIANTS TypeOK FindsFirst
PROPERTIES PlainIsMap MovesInside
