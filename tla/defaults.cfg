\* The modifiers a camera is built with.
SPECIFICATION Spec
CONSTANTS
    Names <- MCNames
    Values <- MCCameraValues
    Defaults <- MCCamera
    MaxModifiers = 16
    Viewpoints <- MCViewpoints
    Steps <- MCSteps
    max_width = 3
    max_height = 2
    MaxInt = 6
    Word = 16
INVARIANT EntriesFound
