\* A cancelled loop waits for input before EXIT.
SPECIFICATION FairSpec
CONSTANTS
    game = game
    menu = menu
    None = None
    Main = Main
    Loops = {game}
    MaxFixed = 1
CHECK_DEADLOCK FALSE
PROPERTIES CancelLeadsToExit
