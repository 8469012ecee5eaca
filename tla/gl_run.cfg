\* Two loops, one after the other, with signals, failing reads and a user who types.
SPECIFICATION TypingSpec
CONSTANTS
    game = game
    menu = menu
    None = None
    Main = Main
    Loops = {game, menu}
    MaxFixed = 1
CHECK_DEADLOCK FALSE
INVARIANTS TypeOK InitFirst CrashOnlyAfterExit MouseNeverLeftOn
PROPERTIES ExitsOnce NothingBeginsAfterExit OwnsExclusively WorkersEnd CancelLeadsToExit
