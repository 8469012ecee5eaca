\* The main and the handler thread, and a line of one letter.
SPECIFICATION FairSpec
CONSTANTS
    Main = Main
    Handler = Handler
    Widths = {8}
    Word = 64
CHECK_DEADLOCK FALSE
INVARIANTS TypeOK NestingBound LineFits
PROPERTIES KeepsDrawing ScreenComesBack
