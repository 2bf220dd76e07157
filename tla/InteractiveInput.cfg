SPECIFICATION FairSpec
CONSTANTS
  Letters = {"r", "O", "!"}
  Bytes = {"r", "O", "!", "[", "CR", "LF", "^C", "^D", "DEL", "TAB", "?", "ESC"}
  MaxBytes = 4
  Asking <- Reload
  Quitting <- Quit
  Yes <- Confirm
  Completions <- TabOtoR
INVARIANTS TypeOK ScreenShowsLine LinesRunAsWritten
PROPERTIES SessionEnds
CHECK_DEADLOCK FALSE
