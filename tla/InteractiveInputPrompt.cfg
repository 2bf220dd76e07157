SPECIFICATION FairSpec
CONSTANTS
  Letters = {"r", "O"}
  Bytes = {"r", "CR"}
  MaxBytes = 4
  Asking <- Reload
  Quitting <- Quit
  Yes <- Confirm
  Completions <- TabOtoR
PROPERTIES PromptAnswered
CHECK_DEADLOCK FALSE
