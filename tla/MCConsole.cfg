CONSTANTS
  INPUT_BUFFER_SIZE = 3
  VGA_ROWS = 3
  VGA_COLS = 4
  Keys <- TwoKeys
  scancode_table <- Plain
  scancode_table_shift <- Shifted
  Letters <- OneLetter
  Prompt <- ShortPrompt
  Unknown <- Question
  Welcome <- OneWelcome
  Commands <- FewCommands
  Outputs <- FewOutputs
SPECIFICATION Spec
INVARIANTS
  RowShowsLine
  SubmitsTyped
  ShiftNotStuck
CHECK_DEADLOCK FALSE
