CONSTANTS
  VGA_WIDTH = 4
  VGA_HEIGHT = 3
  TAB_WIDTH = 2
  VGA_CELLS = 14
  SHELL_LINE_MAX = 5
  Inputs = {"a", "nl", "tab"}
  Banner <- MCBanner
  Prompt <- MCPrompt
  Commands <- MCCommands
  PFAULT <- MCPFAULT
  Unknown <- MCUnknown
  Hint <- MCHint
SPECIFICATION ShellSpec
INVARIANT CursorShowsPosition
CHECK_DEADLOCK FALSE
