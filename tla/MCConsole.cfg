CONSTANTS
  PAGE_SIZE = 8
  TOTAL_PAGES = 8
  USER_FIRST_PAGE = 2
  NUM_PAG_CODE = 1
  NUM_PAG_DATA = 2
  NUM_COLUMNS = 3
  NUM_ROWS = 2
  BYTE = 8
  START_ROW = 1
  TAM_BUFFER = 6
  NewLine = "nl"
  Mem <- Text
  Ranges <- Buffers
  Pictures <- PicturePlaces
  Coordinates <- Places
  Paints <- Shades
SPECIFICATION Spec
INVARIANTS CursorSound KernelKept
PROPERTIES TerminalSpec
