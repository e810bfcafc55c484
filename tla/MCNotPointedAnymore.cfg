CONSTANTS
  idle = idle
  init = init
  a = a
  b = b
  c = c
  Idle = idle
  Task1 = init
  Tasks <- Four
  TOTAL_PAGES = 11
  NUM_PAG_KERNEL = 2
  NUM_PAG_CODE = 1
  NUM_PAG_DATA = 1
  MAX_DIN = 2
  MaxPages = 2
SYMMETRY Alike
SPECIFICATION Spec
PROPERTIES NotPointedAnymore
