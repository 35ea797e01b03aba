SPECIFICATION Spec
CONSTANTS
  c0 = c0
  c1 = c1
  Cores <- MCOneCore
  BootCore = c0
  BUDDY_LEVELS = 3
  PAGE_SIZE = 2
  PFA_SIZE = 8
  ram_base = 0
  ram_size = 16
  bootstrap_pa_reserved = 4
  kernel_text_base = 2
  kernel_text_size = 2
  kernel_data_base = 0
  kernel_data_size = 2
  Sizes <- MCWholePages
  RequestTypes <- MCOneType
  Readers <- MCNone
  CheckCounts <- MCNone
  Garbage <- MCGarbage
  NotHeld = NotHeld
INVARIANTS
  AllocatesIfABlockFits
