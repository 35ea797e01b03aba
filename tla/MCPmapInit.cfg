SPECIFICATION FairSpec
CONSTANTS
  PAGE_ENTRY_COUNT = 4
  MMIO_BASE = 29
  MMIO_END = 32
  BootstrapPages = 1
  Boots <- MCBoots
  PHYS_ADDR_INVALID = PHYS_ADDR_INVALID
  PTE_INVALID = PTE_INVALID
  BootstrapTable = BootstrapTable
INVARIANTS
  MapsWhatWasAsked
  TablesFormATree
  SwitchIsSafe
  HandOverCoversTables
PROPERTIES
  ImplementsAddressSpace
  BuildEnds
CHECK_DEADLOCK FALSE
