------------------------------- MODULE MCPFA -------------------------------
(* PFA on RAM of six, eight or eleven small pages and three buddy levels.   *)
EXTENDS PFARefinement

CONSTANTS c0, c1

MCCores == {c0, c1}
MCOneCore == {c0}
MCReader == {c1}
MCNone == {}

(* Two bytes make a page. One byte and one page take one page, three bytes  *)
(* two, six three and eight bytes the largest block; zero takes none.       *)
MCSizes == {1, 2, 3, 6, 8}
MCWholePages == {2, 4, 6, 8}
MCFewSizes == {0, 2, 3}
MCTwoTypes == {PMAP_PAGE_TYPE_KERNEL_DATA, PMAP_PAGE_TYPE_PAGE_TABLE}
MCOneType == {PMAP_PAGE_TYPE_PAGE_TABLE}
MCGarbage == {PMAP_PAGE_TYPE_KERNEL_DATA}
MCCounts == {0, 1, 2}

=============================================================================
