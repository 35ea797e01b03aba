---------------------------- MODULE MCPmapInit ----------------------------
(* PmapInit with tables of four entries: a first-level entry covers sixteen *)
(* pages, RAM and the devices take two of them.                             *)
EXTENDS PmapInit

MCBoots ==
  { b \in [ kernel_base : 0 .. 2, text : 1 .. 2, ro_data : 0 .. 1, rw_data : 0 .. 2,
            ram_size : {24, 28, 29} ] :
      b.text + b.ro_data + b.rw_data < 4 }

=============================================================================
