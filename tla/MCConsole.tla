----------------------------- MODULE MCConsole -----------------------------
(* main prints a line and a number, a panic a banner and a message with a   *)
(* percent sign in it. Every flag with some widths, precisions, types and   *)
(* values, and every type with the least and the greatest of its numbers.   *)
EXTENDS Console

MCMainPrints == << [format |-> <<"o", "k", "\n">>, args |-> <<>>],
                   [format |-> <<"%", "0", "3", "x", "\n">>, args |-> <<10>>] >>

MCPanicPrints == << [format |-> <<"\n", "P">>, args |-> <<>>],
                    [format |-> <<"%", "s">>, args |-> << <<"%", "d">> >>] >>

Numbers ==
  [ flags : SUBSET Flags, width : {0, 6}, star : {FALSE}, precision : {-1, 0, 5},
    type : {"hh", "int", "l"}, conversion : {"d", "x", "o"}, argument : {0, 8, 65530, -32768} ]

(* The ends of each type's range; -1 is its greatest unsigned number.       *)
Limits ==
  UNION { [ flags : SUBSET {PLUS, ZERO}, width : {0, 12}, star : {FALSE}, precision : {-1},
            type : {t}, conversion : {"d", "u"},
            argument : {2 ^ (Bits[t] - 1) - 1, -(2 ^ (Bits[t] - 1)), -1} ] : t \in DOMAIN Bits }

Stars ==
  [ flags : SUBSET {MINUS, ZERO, PLUS}, width : {-6, 6}, star : {TRUE}, precision : {-1, 2, 70},
    type : {"hh", "h", "z", "ll"}, conversion : {"i", "u", "X", "p"}, argument : {0, 12345678, -1} ]

Others ==
  [ flags : SUBSET {MINUS, POUND}, width : {0, 4}, star : BOOLEAN, precision : {-1, 0, 2},
    type : {"int", "j", "t"}, conversion : {"s"}, argument : {<<>>, <<"a", "b", "c">>, NULL} ]
  \cup
  [ flags : SUBSET {MINUS, ZERO}, width : {-3, 3}, star : {TRUE}, precision : {-1, 0},
    type : {"int"}, conversion : {"c"}, argument : {"z"} ]
  \cup
  [ flags : SUBSET {PLUS, SPACE, POUND}, width : {0}, star : BOOLEAN, precision : {-1, 0, 1, 3, 12},
    type : {"int"}, conversion : {"f"}, argument : {0, 1, -1, 20, -9, 8003} ]

MCRequests == Numbers \cup Limits \cup Stars \cup Others

=============================================================================
