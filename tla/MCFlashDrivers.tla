---------------------------- MODULE MCFlashDrivers ----------------------------
(* Two sectors of 4 bytes: one word of a board with two chips.               *)
EXTENDS FlashDrivers

MCBoards ==
    {"lart", "dnp1110", "samsung", "kipdcs_int", "kipcharm_int", "epxa1db_int", "impa7",
     "ep7312", "lubbock", "cradle", "shannon", "smdk2410", "kipdcs_amd", "kipcharm_amd",
     "epxa1db_amd"}

MCPuzzle == [b \in {0, 7} |-> 7 - b]

(* Erased flash; flash in which two bytes, or all of a sector, were written. *)
MCContents ==
    { [a \in 0..7 |-> {0, 7}], [a \in 0..7 |-> IF a \in {2, 5} THEN {0} ELSE {0, 7}],
      [a \in 0..7 |-> IF a < 4 THEN {} ELSE {0, 7}] }

MCSources ==
    { [a \in 0..7 |->
          IF a < 4 THEN {0}
          ELSE CASE a = 4 -> {} [] a = 5 -> {0} [] a = 6 -> {7} [] OTHER -> {0, 7}] }

(* Whole words, odd ends, one byte, two sectors. *)
MCCalls ==
    { [op |-> "write", from |-> 0, to |-> 3], [op |-> "write", from |-> 1, to |-> 5],
      [op |-> "write", from |-> 2, to |-> 2], [op |-> "write", from |-> 4, to |-> 6],
      [op |-> "erase", from |-> 0, to |-> 1], [op |-> "erase", from |-> 1, to |-> 1] }
====
