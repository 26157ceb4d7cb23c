------------------------------- MODULE MCTimer -------------------------------
(* A decrementer that wraps every 4 ticks, a time that wraps at 16, 4         *)
(* milliseconds in a second.                                                 *)
EXTENDS Timer

MCBoards == [timer : {"decrementer", "incrementer"}, rxDelays : BOOLEAN]
==============================================================================
