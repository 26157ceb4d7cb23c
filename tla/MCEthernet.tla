----------------------------- MODULE MCEthernet -----------------------------
(* Every driver, with memory for two frames in its controller: one call      *)
(* finds it full of received frames, or of its own that wait.                *)
EXTENDS Ethernet

MCBoards == {"smc91111", "cs8900", "easynet", "3c589"}
=============================================================================
